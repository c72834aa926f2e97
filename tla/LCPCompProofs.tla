---------------------------- MODULE LCPCompProofs ----------------------------
(***************************************************************************)
(* Proofs about LCPComp, for every text, threshold and strategy: the       *)
(* factors are sound, the candidates are exact, and the greedy strategies  *)
(* take the longest match that is left (the three theorems at the end).    *)
(*                                                                         *)
(* The arrays: TextIndex numbers the suffixes in their order, and the loop *)
(* of PLCPFromPhi finds the match of each with its predecessor although it *)
(* starts where the last one ended (SuffixArrayIs, PLCPIs).  The factors:  *)
(* sorting and flattening keep them sound and disjoint (SortedIs,          *)
(* FlattenedIs).  The steps: Inv has one part for each way of searching    *)
(* (CursorGood, QueueExact, ArraysExact, PeaksGood, HeapGood) beside what  *)
(* holds of all; one lemma per action shows that it stays.                 *)
(*                                                                         *)
(* Recursive functions are met with their solutions: two would differ at   *)
(* a least argument (LeastNumber), and there they agree.                   *)
(***************************************************************************)
EXTENDS LCPComp, FiniteSetTheorems, SequenceTheorems,
        FunctionTheorems, WellFoundedInduction, TLAPS

Less == {p \in Nat \X Nat : p[1] < p[2]}

\* Every inhabited set of natural numbers has a least one,
LEMMA LeastNumber ==
  ASSUME NEW S, S \subseteq Nat, S # {}
  PROVE  \E x \in S : \A y \in S : x <= y
<1>1. IsWellFoundedOn(Less, Nat)
  BY NatLessThanWellFounded, Zenon DEF OpToRel, Less
<1>2. PICK x \in S : \A y \in S : ~ (<<y, x>> \in Less)
  BY <1>1, WFMin
<1>3. ASSUME NEW y \in S, y < x PROVE FALSE
  <2>1. <<y, x>> \in Less
    BY <1>3 DEF Less
  <2> QED
    BY <1>2, <2>1
<1> QED
  BY <1>3

\* so that a set that holds 0 and with a number the next one holds all.
LEMMA AllNumbers ==
  ASSUME NEW T, 0 \in T, \A k \in Nat : k \in T => k + 1 \in T
  PROVE  Nat \subseteq T
<1> DEFINE Bad == {k \in Nat : k \notin T}
<1> SUFFICES ASSUME Bad # {} PROVE FALSE
  OBVIOUS
<1>1. PICK k \in Bad : \A y \in Bad : k <= y
  BY LeastNumber
<1>2. k # 0 /\ k - 1 \in Nat /\ k - 1 + 1 = k
  BY <1>1
<1>3. k - 1 \in T
  BY <1>1, <1>2
<1> QED
  BY <1>1, <1>2, <1>3

\* A bounded set of them has a greatest one.
LEMMA GreatestNumber ==
  ASSUME NEW S, S \subseteq Nat, S # {}, NEW b \in Nat, \A x \in S : x <= b
  PROVE  \E x \in S : \A y \in S : y <= x
<1> DEFINE B == {k \in Nat : \A y \in S : y <= k}
<1>1. PICK k \in B : \A y \in B : k <= y
  <2>1. b \in B
    OBVIOUS
  <2> HIDE DEF B
  <2> QED
    BY <2>1, LeastNumber DEF B
<1>2. k \in S
  <2> SUFFICES ASSUME k \notin S PROVE FALSE
    OBVIOUS
  <2>1. PICK s \in S : TRUE
    OBVIOUS
  <2>2. \A y \in S : y <= k - 1
    OBVIOUS
  <2>3. k - 1 \in B
    BY <2>1, <2>2
  <2> QED
    BY <1>1, <2>3
<1> QED
  BY <1>1, <1>2

-----------------------------------------------------------------------------
(* Suffixes.  A text ends with its only 0. *)

Ended(t) == t \in Seq(Nat) /\ Len(t) \in Nat \ {0} /\ \A k \in 1 .. Len(t) : t[k] = 0 <=> k = Len(t)

LEMMA EndOnly ==
  ASSUME NEW t, Ended(t)
  PROVE  /\ t[Len(t)] = 0
         /\ \A k \in 1 .. Len(t) - 1 : t[k] # 0
BY DEF Ended

\* The suffixes g and j have their first l symbols in common, and no more.
Agree(t, g, j, l) == \A d \in 0 .. l - 1 : t[g + d + 1] = t[j + d + 1]
Match(t, g, j, l) ==
  /\ l \in Nat /\ g + l < Len(t) /\ j + l < Len(t)
  /\ Agree(t, g, j, l) /\ t[g + l + 1] # t[j + l + 1]

LEMMA MatchExists ==
  ASSUME NEW t, Ended(t), NEW g \in Positions(t), NEW j \in Positions(t), g # j
  PROVE  \E l : Match(t, g, j, l)
<1> DEFINE D == {l \in Nat : t[g + l + 1] # t[j + l + 1]}
           b == IF g < j THEN j ELSE g
<1>0. g \in Nat /\ j \in Nat /\ g < Len(t) /\ j < Len(t) /\ Len(t) \in Nat
  BY DEF Positions, Ended
<1>1. Len(t) - 1 - b \in D /\ g + (Len(t) - 1 - b) < Len(t) /\ j + (Len(t) - 1 - b) < Len(t)
  <2>1. CASE g < j
    <3>1. g + (Len(t) - 1 - j) + 1 \in 1 .. Len(t) - 1 /\ j + (Len(t) - 1 - j) + 1 = Len(t)
      BY <1>0, <2>1
    <3>2. t[g + (Len(t) - 1 - j) + 1] # 0 /\ t[Len(t)] = 0
      BY <3>1, EndOnly
    <3> QED
      BY <1>0, <2>1, <3>1, <3>2
  <2>2. CASE j < g
    <3>1. j + (Len(t) - 1 - g) + 1 \in 1 .. Len(t) - 1 /\ g + (Len(t) - 1 - g) + 1 = Len(t)
      BY <1>0, <2>2
    <3>2. t[j + (Len(t) - 1 - g) + 1] # 0 /\ t[Len(t)] = 0
      BY <3>1, EndOnly
    <3> QED
      BY <1>0, <2>2, <3>1, <3>2
  <2> QED
    BY <1>0, <2>1, <2>2
<1>2. PICK l \in D : \A y \in D : l <= y
  <2>1. D \subseteq Nat /\ D # {}
    BY <1>1
  <2> HIDE DEF D
  <2> QED
    BY <2>1, LeastNumber
<1>3. l \in Nat /\ g + l < Len(t) /\ j + l < Len(t) /\ t[g + l + 1] # t[j + l + 1]
  <2> DEFINE c == Len(t) - 1 - b
  <2>1. c \in D /\ g + c < Len(t) /\ j + c < Len(t)
    BY <1>1
  <2> HIDE DEF c
  <2>2. l <= c /\ c \in Nat /\ l \in Nat /\ t[g + l + 1] # t[j + l + 1]
    BY <1>2, <2>1
  <2> QED
    BY <1>0, <2>1, <2>2
<1>4. Agree(t, g, j, l)
  BY <1>2, <1>3 DEF Agree
<1> QED
  BY <1>3, <1>4 DEF Match

LEMMA MatchUnique ==
  ASSUME NEW t, NEW g, NEW j, NEW l, NEW m, Match(t, g, j, l), Match(t, g, j, m)
  PROVE  l = m
BY DEF Match, Agree

LEMMA MatchSymmetric ==
  ASSUME NEW t, NEW g, NEW j, NEW l, Match(t, g, j, l) PROVE Match(t, j, g, l)
BY DEF Match, Agree

\* A search from a on ends at the first number that is not in e.
LEMMA SearchUp ==
  ASSUME NEW e \in [Nat -> BOOLEAN], NEW a \in Nat, NEW m \in Nat, a <= m, ~ e[m],
         \A k \in a .. m - 1 : e[k]
  PROVE  /\ \E L : L = [k \in Nat |-> IF e[k] THEN L[k + 1] ELSE k]
         /\ \A L : L = [k \in Nat |-> IF e[k] THEN L[k + 1] ELSE k] => L[a] = m
<1> DEFINE Stop(k, x) == x \in Nat /\ k <= x /\ ~ e[x] /\ \A y \in k .. x - 1 : e[y]
           L0 == [k \in Nat |-> IF \E x : Stop(k, x) THEN CHOOSE x : Stop(k, x) ELSE 0]
<1>1. \A k \in Nat : \A x, y : Stop(k, x) /\ Stop(k, y) => x = y
  OBVIOUS
<1>2. ASSUME NEW k \in Nat PROVE L0[k] = IF e[k] THEN L0[k + 1] ELSE k
  <2>1. CASE e[k]
    <3>1. \A x : Stop(k, x) <=> Stop(k + 1, x)
      <4> SUFFICES ASSUME NEW x PROVE Stop(k, x) <=> Stop(k + 1, x)
        OBVIOUS
      <4>1. Stop(k, x) => Stop(k + 1, x)
        <5> SUFFICES ASSUME Stop(k, x) PROVE Stop(k + 1, x)
          OBVIOUS
        <5>1. k # x
          BY <2>1
        <5> QED
          BY <5>1
      <4>2. Stop(k + 1, x) => Stop(k, x)
        BY <2>1
      <4> QED
        BY <4>1, <4>2
    <3> HIDE DEF Last
    <3>2. (CHOOSE x : Stop(k, x)) = (CHOOSE x : Stop(k + 1, x))
      BY <3>1
    <3>3. /\ L0[k] = IF \E x : Stop(k, x) THEN CHOOSE x : Stop(k, x) ELSE 0
          /\ L0[k + 1] = IF \E x : Stop(k + 1, x) THEN CHOOSE x : Stop(k + 1, x) ELSE 0
      OBVIOUS
    <3> HIDE DEF L0
    <3> QED
      BY <2>1, <3>1, <3>2, <3>3, Zenon
  <2>2. CASE ~ e[k]
    <3>1. Stop(k, k)
      BY <2>2
    <3> HIDE DEF Last
    <3> QED
      BY <1>1, <2>2, <3>1
  <2> QED
    BY <2>1, <2>2
<1>3. L0 = [k \in Nat |-> IF e[k] THEN L0[k + 1] ELSE k]
  <2>1. L0 = [k \in Nat |-> L0[k]]
    OBVIOUS
  <2> HIDE DEF L0
  <2> QED
    BY <1>2, <2>1
<1>4. ASSUME NEW L, L = [k \in Nat |-> IF e[k] THEN L[k + 1] ELSE k] PROVE L[a] = m
  <2> DEFINE T == {d \in Nat : d <= m - a => L[m - d] = m}
  <2>0. \A k \in Nat : L[k] = IF e[k] THEN L[k + 1] ELSE k
    BY <1>4
  <2>1. 0 \in T
    BY <2>0
  <2>2. ASSUME NEW d \in Nat, d \in T PROVE d + 1 \in T
    <3> SUFFICES ASSUME d + 1 <= m - a PROVE L[m - (d + 1)] = m
      OBVIOUS
    <3> DEFINE k == m - (d + 1)
    <3>1. k \in Nat /\ k \in a .. m - 1 /\ k + 1 = m - d /\ d <= m - a
      OBVIOUS
    <3>2. L[m - d] = m
      BY <2>2, <3>1
    <3> HIDE DEF k
    <3>3. L[k] = m
      BY <2>0, <3>1, <3>2
    <3> QED
      BY <3>3 DEF k
  <2> HIDE DEF T
  <2>3. m - a \in T
    BY <2>1, <2>2, AllNumbers
  <2>4. m - (m - a) = a /\ m - a <= m - a
    OBVIOUS
  <2> QED
    BY <2>3, <2>4 DEF T
<1> QED
  BY <1>3, <1>4

\* The loop of CommonPrefix.
LEMMA CommonPrefixIs ==
  ASSUME NEW t, NEW g, NEW j, NEW l, Match(t, g, j, l)
  PROVE  CommonPrefix(t, g, j) = l
<1> DEFINE e == [k \in Nat |-> t[g + k + 1] = t[j + k + 1]]
           Loop(L) == L = [k \in Nat |-> IF t[g + k + 1] = t[j + k + 1] THEN L[k + 1] ELSE k]
<1>1. \A L : Loop(L) <=> L = [k \in Nat |-> IF e[k] THEN L[k + 1] ELSE k]
  OBVIOUS
<1>2. e \in [Nat -> BOOLEAN] /\ l \in Nat /\ ~ e[l] /\ \A k \in 0 .. l - 1 : e[k]
  <2>1. l \in Nat /\ t[g + l + 1] # t[j + l + 1]
    BY DEF Match
  <2>2. \A k \in 0 .. l - 1 : k \in Nat /\ t[g + k + 1] = t[j + k + 1]
    BY DEF Match, Agree
  <2> QED
    BY <2>1, <2>2
<1> HIDE DEF e
<1>3. (\E L : Loop(L)) /\ \A L : Loop(L) => L[0] = l
  <2>1. 0 \in Nat /\ 0 <= l
    BY <1>2
  <2> HIDE DEF Loop
  <2> QED
    BY <1>1, <1>2, <2>1, SearchUp
<1>4. CommonPrefix(t, g, j) = (CHOOSE L : Loop(L))[0]
  BY Zenon DEF CommonPrefix
<1> HIDE DEF Loop
<1> QED
  BY <1>3, <1>4, Zenon

\* Which of two suffixes is less.
LEMMA LessIs ==
  ASSUME NEW t, NEW g, NEW j, NEW l, Match(t, g, j, l), g # j
  PROVE  SuffixLess(t, g, j) <=> t[g + l + 1] < t[j + l + 1]
BY CommonPrefixIs, Zenon DEF SuffixLess

LEMMA SymbolOf ==
  ASSUME NEW t, Ended(t), NEW g \in Nat, g < Len(t) PROVE t[g + 1] \in Nat
BY DEF Ended

\* The order of the suffixes is total.
LEMMA LessTotal ==
  ASSUME NEW t, Ended(t), NEW g \in Positions(t), NEW j \in Positions(t), g # j
  PROVE  SuffixLess(t, g, j) <=> ~ SuffixLess(t, j, g)
<1>1. PICK l : Match(t, g, j, l)
  BY MatchExists
<1>2. Match(t, j, g, l)
  BY <1>1, MatchSymmetric
<1>3. t[g + l + 1] \in Nat /\ t[j + l + 1] \in Nat /\ t[g + l + 1] # t[j + l + 1]
  <2>1. g + l \in Nat /\ j + l \in Nat
    BY <1>1 DEF Match, Positions
  <2> QED
    BY <1>1, <2>1, SymbolOf DEF Match
<1>4. /\ SuffixLess(t, g, j) <=> t[g + l + 1] < t[j + l + 1]
      /\ SuffixLess(t, j, g) <=> t[j + l + 1] < t[g + l + 1]
  BY <1>1, <1>2, LessIs
<1> QED
  BY <1>3, <1>4

LEMMA LessTransitive ==
  ASSUME NEW t, Ended(t), NEW g \in Positions(t), NEW j \in Positions(t), NEW k \in Positions(t),
         SuffixLess(t, g, j), SuffixLess(t, j, k)
  PROVE  SuffixLess(t, g, k)
<1>0. g # j /\ j # k /\ g \in Nat /\ j \in Nat /\ k \in Nat
  BY DEF SuffixLess, Positions
<1>1. PICK l : Match(t, g, j, l)
  BY <1>0, MatchExists
<1>2. PICK m : Match(t, j, k, m)
  BY <1>0, MatchExists
<1>3. t[g + l + 1] < t[j + l + 1] /\ t[j + m + 1] < t[k + m + 1]
  BY <1>0, <1>1, <1>2, LessIs
<1>4. /\ l \in Nat /\ m \in Nat /\ Len(t) \in Nat
      /\ g + l < Len(t) /\ j + l < Len(t) /\ j + m < Len(t) /\ k + m < Len(t)
  BY <1>1, <1>2 DEF Match, Ended
<1> DEFINE x == IF l < m THEN l ELSE m
<1>5. t[g + x + 1] \in Nat /\ t[j + x + 1] \in Nat /\ t[k + x + 1] \in Nat
  <2>1. x \in Nat /\ g + x < Len(t) /\ j + x < Len(t) /\ k + x < Len(t)
    BY <1>0, <1>4
  <2> HIDE DEF x
  <2>2. g + x \in Nat /\ j + x \in Nat /\ k + x \in Nat
    BY <1>0, <2>1
  <2> QED
    BY <2>1, <2>2, SymbolOf
<1>6. t[g + x + 1] < t[k + x + 1]
  <2>1. CASE l < m
    BY <1>1, <1>2, <1>3, <1>4, <1>5, <2>1 DEF Match, Agree
  <2>2. CASE m < l
    BY <1>1, <1>2, <1>3, <1>4, <1>5, <2>2 DEF Match, Agree
  <2>3. CASE m = l
    BY <1>3, <1>4, <1>5, <2>3
  <2> QED
    BY <1>4, <2>1, <2>2, <2>3
<1>7. Match(t, g, k, x)
  <2>1. Agree(t, g, k, x)
    BY <1>1, <1>2, <1>4 DEF Match, Agree
  <2>2. t[g + x + 1] # t[k + x + 1]
    BY <1>5, <1>6
  <2>3. g + x < Len(t) /\ k + x < Len(t) /\ x \in Nat
    BY <1>0, <1>4
  <2> QED
    BY <2>1, <2>2, <2>3 DEF Match
<1>8. g # k
  BY <1>5, <1>6
<1> QED
  BY <1>6, <1>7, <1>8, LessIs

-----------------------------------------------------------------------------
(* Sorting: in a total order R every element has a number, that of those   *)
(* before it.                                                              *)

Before(S, R, x) == {y \in S : <<y, x>> \in R}

Total(S, R) ==
  /\ IsFiniteSet(S)
  /\ \A x, y \in S : x # y => (<<x, y>> \in R <=> <<y, x>> \notin R)
  /\ \A x \in S : <<x, x>> \notin R
  /\ \A x, y, z \in S : <<x, y>> \in R /\ <<y, z>> \in R => <<x, z>> \in R

LEMMA BeforeFinite ==
  ASSUME NEW S, NEW R, Total(S, R), NEW x \in S
  PROVE  /\ IsFiniteSet(Before(S, R, x))
         /\ Cardinality(S) \in Nat
         /\ Cardinality(Before(S, R, x)) \in 0 .. Cardinality(S) - 1
<1>1. Before(S, R, x) \in SUBSET S /\ x \notin Before(S, R, x)
  BY DEF Before, Total
<1>2. /\ IsFiniteSet(Before(S, R, x)) /\ Cardinality(Before(S, R, x)) <= Cardinality(S)
      /\ Cardinality(S) # Cardinality(Before(S, R, x))
  BY <1>1, FS_Subset DEF Total
<1>3. Cardinality(S) \in Nat /\ Cardinality(Before(S, R, x)) \in Nat
  BY <1>2, FS_CardinalityType DEF Total
<1> QED
  BY <1>2, <1>3

LEMMA BeforeGrows ==
  ASSUME NEW S, NEW R, Total(S, R), NEW x \in S, NEW y \in S, <<x, y>> \in R
  PROVE  Cardinality(Before(S, R, x)) < Cardinality(Before(S, R, y))
<1>1. /\ Before(S, R, x) \in SUBSET Before(S, R, y)
      /\ x \in Before(S, R, y) /\ x \notin Before(S, R, x)
  BY DEF Before, Total
<1>2. /\ Cardinality(Before(S, R, x)) <= Cardinality(Before(S, R, y))
      /\ Cardinality(Before(S, R, x)) # Cardinality(Before(S, R, y))
  BY <1>1, BeforeFinite, FS_Subset
<1> QED
  BY <1>2, BeforeFinite

LEMMA Numbered ==
  ASSUME NEW S, NEW R, Total(S, R)
  PROVE  /\ \A x, y \in S : <<x, y>> \in R <=> Cardinality(Before(S, R, x)) < Cardinality(Before(S, R, y))
         /\ \A x, y \in S : Cardinality(Before(S, R, x)) = Cardinality(Before(S, R, y)) => x = y
         /\ \A k \in 0 .. Cardinality(S) - 1 : \E x \in S : Cardinality(Before(S, R, x)) = k
<1> DEFINE m == Cardinality(S)
           c == [x \in S |-> Cardinality(Before(S, R, x))]
<1>1. c \in [S -> 0 .. m - 1] /\ m \in Nat
  <2>1. m \in Nat
    BY FS_CardinalityType DEF Total
  <2> QED
    BY <2>1, BeforeFinite
<1>2. \A x, y \in S : <<x, y>> \in R => c[x] < c[y]
  BY BeforeGrows
<1>3. \A x, y \in S : x # y => <<x, y>> \in R \/ <<y, x>> \in R
  BY DEF Total
<1>4. \A x, y \in S : c[x] \in Nat /\ c[y] \in Nat
  BY <1>1
<1> HIDE DEF c
<1>12. ASSUME NEW x \in S, NEW y \in S
       PROVE  /\ c[x] = c[y] => x = y
              /\ <<x, y>> \in R <=> c[x] < c[y]
  <2>1. c[x] \in Nat /\ c[y] \in Nat
    BY <1>1
  <2>2. <<x, y>> \in R => c[x] < c[y]
    BY <1>2
  <2>3. <<y, x>> \in R => c[y] < c[x]
    BY <1>2
  <2>4. x # y => <<x, y>> \in R \/ <<y, x>> \in R
    BY <1>3
  <2> QED
    BY <2>1, <2>2, <2>3, <2>4
<1>5. \A x, y \in S : c[x] = c[y] => x = y
  BY <1>12
<1>6. \A x, y \in S : <<x, y>> \in R <=> c[x] < c[y]
  BY <1>12
<1>7. c \in Injection(S, 0 .. m - 1)
  BY <1>1, <1>5, Fun_IsInj
<1>8. IsFiniteSet(0 .. m - 1) /\ Cardinality(0 .. m - 1) = m
  BY <1>1, FS_Interval, SMTT(30)
<1>9. c \in Surjection(S, 0 .. m - 1)
  BY <1>7, <1>8, FS_Injection
<1>10. \A k \in 0 .. m - 1 : \E x \in S : c[x] = k
  <2> DEFINE K == 0 .. m - 1
  <2>1. c \in Surjection(S, K)
    BY <1>9
  <2> HIDE DEF K
  <2>2. \A k \in K : \E x \in S : c[x] = k
    BY <2>1, Fun_SurjectionProperties
  <2> QED
    BY <2>2 DEF K
<1>11. \A x \in S : c[x] = Cardinality(Before(S, R, x))
  BY DEF c
<1> QED
  BY <1>5, <1>6, <1>10, <1>11

-----------------------------------------------------------------------------
(* The arrays of the index. *)

SuffixOrder(t) == {p \in Positions(t) \X Positions(t) : SuffixLess(t, p[1], p[2])}

LEMMA SuffixesTotal ==
  ASSUME NEW t, Ended(t)
  PROVE  /\ Total(Positions(t), SuffixOrder(t)) /\ Cardinality(Positions(t)) = Len(t)
         /\ Len(t) \in Nat
<1>1. /\ Len(t) \in Nat /\ IsFiniteSet(Positions(t)) /\ Cardinality(Positions(t)) = Len(t)
  <2>1. Len(t) \in Nat \ {0}
    BY DEF Ended
  <2> QED
    BY <2>1, FS_Interval DEF Positions
<1>2. \A x, y \in Positions(t) : <<x, y>> \in SuffixOrder(t) <=> SuffixLess(t, x, y)
  BY DEF SuffixOrder
<1>3. \A x \in Positions(t) : ~ SuffixLess(t, x, x)
  BY DEF SuffixLess
<1> QED
  BY <1>1, <1>2, <1>3, LessTotal, LessTransitive DEF Total

\* suf holds the positions in the order of their suffixes, rank is its inverse.
Ordered(t, suf, rank) ==
  /\ suf \in [Positions(t) -> Positions(t)] /\ rank \in [Positions(t) -> Positions(t)]
  /\ \A r \in Positions(t) : rank[suf[r]] = r
  /\ \A g \in Positions(t) : suf[rank[g]] = g
  /\ \A g, j \in Positions(t) : SuffixLess(t, g, j) <=> rank[g] < rank[j]

\* The suffix array of TextIndex holds every position once, in the order of the
\* suffixes, and ISAFromSA inverts it (ISAFromSA.hpp:37-39), for every text.
THEOREM SuffixArrayIs ==
  ASSUME NEW t, Ended(t)
  PROVE  Ordered(t, SuffixArray(t), ISAFromSA(SuffixArray(t)))
<1> DEFINE P == Positions(t)
           R == SuffixOrder(t)
           c(g) == Cardinality(Before(P, R, g))
           B(g) == {j \in P : SuffixLess(t, j, g)}
           ranked == {<<Cardinality(B(g)), g>> : g \in P}
           suf == SuffixArray(t)
           rank == ISAFromSA(suf)
<1>1. /\ \A x, y \in P : <<x, y>> \in R <=> c(x) < c(y)
      /\ \A x, y \in P : c(x) = c(y) => x = y
      /\ \A k \in P : \E x \in P : c(x) = k
      /\ \A x \in P : c(x) \in P
  <2>1. P = 0 .. Cardinality(P) - 1 /\ Total(P, R)
    BY SuffixesTotal DEF Positions
  <2> HIDE DEF P, R
  <2>2. /\ \A x, y \in P : <<x, y>> \in R <=> c(x) < c(y)
        /\ \A x, y \in P : c(x) = c(y) => x = y
        /\ \A k \in 0 .. Cardinality(P) - 1 : \E x \in P : c(x) = k
    BY <2>1, Numbered
  <2>3. \A x \in P : c(x) \in 0 .. Cardinality(P) - 1
    BY <2>1, BeforeFinite
  <2> HIDE DEF c
  <2> QED
    BY <2>1, <2>2, <2>3
<1>2. \A x, y \in P : <<x, y>> \in R <=> SuffixLess(t, x, y)
  BY DEF SuffixOrder
<1>3. \A g \in P : B(g) = Before(P, R, g)
  BY <1>2 DEF Before
<1>4. \A g \in P : Cardinality(B(g)) = c(g)
  BY <1>3
<1>5. suf = [r \in P |-> CHOOSE g \in P : <<r, g>> \in ranked]
  BY Zenon DEF SuffixArray
<1> HIDE DEF P, R, c, B, suf
<1>6. \A r, g : <<r, g>> \in ranked <=> g \in P /\ r = c(g)
  BY <1>4
<1> HIDE DEF ranked
<1>7. \A r \in P : suf[r] \in P /\ c(suf[r]) = r
  <2> SUFFICES ASSUME NEW r \in P PROVE suf[r] \in P /\ c(suf[r]) = r
    OBVIOUS
  <2>1. suf[r] = CHOOSE g \in P : <<r, g>> \in ranked
    BY <1>5
  <2>2. \E g \in P : <<r, g>> \in ranked
    BY <1>1, <1>6
  <2>3. suf[r] \in P /\ <<r, suf[r]>> \in ranked
    BY <2>1, <2>2
  <2> QED
    BY <1>6, <2>3
<1>8. suf \in [P -> P] /\ DOMAIN suf = P
  BY <1>5, <1>7
<1>9. \A g \in P : suf[c(g)] = g
  BY <1>1, <1>7
<1>10. rank = [g \in P |-> CHOOSE r \in P : suf[r] = g]
  BY <1>8 DEF ISAFromSA
<1>11. \A g \in P : rank[g] \in P /\ suf[rank[g]] = g
  BY <1>1, <1>9, <1>10
<1>12. \A g \in P : rank[g] = c(g)
  BY <1>7, <1>11
<1>13. rank \in [P -> P]
  BY <1>10, <1>11
<1> HIDE DEF rank
<1>14. \A r \in P : rank[suf[r]] = r
  BY <1>7, <1>12
<1>15. \A g, j \in P : SuffixLess(t, g, j) <=> rank[g] < rank[j]
  <2> SUFFICES ASSUME NEW g \in P, NEW j \in P PROVE SuffixLess(t, g, j) <=> rank[g] < rank[j]
    OBVIOUS
  <2>1. rank[g] = c(g) /\ rank[j] = c(j)
    BY <1>12
  <2>2. <<g, j>> \in R <=> c(g) < c(j)
    BY <1>1
  <2>3. <<g, j>> \in R <=> SuffixLess(t, g, j)
    BY <1>2
  <2> QED
    BY <2>1, <2>2, <2>3
<1> QED
  BY <1>8, <1>11, <1>13, <1>14, <1>15 DEF Ordered, P, suf, rank

\* The suffix 0 is the least.
LEMMA LastLeast ==
  ASSUME NEW t, Ended(t), NEW suf, NEW rank, Ordered(t, suf, rank)
  PROVE  rank[Len(t) - 1] = 0
<1> DEFINE e == Len(t) - 1
<1>1. e \in Positions(t) /\ 0 \in Positions(t) /\ e \in Nat
  BY DEF Ended, Positions
<1>2. ASSUME NEW p \in Positions(t), p # e PROVE rank[e] < rank[p]
  <2>1. t[e + 1] = 0 /\ t[p + 1] # 0 /\ p + 1 \in 1 .. Len(t) /\ p \in Nat /\ Len(t) \in Nat
    BY <1>2 DEF Ended, Positions
  <2>2. t[p + 1] \in Nat /\ p < e
    BY <1>2, <2>1 DEF Ended
  <2>3. Match(t, e, p, 0)
    BY <1>1, <2>1, <2>2 DEF Match, Agree
  <2>4. SuffixLess(t, e, p)
    BY <1>2, <2>1, <2>2, <2>3, LessIs
  <2> QED
    BY <1>1, <2>4 DEF Ordered
<1> HIDE DEF e
<1>3. rank[suf[0]] = 0 /\ suf[0] \in Positions(t)
  BY <1>1 DEF Ordered
<1>4. rank[e] \in Positions(t)
  BY <1>1 DEF Ordered
<1>5. rank[e] \in Nat
  BY <1>4 DEF Positions
<1>6. CASE suf[0] = e
  BY <1>3, <1>6 DEF e
<1>7. CASE suf[0] # e
  BY <1>2, <1>3, <1>5, <1>7
<1> QED
  BY <1>6, <1>7

\* A suffix between two others in the order has at least as much in common with
\* the greater one as the least has.
LEMMA Between ==
  ASSUME NEW t, Ended(t), NEW a \in Positions(t), NEW b \in Positions(t), NEW c \in Positions(t),
         SuffixLess(t, a, b), SuffixLess(t, b, c), NEW l, NEW m, Match(t, a, c, l), Match(t, b, c, m)
  PROVE  l <= m
<1> SUFFICES ASSUME m < l PROVE FALSE
  BY DEF Match
<1>1. a # b /\ b # c /\ a \in Nat /\ b \in Nat /\ c \in Nat /\ l \in Nat /\ m \in Nat
  BY DEF SuffixLess, Positions, Match
<1>2. t[b + m + 1] < t[c + m + 1]
  BY <1>1, LessIs
<1>3. t[a + m + 1] = t[c + m + 1]
  BY <1>1 DEF Match, Agree
<1>4. t[b + m + 1] \in Nat /\ t[c + m + 1] \in Nat
  <2>1. b + m \in Nat /\ c + m \in Nat /\ b + m < Len(t) /\ c + m < Len(t)
    BY <1>1 DEF Match
  <2> QED
    BY <2>1, SymbolOf
<1>5. Match(t, a, b, m)
  <2>1. Agree(t, a, b, m)
    BY <1>1 DEF Match, Agree
  <2>2. a + m < Len(t) /\ b + m < Len(t)
    BY <1>1 DEF Match, Ended
  <2>3. t[a + m + 1] # t[b + m + 1]
    BY <1>2, <1>3, <1>4
  <2> QED
    BY <1>1, <2>1, <2>2, <2>3 DEF Match
<1>6. t[a + m + 1] < t[b + m + 1]
  BY <1>1, <1>5, LessIs
<1> QED
  BY <1>2, <1>3, <1>4, <1>6

\* Without d of their common symbols two suffixes keep their order.
LEMMA Shifted ==
  ASSUME NEW t, Ended(t), NEW a \in Positions(t), NEW b \in Positions(t),
         NEW m, Match(t, a, b, m), NEW d \in 0 .. m
  PROVE  /\ a + d \in Positions(t) /\ b + d \in Positions(t)
         /\ Match(t, a + d, b + d, m - d)
         /\ SuffixLess(t, a, b) => SuffixLess(t, a + d, b + d)
<1>1. a \in Nat /\ b \in Nat /\ m \in Nat /\ d \in Nat /\ m - d \in Nat /\ Len(t) \in Nat
  BY DEF Match, Positions, Ended
<1>2. a + m < Len(t) /\ b + m < Len(t)
  BY DEF Match
<1>3. a + d \in Positions(t) /\ b + d \in Positions(t)
  BY <1>1, <1>2 DEF Positions
<1>4. a + d + (m - d) = a + m /\ b + d + (m - d) = b + m
  BY <1>1
<1>5. Agree(t, a + d, b + d, m - d)
  <2> SUFFICES ASSUME NEW x \in 0 .. (m - d) - 1 PROVE t[a + d + x + 1] = t[b + d + x + 1]
    BY DEF Agree
  <2>1. d + x \in 0 .. m - 1 /\ a + (d + x) + 1 = a + d + x + 1 /\ b + (d + x) + 1 = b + d + x + 1
    BY <1>1
  <2>2. t[a + (d + x) + 1] = t[b + (d + x) + 1]
    BY <2>1 DEF Match, Agree
  <2> QED
    BY <2>1, <2>2
<1>6. t[a + m + 1] # t[b + m + 1]
  BY DEF Match
<1>7. Match(t, a + d, b + d, m - d)
  BY <1>1, <1>2, <1>4, <1>5, <1>6 DEF Match
<1>8. ASSUME SuffixLess(t, a, b) PROVE SuffixLess(t, a + d, b + d)
  <2>1. a # b
    BY <1>8 DEF SuffixLess
  <2>2. t[a + m + 1] < t[b + m + 1]
    BY <1>8, <2>1, LessIs
  <2>3. a + d # b + d
    BY <1>1, <2>1
  <2> QED
    BY <1>4, <1>7, <2>2, <2>3, LessIs
<1> QED
  BY <1>3, <1>7, <1>8

\* The suffix before p in the order, and what the two have in common.
Phi(suf, rank, p) == suf[rank[p] - 1]

LEMMA Predecessor ==
  ASSUME NEW t, Ended(t), NEW suf, NEW rank, Ordered(t, suf, rank), NEW p \in 0 .. Len(t) - 2
  PROVE  /\ p \in Positions(t) /\ rank[p] \in 1 .. Len(t) - 1
         /\ Phi(suf, rank, p) \in Positions(t) /\ Phi(suf, rank, p) # p
         /\ rank[Phi(suf, rank, p)] = rank[p] - 1
         /\ SuffixLess(t, Phi(suf, rank, p), p)
<1>1. Len(t) \in Nat /\ p \in Positions(t) /\ Len(t) - 1 \in Positions(t) /\ p # Len(t) - 1
  BY DEF Ended, Positions
<1>2. rank[p] \in Positions(t) /\ rank[p] # 0
  <2>1. rank[Len(t) - 1] = 0
    BY LastLeast
  <2>2. suf[rank[p]] = p /\ suf[rank[Len(t) - 1]] = Len(t) - 1
    BY <1>1 DEF Ordered
  <2> QED
    BY <1>1, <2>1, <2>2 DEF Ordered
<1>3. rank[p] \in 1 .. Len(t) - 1 /\ rank[p] - 1 \in Positions(t)
  BY <1>1, <1>2 DEF Positions
<1>4. Phi(suf, rank, p) \in Positions(t) /\ rank[Phi(suf, rank, p)] = rank[p] - 1
  BY <1>3 DEF Ordered, Phi
<1>5. rank[p] - 1 < rank[p] /\ rank[p] - 1 # rank[p]
  BY <1>3
<1>6. SuffixLess(t, Phi(suf, rank, p), p)
  BY <1>1, <1>4, <1>5 DEF Ordered
<1> QED
  BY <1>1, <1>3, <1>4, <1>5, <1>6

\* The match of a suffix with its predecessor is at least that of the suffix in
\* front of it, less one.
LEMMA MatchesShrinkByOne ==
  ASSUME NEW t, Ended(t), NEW suf, NEW rank, Ordered(t, suf, rank), NEW p \in 0 .. Len(t) - 3,
         NEW l, Match(t, p, Phi(suf, rank, p), l), NEW m, Match(t, p + 1, Phi(suf, rank, p + 1), m)
  PROVE  l - 1 <= m
<1> DEFINE a == Phi(suf, rank, p)
           b == Phi(suf, rank, p + 1)
<1>0. /\ p \in 0 .. Len(t) - 2 /\ p + 1 \in 0 .. Len(t) - 2 /\ p \in Nat
      /\ l \in Nat /\ m \in Nat /\ Len(t) \in Nat
  BY DEF Match, Ended
<1>1. /\ a \in Positions(t) /\ p \in Positions(t) /\ SuffixLess(t, a, p) /\ a # p
      /\ rank[a] = rank[p] - 1
  BY <1>0, Predecessor
<1>2. /\ b \in Positions(t) /\ p + 1 \in Positions(t) /\ SuffixLess(t, b, p + 1) /\ b # p + 1
      /\ rank[b] = rank[p + 1] - 1 /\ rank[p + 1] \in 1 .. Len(t) - 1
  BY <1>0, Predecessor
<1> HIDE DEF a, b
<1>3. Match(t, a, p, l) /\ Match(t, b, p + 1, m)
  BY MatchSymmetric DEF a, b
<1>4. CASE l = 0
  BY <1>0, <1>4
<1>5. CASE l # 0
  <2>1. 1 \in 0 .. l
    BY <1>0, <1>5
  <2>2. /\ a + 1 \in Positions(t) /\ Match(t, a + 1, p + 1, l - 1) /\ SuffixLess(t, a + 1, p + 1)
    BY <1>1, <1>3, <2>1, Shifted
  <2>3. rank[a + 1] \in Positions(t) /\ rank[a + 1] < rank[p + 1]
    BY <1>2, <2>2 DEF Ordered
  <2>4. rank[a + 1] <= rank[b] /\ rank[a + 1] \in Nat /\ rank[b] \in Nat
    BY <1>2, <2>3 DEF Positions
  <2>5. CASE rank[a + 1] = rank[b]
    <3>1. a + 1 = b
      BY <1>2, <2>2, <2>5 DEF Ordered
    <3>2. l - 1 = m
      BY <1>3, <2>2, <3>1, MatchUnique
    <3> QED
      BY <1>0, <3>2
  <2>6. CASE rank[a + 1] # rank[b]
    <3>1. SuffixLess(t, a + 1, b)
      BY <1>2, <2>2, <2>4, <2>6 DEF Ordered
    <3> QED
      BY <1>2, <1>3, <2>2, <3>1, Between
  <2> QED
    BY <2>5, <2>6
<1> QED
  BY <1>4, <1>5

LEMMA WrapsBack ==
  ASSUME NEW m \in Nat, m > 0, NEW r \in 1 .. m - 1 PROVE (r + m - 1) % m = r - 1
OBVIOUS

\* PhiFromSA.
LEMMA PhiIs ==
  ASSUME NEW t, Ended(t), NEW suf, NEW rank, Ordered(t, suf, rank)
  PROVE  /\ DOMAIN PhiFromSA(suf) = Positions(t)
         /\ \A p \in 0 .. Len(t) - 2 : PhiFromSA(suf)[p] = Phi(suf, rank, p)
<1>1. DOMAIN suf = Positions(t) /\ Cardinality(Positions(t)) = Len(t) /\ Len(t) \in Nat
  BY SuffixesTotal DEF Ordered
<1>2. ASSUME NEW p \in 0 .. Len(t) - 2 PROVE PhiFromSA(suf)[p] = Phi(suf, rank, p)
  <2>1. p \in Positions(t) /\ rank[p] \in 1 .. Len(t) - 1
    BY Predecessor
  <2>2. (CHOOSE r \in Positions(t) : suf[r] = p) = rank[p]
    <3>1. rank[p] \in Positions(t) /\ suf[rank[p]] = p
      BY <2>1 DEF Ordered
    <3>2. \A r \in Positions(t) : suf[r] = p => r = rank[p]
      BY DEF Ordered
    <3> QED
      BY <3>1, <3>2
  <2>3. PhiFromSA(suf)[p] = suf[((CHOOSE r \in Positions(t) : suf[r] = p) + Len(t) - 1) % Len(t)]
    BY <1>1, <2>1 DEF PhiFromSA
  <2>4. (rank[p] + Len(t) - 1) % Len(t) = rank[p] - 1
    <3>1. Len(t) \in Nat /\ Len(t) > 0
      BY DEF Ended
    <3> QED
      BY <2>1, <3>1, WrapsBack
  <2> QED
    BY <2>2, <2>3, <2>4 DEF Phi
<1> QED
  BY <1>1, <1>2 DEF PhiFromSA

LEMMA SearchFrom ==
  ASSUME NEW t, NEW g, NEW j, NEW m, Match(t, g, j, m), NEW l \in 0 .. m
  PROVE  (CHOOSE E : E = [k \in Nat |-> IF t[g + k + 1] = t[j + k + 1] THEN E[k + 1] ELSE k])[l] = m
<1> DEFINE e == [k \in Nat |-> t[g + k + 1] = t[j + k + 1]]
           Loop(L) == L = [k \in Nat |-> IF t[g + k + 1] = t[j + k + 1] THEN L[k + 1] ELSE k]
<1>1. \A L : Loop(L) <=> L = [k \in Nat |-> IF e[k] THEN L[k + 1] ELSE k]
  OBVIOUS
<1>2. e \in [Nat -> BOOLEAN] /\ m \in Nat /\ l \in Nat /\ l <= m /\ ~ e[m] /\ \A k \in l .. m - 1 : e[k]
  <2>1. m \in Nat /\ l \in Nat /\ l <= m /\ t[g + m + 1] # t[j + m + 1]
    BY DEF Match
  <2>2. \A k \in l .. m - 1 : k \in Nat /\ t[g + k + 1] = t[j + k + 1]
    BY DEF Match, Agree
  <2> QED
    BY <2>1, <2>2
<1> HIDE DEF e
<1>3. (\E L : Loop(L)) /\ \A L : Loop(L) => L[l] = m
  <2> HIDE DEF Loop
  <2> QED
    BY <1>1, <1>2, SearchUp
<1> HIDE DEF Loop
<1>4. (CHOOSE L : Loop(L))[l] = m
  BY <1>3, Zenon
<1> QED
  BY <1>4, Zenon DEF Loop

\* The arrays of the index of a text.
Indexed(t, suf, rank, fit) ==
  /\ Ended(t) /\ Ordered(t, suf, rank)
  /\ DOMAIN fit = Positions(t)
  /\ \A p \in 0 .. Len(t) - 2 : Match(t, p, Phi(suf, rank, p), fit[p])

\* PLCPFromPhi finds the whole match of every suffix with its predecessor,
\* although the search starts at the length of the one before less one
\* (PLCPFromPhi.hpp:38-44), for every text.
THEOREM PLCPIs ==
  ASSUME NEW t, Ended(t), NEW suf, NEW rank, Ordered(t, suf, rank)
  PROVE  Indexed(t, suf, rank, PLCPFromPhi(t, PhiFromSA(suf)))
<1> DEFINE m == Len(t)
           phi == PhiFromSA(suf)
           fit == PLCPFromPhi(t, phi)
           Extend(g, l) ==
             (CHOOSE E : E = [k \in Nat |-> IF t[g + k + 1] = t[phi[g] + k + 1] THEN E[k + 1] ELSE k])[l]
           Step(g, q) == Append(q, Extend(g, IF g = 0 \/ q[g] = 0 THEN 0 ELSE q[g] - 1))
           Loop(P, b) == P = [g \in -1 .. b |-> IF g = -1 THEN <<>> ELSE Step(g, P[g - 1])]
           Found(q, k) == q \in Seq(Nat) /\ Len(q) = k /\ \A j \in 1 .. k : Match(t, j - 1, phi[j - 1], q[j])
<1>1. m \in Nat /\ m > 0
  BY DEF Ended
<1>2. \A p \in 0 .. m - 2 : phi[p] = Phi(suf, rank, p)
  BY PhiIs
<1>3. \A p \in 0 .. m - 2 : \E l : Match(t, p, phi[p], l)
  <2> SUFFICES ASSUME NEW p \in 0 .. m - 2 PROVE \E l : Match(t, p, phi[p], l)
    OBVIOUS
  <2>1. p \in Positions(t) /\ Phi(suf, rank, p) \in Positions(t) /\ Phi(suf, rank, p) # p
    BY Predecessor
  <2> QED
    BY <1>2, <2>1, MatchExists
<1>4. ASSUME NEW p \in 0 .. m - 2, NEW q, Found(q, p) PROVE Found(Step(p, q), p + 1)
  <2> DEFINE l == IF p = 0 \/ q[p] = 0 THEN 0 ELSE q[p] - 1
  <2>1. PICK x : Match(t, p, phi[p], x)
    BY <1>3
  <2>2. l \in 0 .. x
    <3>0. x \in Nat
      BY <2>1 DEF Match
    <3>1. CASE p = 0 \/ q[p] = 0
      BY <3>0, <3>1
    <3>2. CASE ~ (p = 0 \/ q[p] = 0)
      <4>1. p \in 1 .. p /\ p - 1 \in 0 .. m - 3 /\ p - 1 + 1 = p /\ p - 1 \in 0 .. m - 2
        BY <1>1, <3>2
      <4>2. Match(t, p - 1, phi[p - 1], q[p])
        BY <1>4, <4>1
      <4>3. Match(t, p - 1, Phi(suf, rank, p - 1), q[p])
        BY <1>2, <4>1, <4>2
      <4>4. Match(t, p, Phi(suf, rank, p), x)
        BY <1>2, <2>1
      <4>5. q[p] - 1 <= x
        BY <4>1, <4>3, <4>4, MatchesShrinkByOne
      <4>6. q[p] \in Nat
        BY <4>2 DEF Match
      <4> QED
        BY <3>0, <3>2, <4>5, <4>6
    <3> QED
      BY <3>1, <3>2
  <2>3. Extend(p, l) = x
    BY <2>1, <2>2, SearchFrom, SMTT(30)
  <2>4. Step(p, q) = Append(q, x)
    BY <2>3
  <2>5. x \in Nat /\ q \in Seq(Nat) /\ Len(q) = p /\ p \in Nat
    BY <1>4, <2>1 DEF Match
  <2>6. Append(q, x) \in Seq(Nat) /\ Len(Append(q, x)) = p + 1 /\ p + 1 - 1 = p
    BY <2>5
  <2>7. ASSUME NEW j \in 1 .. p + 1 PROVE Match(t, j - 1, phi[j - 1], Append(q, x)[j])
    <3>1. CASE j = p + 1
      <4>1. Append(q, x)[j] = x /\ j - 1 = p
        BY <2>5, <3>1
      <4> QED
        BY <2>1, <4>1
    <3>2. CASE j # p + 1
      <4>1. j \in 1 .. p
        BY <2>5, <3>2
      <4>2. Append(q, x)[j] = q[j]
        BY <2>5, <4>1
      <4> QED
        BY <1>4, <4>1, <4>2
    <3> QED
      BY <3>1, <3>2
  <2> HIDE DEF Step
  <2> QED
    BY <2>4, <2>6, <2>7
<1> HIDE DEF Step, Found
<1>5. \E P : Loop(P, m - 2)
  <2> DEFINE Good == {b \in Nat : \E P : Loop(P, b - 1)}
  <2>1. 0 \in Good
    <3>1. Loop([g \in -1 .. 0 - 1 |-> <<>>], 0 - 1)
      OBVIOUS
    <3> QED
      BY <3>1
  <2>2. ASSUME NEW b \in Nat, b \in Good PROVE b + 1 \in Good
    <3>1. PICK P : Loop(P, b - 1)
      BY <2>2
    <3> DEFINE Q == [g \in -1 .. b |-> IF g = b THEN Step(b, P[b - 1]) ELSE P[g]]
    <3>2. Loop(Q, b)
      <4>1. ASSUME NEW g \in -1 .. b PROVE Q[g] = IF g = -1 THEN <<>> ELSE Step(g, Q[g - 1])
        <5>1. CASE g = b
          BY <5>1
        <5>2. CASE g # b
          <6>1. g \in -1 .. b - 1 /\ Q[g] = P[g]
            BY <5>2
          <6>2. P[g] = IF g = -1 THEN <<>> ELSE Step(g, P[g - 1])
            BY <3>1, <6>1
          <6>3. g # -1 => Q[g - 1] = P[g - 1]
            BY <6>1
          <6> QED
            BY <6>1, <6>2, <6>3
        <5> QED
          BY <5>1, <5>2
      <4> QED
        BY <4>1
    <3>3. b + 1 - 1 = b
      OBVIOUS
    <3> HIDE DEF Q, Loop
    <3> QED
      BY <3>2, <3>3
  <2> HIDE DEF Good, Loop
  <2>3. m - 1 \in Nat /\ m - 1 - 1 = m - 2
    BY <1>1
  <2>4. m - 1 \in Good
    BY <2>1, <2>2, <2>3, AllNumbers
  <2> QED
    BY <2>3, <2>4 DEF Good
<1>6. \A P : Loop(P, m - 2) => Found(P[m - 2], m - 1)
  <2> SUFFICES ASSUME NEW P, Loop(P, m - 2) PROVE Found(P[m - 2], m - 1)
    OBVIOUS
  <2> DEFINE Good == {b \in Nat : b <= m - 1 => Found(P[b - 1], b)}
  <2>0. \A g \in -1 .. m - 2 : P[g] = IF g = -1 THEN <<>> ELSE Step(g, P[g - 1])
    OBVIOUS
  <2> HIDE DEF Loop
  <2>1. 0 \in Good
    <3>1. P[0 - 1] = <<>>
      BY <1>1, <2>0
    <3>2. Found(<<>>, 0)
      BY DEF Found
    <3> QED
      BY <3>1, <3>2
  <2>2. ASSUME NEW b \in Nat, b \in Good PROVE b + 1 \in Good
    <3> SUFFICES ASSUME b + 1 <= m - 1 PROVE Found(P[b + 1 - 1], b + 1)
      OBVIOUS
    <3>1. b \in 0 .. m - 2 /\ b + 1 - 1 = b /\ b <= m - 1 /\ b \in -1 .. m - 2 /\ b # -1
      BY <1>1
    <3>2. Found(P[b - 1], b)
      BY <2>2, <3>1
    <3>3. P[b] = Step(b, P[b - 1])
      BY <2>0, <3>1
    <3>4. Found(Step(b, P[b - 1]), b + 1)
      BY <1>4, <3>1, <3>2
    <3> QED
      BY <3>1, <3>3, <3>4
  <2> HIDE DEF Good
  <2>3. m - 1 \in Nat /\ m - 1 - 1 = m - 2 /\ m - 1 <= m - 1
    BY <1>1
  <2>4. m - 1 \in Good
    BY <2>1, <2>2, <2>3, AllNumbers
  <2> QED
    BY <2>3, <2>4 DEF Good
<1> DEFINE P0 == CHOOSE P : Loop(P, m - 2)
           max == CHOOSE x \in {0} \cup ToSet(P0[m - 2]) : \A l \in ToSet(P0[m - 2]) : l <= x
<1>7. fit = [g \in DOMAIN phi |-> IF g = m - 1 THEN phi[m - 1] % 2 ^ BitsFor(max) ELSE P0[m - 2][g + 1]]
  BY Zenon DEF PLCPFromPhi, Step
<1>8. Found(P0[m - 2], m - 1)
  <2> HIDE DEF Loop
  <2>1. Loop(P0, m - 2)
    BY <1>5, Zenon
  <2> HIDE DEF P0
  <2> QED
    BY <1>6, <2>1
<1> HIDE DEF P0, max, fit, Loop, phi
<1>9. DOMAIN fit = Positions(t)
  BY <1>7, PhiIs DEF phi
<1>10. ASSUME NEW p \in 0 .. m - 2 PROVE Match(t, p, Phi(suf, rank, p), fit[p])
  <2>1. p \in DOMAIN fit /\ p # m - 1 /\ p + 1 \in 1 .. m - 1 /\ p + 1 - 1 = p
    BY <1>1, <1>9 DEF Positions
  <2>2. fit[p] = P0[m - 2][p + 1]
    BY <1>7, <2>1
  <2>3. Match(t, p, phi[p], P0[m - 2][p + 1])
    <3>1. \A j \in 1 .. m - 1 : Match(t, j - 1, phi[j - 1], P0[m - 2][j])
      BY <1>8 DEF Found
    <3>2. p + 1 \in 1 .. m - 1 /\ (p + 1) - 1 = p
      BY <2>1
    <3>3. Match(t, (p + 1) - 1, phi[(p + 1) - 1], P0[m - 2][p + 1])
      BY <3>1, <3>2, Zenon
    <3> QED
      BY <3>2, <3>3, Zenon
  <2> QED
    BY <1>2, <2>2, <2>3
<1> QED
  BY <1>9, <1>10 DEF Indexed, fit, phi

-----------------------------------------------------------------------------
(* Factors *)

FactorRec == [pos : Nat, src : Nat, len : Nat]

\* f repeats its source, which comes before it in the order o, and leaves the
\* final 0 alone.
SoundRef(t, o, least, f) ==
  /\ f \in FactorRec /\ f.len >= least
  /\ f.pos + f.len < Len(t) /\ f.src + f.len < Len(t)
  /\ Agree(t, f.src, f.pos, f.len)
  /\ o[f.src] < o[f.pos]

SoundRefs(t, o, least, fs) ==
  /\ fs \in Seq(FactorRec)
  /\ \A k \in 1 .. Len(fs) : SoundRef(t, o, least, fs[k])

\* Where a factor is, its source aside.
SamePlaces(fs, gs) ==
  /\ Len(gs) = Len(fs)
  /\ \A k \in 1 .. Len(fs) : gs[k].pos = fs[k].pos /\ gs[k].len = fs[k].len

Apart(fs) == \A k, h \in 1 .. Len(fs) : k # h => Span(fs[k]) \cap Span(fs[h]) = {}

LEMMA SamePlacesApart ==
  ASSUME NEW fs, NEW gs, SamePlaces(fs, gs), Apart(fs) PROVE Apart(gs)
BY DEF SamePlaces, Apart, Span

\* Sorting only changes the order.
LEMMA SortedIs ==
  ASSUME NEW fs, fs \in Seq(FactorRec)
  PROVE  /\ Sorted(fs) \in Seq(FactorRec) /\ Len(Sorted(fs)) = Len(fs)
         /\ \A k \in 1 .. Len(fs) : \E h \in 1 .. Len(fs) : Sorted(fs)[k] = fs[h]
         /\ Apart(fs) => Apart(Sorted(fs))
<1> DEFINE S == 1 .. Len(fs)
           Comes(j, h) == fs[j].pos < fs[h].pos \/ (fs[j].pos = fs[h].pos /\ j < h)
           R == {p \in S \X S : Comes(p[1], p[2])}
           c(h) == Cardinality(Before(S, R, h))
           B(h) == {j \in DOMAIN fs : Comes(j, h)}
           ranked == {<<Cardinality(B(h)) + 1, h>> : h \in DOMAIN fs}
           from(k) == CHOOSE h \in DOMAIN fs : <<k, h>> \in ranked
<1>1. DOMAIN fs = S /\ Len(fs) \in Nat /\ IsFiniteSet(S) /\ Cardinality(S) = Len(fs)
  <2>1. DOMAIN fs = S /\ Len(fs) \in Nat
    BY Zenon, LenProperties
  <2>2. 1 \in Int /\ Len(fs) \in Int
    BY <2>1
  <2>3. IsFiniteSet(S) /\ Cardinality(S) = IF 1 > Len(fs) THEN 0 ELSE Len(fs) - 1 + 1
    BY <2>2, FS_Interval, Zenon
  <2> QED
    BY <2>1, <2>3
<1>2. \A h \in S : fs[h].pos \in Nat
  <2> SUFFICES ASSUME NEW h \in S PROVE fs[h].pos \in Nat
    OBVIOUS
  <2>1. fs[h] \in FactorRec
    BY <1>1
  <2> QED
    BY <2>1 DEF FactorRec
<1>10. Sorted(fs) = [k \in DOMAIN fs |-> fs[from(k)]]
  BY Zenon DEF Sorted
<1>3. \A x, y \in S : <<x, y>> \in R <=> Comes(x, y)
  OBVIOUS
<1>4. Total(S, R)
  <2>0. S \subseteq Nat
    OBVIOUS
  <2> HIDE DEF S, R
  <2>1. ASSUME NEW x \in S, NEW y \in S, x # y PROVE <<x, y>> \in R <=> <<y, x>> \notin R
    <3>1. fs[x].pos \in Nat /\ fs[y].pos \in Nat /\ x \in Nat /\ y \in Nat
      BY <1>2, <2>0
    <3>2. Comes(x, y) <=> ~ Comes(y, x)
      BY <2>1, <3>1
    <3> QED
      BY <1>3, <3>2
  <2>2. ASSUME NEW x \in S PROVE <<x, x>> \notin R
    <3>1. fs[x].pos \in Nat /\ x \in Nat
      BY <1>2, <2>0
    <3>2. ~ Comes(x, x)
      BY <3>1
    <3> QED
      BY <1>3, <3>2
  <2>3. ASSUME NEW x \in S, NEW y \in S, NEW z \in S, <<x, y>> \in R, <<y, z>> \in R
        PROVE  <<x, z>> \in R
    <3>1. /\ fs[x].pos \in Nat /\ fs[y].pos \in Nat /\ fs[z].pos \in Nat
          /\ x \in Nat /\ y \in Nat /\ z \in Nat
      BY <1>2, <2>0
    <3>2. Comes(x, y) /\ Comes(y, z)
      BY <1>3, <2>3
    <3>3. Comes(x, z)
      BY <3>1, <3>2
    <3> QED
      BY <1>3, <3>3
  <2> QED
    BY <1>1, <2>1, <2>2, <2>3 DEF Total
<1>5. \A h \in S : B(h) = Before(S, R, h)
  BY <1>1, <1>3 DEF Before
<1>6. /\ \A x, y \in S : c(x) = c(y) => x = y
      /\ \A k \in 0 .. Len(fs) - 1 : \E x \in S : c(x) = k
      /\ \A x \in S : c(x) \in Nat
  <2> HIDE DEF S, R
  <2>1. /\ \A x, y \in S : c(x) = c(y) => x = y
        /\ \A k \in 0 .. Cardinality(S) - 1 : \E x \in S : c(x) = k
    BY <1>4, Numbered
  <2>2. \A x \in S : c(x) \in 0 .. Cardinality(S) - 1 /\ Cardinality(S) \in Nat
    BY <1>4, BeforeFinite
  <2> HIDE DEF c
  <2>3. \A x \in S : c(x) \in Nat
    BY <2>2
  <2> QED
    BY <1>1, <2>1, <2>3
<1>7. \A h \in S : Cardinality(B(h)) = c(h)
  BY <1>5
<1> HIDE DEF R, B, c
<1>8. \A k, h : <<k, h>> \in ranked <=> h \in S /\ k = c(h) + 1
  BY <1>1, <1>7
<1>9. \A k \in S : from(k) \in S /\ k = c(from(k)) + 1
  <2> SUFFICES ASSUME NEW k \in S PROVE from(k) \in S /\ k = c(from(k)) + 1
    OBVIOUS
  <2>1. k - 1 \in 0 .. Len(fs) - 1
    BY <1>1
  <2>2. PICK x \in S : c(x) = k - 1
    BY <1>6, <2>1
  <2>3. k = c(x) + 1
    BY <1>1, <2>2
  <2>4. \E h \in DOMAIN fs : <<k, h>> \in ranked
    BY <1>1, <1>8, <2>3
  <2> HIDE DEF ranked, S
  <2>5. from(k) \in DOMAIN fs /\ <<k, from(k)>> \in ranked
    BY <2>4
  <2> HIDE DEF from
  <2> QED
    BY <1>1, <1>8, <2>5
<1> HIDE DEF from, ranked
<1>11. \A k, h \in S : k # h => from(k) # from(h)
  BY <1>9
<1>12. \A k \in S : Sorted(fs)[k] = fs[from(k)] /\ fs[from(k)] \in FactorRec
  BY <1>1, <1>9, <1>10
<1>13. Sorted(fs) \in Seq(FactorRec) /\ Len(Sorted(fs)) = Len(fs)
  BY <1>1, <1>10, <1>12
<1>14. ASSUME Apart(fs) PROVE Apart(Sorted(fs))
  BY <1>9, <1>11, <1>12, <1>13, <1>14, ZenonT(40) DEF Apart
<1> QED
  BY <1>9, <1>12, <1>13, <1>14

\* A loop that hops from number to number as long as `hop` says so, each time to
\* one of less weight.
Descends(hop, to, w) ==
  /\ hop \in [Nat -> BOOLEAN] /\ to \in [Nat -> Nat] /\ w \in [Nat -> Nat]
  /\ \A x \in Nat : hop[x] => w[to[x]] < w[x]
Hopping(hop, to, R) == R = [x \in Nat |-> IF hop[x] THEN R[to[x]] ELSE x]

\* A relation to the first number that hops in D keep.
Kept(hop, to, D, Q) ==
  /\ D \subseteq Nat
  /\ \A x \in D : <<x, x>> \in Q
  /\ \A x \in D : hop[x] => to[x] \in D /\ \A z : <<z, to[x]>> \in Q => <<z, x>> \in Q

LEMMA DescentEnds ==
  ASSUME NEW hop, NEW to, NEW w, Descends(hop, to, w)
  PROVE  \E R : Hopping(hop, to, R)
<1> USE DEF Descends, Hopping
<1> DEFINE Good == {m \in Nat : \E R : /\ DOMAIN R = Nat
                                       /\ \A x \in Nat : w[x] < m => R[x] = IF hop[x] THEN R[to[x]] ELSE x}
           Part(R, m) == /\ DOMAIN R = Nat
                         /\ \A x \in Nat : w[x] < m => R[x] = IF hop[x] THEN R[to[x]] ELSE x
           \* The numbers below m are fixed by any two solutions up to m alike.
           Same == {m \in Nat : \A R, U : Part(R, m) /\ Part(U, m)
                      => \A x \in Nat : w[x] < m => R[x] = U[x]}
<1>0. \A x \in Nat : w[x] \in Nat /\ to[x] \in Nat
  OBVIOUS
<1>1. 0 \in Good
  <2>1. Part([x \in Nat |-> x], 0)
    BY <1>0
  <2> QED
    BY <2>1
<1>2. ASSUME NEW m \in Nat, m \in Good PROVE m + 1 \in Good
  <2>1. PICK R : Part(R, m)
    BY <1>2
  <2> DEFINE U == [x \in Nat |-> IF w[x] = m THEN IF hop[x] THEN R[to[x]] ELSE x ELSE R[x]]
  <2>2. ASSUME NEW x \in Nat, w[x] < m + 1 PROVE U[x] = IF hop[x] THEN U[to[x]] ELSE x
    <3>1. w[x] \in Nat /\ to[x] \in Nat /\ w[to[x]] \in Nat
      BY <1>0
    <3>2. hop[x] => w[to[x]] < w[x]
      OBVIOUS
    <3>3. hop[x] => U[to[x]] = R[to[x]]
      BY <2>2, <3>1, <3>2
    <3>4. CASE w[x] = m
      BY <3>3, <3>4
    <3>5. CASE w[x] # m
      <4>1. U[x] = R[x] /\ w[x] < m
        BY <2>2, <3>1, <3>5
      <4> HIDE DEF U
      <4> QED
        BY <2>1, <3>3, <4>1
    <3> QED
      BY <3>4, <3>5
  <2>3. Part(U, m + 1)
    BY <2>2
  <2> HIDE DEF U
  <2> QED
    BY <2>3
<1>3. Good = Nat
  <2> HIDE DEF Good
  <2>1. Nat \subseteq Good
    BY <1>1, <1>2, AllNumbers
  <2> QED
    BY <2>1 DEF Good
<1>4. \A m \in Nat : \E R : Part(R, m)
  BY <1>3
<1> HIDE DEF Good
<1>5. Same = Nat
  <2>1. 0 \in Same
    BY <1>0
  <2>2. ASSUME NEW m \in Nat, m \in Same PROVE m + 1 \in Same
    <3> SUFFICES ASSUME NEW R, NEW U, Part(R, m + 1), Part(U, m + 1), NEW x \in Nat, w[x] < m + 1
                 PROVE  R[x] = U[x]
      OBVIOUS
    <3>1. \A y \in Nat : w[y] < m => w[y] < m + 1
      BY <1>0
    <3>2. Part(R, m) /\ Part(U, m)
      BY <3>1
    <3>3. \A y \in Nat : w[y] < m => R[y] = U[y]
      BY <2>2, <3>2
    <3>4. hop[x] => w[to[x]] < m /\ to[x] \in Nat
      BY <1>0
    <3>5. hop[x] => R[to[x]] = U[to[x]]
      BY <3>3, <3>4
    <3> QED
      BY <3>5
  <2> HIDE DEF Same
  <2>3. Nat \subseteq Same
    BY <2>1, <2>2, AllNumbers
  <2> QED
    BY <2>3 DEF Same
<1> QED
  <2> DEFINE S(m) == CHOOSE R : Part(R, m)
             R0 == [x \in Nat |-> S(w[x] + 1)[x]]
  <2>1. \A m \in Nat : Part(S(m), m)
    BY <1>4
  <2> HIDE DEF S, Part
  <2>2. ASSUME NEW x \in Nat PROVE R0[x] = IF hop[x] THEN R0[to[x]] ELSE x
    <3>1. w[x] \in Nat /\ to[x] \in Nat /\ w[to[x]] \in Nat
      BY <1>0
    <3> DEFINE A == S(w[x] + 1)
               B == S(w[to[x]] + 1)
    <3>2. Part(A, w[x] + 1) /\ Part(B, w[to[x]] + 1)
      BY <2>1, <3>1
    <3>3. R0[x] = A[x] /\ R0[to[x]] = B[to[x]]
      BY <3>1
    <3> HIDE DEF A, B, R0
    <3>4. A[x] = IF hop[x] THEN A[to[x]] ELSE x
      BY <3>1, <3>2 DEF Part
    <3>5. ASSUME hop[x] PROVE A[to[x]] = B[to[x]]
      <4>1. w[to[x]] < w[x]
        BY <3>5
      <4>2. Part(A, w[to[x]] + 1)
        <5>1. \A y \in Nat : w[y] < w[to[x]] + 1 => w[y] < w[x] + 1
          BY <1>0, <3>1, <4>1
        <5> QED
          BY <3>2, <5>1 DEF Part
      <4>3. w[to[x]] + 1 \in Same
        <5> HIDE DEF Same
        <5> QED
          BY <1>5, <3>1
      <4>4. w[to[x]] < w[to[x]] + 1
        BY <3>1
      <4> QED
        BY <3>1, <3>2, <4>2, <4>3, <4>4
    <3> QED
      BY <3>3, <3>4, <3>5
  <2>3. R0 = [x \in Nat |-> R0[x]]
    OBVIOUS
  <2> HIDE DEF R0
  <2>4. R0 = [x \in Nat |-> IF hop[x] THEN R0[to[x]] ELSE x]
    BY <2>2, <2>3
  <2> QED
    BY <2>4

LEMMA DescentKeeps ==
  ASSUME NEW hop, NEW to, NEW w, Descends(hop, to, w), NEW R, Hopping(hop, to, R),
         NEW D, NEW Q, Kept(hop, to, D, Q)
  PROVE  \A x \in D : <<R[x], x>> \in Q
<1> USE DEF Descends, Hopping, Kept
<1> DEFINE T == {m \in Nat : \A x \in D : w[x] < m => <<R[x], x>> \in Q}
<1>0. \A x \in D : R[x] = IF hop[x] THEN R[to[x]] ELSE x
  OBVIOUS
<1>1. 0 \in T
  OBVIOUS
<1>2. ASSUME NEW m \in Nat, m \in T PROVE m + 1 \in T
  <2>1. ASSUME NEW x \in D, w[x] < m + 1 PROVE <<R[x], x>> \in Q
    <3>0. x \in Nat
      OBVIOUS
    <3>1. CASE hop[x]
      <4>1. to[x] \in D /\ to[x] \in Nat /\ w[to[x]] < w[x] /\ w[to[x]] \in Nat /\ w[x] \in Nat
        BY <3>0, <3>1
      <4>2. w[to[x]] < m
        BY <2>1, <4>1
      <4>3. <<R[to[x]], to[x]>> \in Q
        BY <1>2, <4>1, <4>2
      <4> QED
        BY <1>0, <3>1, <4>1, <4>3
    <3>2. CASE ~ hop[x]
      BY <1>0, <3>2
    <3> QED
      BY <3>1, <3>2
  <2> HIDE DEF Descends, Hopping, Kept
  <2> QED
    BY <2>1
<1> HIDE DEF T
<1>3. Nat \subseteq T
  BY <1>1, <1>2, AllNumbers
<1> SUFFICES ASSUME NEW x \in D PROVE <<R[x], x>> \in Q
  OBVIOUS
<1>4. w[x] + 1 \in T /\ w[x] < w[x] + 1
  BY <1>3
<1> QED
  BY <1>4 DEF T

LEMMA LastOfIs ==
  ASSUME NEW fs, fs \in Seq(FactorRec), NEW p, Covering(fs, p) # {}
  PROVE  LastOf(Covering(fs, p)) \in 1 .. Len(fs) /\ p \in Span(fs[LastOf(Covering(fs, p))])
<1> DEFINE C == Covering(fs, p)
<1>1. C \subseteq Nat /\ C # {} /\ Len(fs) \in Nat /\ \A x \in C : x <= Len(fs)
  BY DEF Covering
<1>2. \E x \in C : \A y \in C : y <= x
  <2> HIDE DEF C
  <2> QED
    BY <1>1, GreatestNumber
<1>3. LastOf(C) \in C
  <2> HIDE DEF C
  <2> QED
    BY <1>2 DEF LastOf
<1> QED
  BY <1>3 DEF Covering

LEMMA AgreeWithin ==
  ASSUME NEW t, Ended(t), NEW a \in Nat, NEW b \in Nat, a # b, NEW l \in Nat,
         a + l < Len(t), b + l < Len(t), Agree(t, a, b, l)
  PROVE  \E m : Match(t, a, b, m) /\ l \in 0 .. m
<1>1. a \in Positions(t) /\ b \in Positions(t) /\ Len(t) \in Nat
  BY DEF Ended, Positions
<1>2. PICK m : Match(t, a, b, m)
  BY <1>1, MatchExists
<1>3. m \in Nat /\ t[a + m + 1] # t[b + m + 1]
  BY <1>2 DEF Match
<1>4. ~ (m < l)
  <2> SUFFICES ASSUME m < l PROVE FALSE
    OBVIOUS
  <2>1. m \in 0 .. l - 1
    BY <1>3
  <2> QED
    BY <1>3, <2>1 DEF Agree
<1> QED
  BY <1>2, <1>3, <1>4

LEMMA AgreeThrough ==
  ASSUME NEW t, NEW a, NEW b, NEW c, NEW l, Agree(t, a, b, l), Agree(t, b, c, l)
  PROVE  Agree(t, a, c, l)
BY DEF Agree

\* A position inside a factor and the one its source stands for.
LEMMA SourceOf ==
  ASSUME NEW t, NEW suf, NEW rank, Ended(t), Ordered(t, suf, rank), NEW least,
         NEW s, SoundRef(t, rank, least, s), NEW p \in Span(s), NEW l \in Nat, p - s.pos + l <= s.len
  PROVE  LET q == s.src + p - s.pos
         IN  /\ p \in Positions(t) /\ q \in Positions(t) /\ rank[q] < rank[p]
             /\ q + l < Len(t) /\ p + l < Len(t) /\ Agree(t, q, p, l)
<1> DEFINE d == p - s.pos
           q == s.src + p - s.pos
<1>1. /\ s.pos \in Nat /\ s.src \in Nat /\ s.len \in Nat /\ Len(t) \in Nat
      /\ s.pos + s.len < Len(t) /\ s.src + s.len < Len(t) /\ Agree(t, s.src, s.pos, s.len)
      /\ rank[s.src] < rank[s.pos]
  BY DEF SoundRef, FactorRec, Ended
<1>2. p \in s.pos .. s.pos + s.len - 1
  BY DEF Span
<1> DEFINE a == s.src
           b == s.pos
           h == s.len
<1> HIDE DEF a, b, h
<1>3. /\ a \in Nat /\ b \in Nat /\ h \in Nat /\ Len(t) \in Nat /\ b + h < Len(t) /\ a + h < Len(t)
      /\ Agree(t, a, b, h) /\ rank[a] < rank[b] /\ p \in b .. b + h - 1 /\ p - b + l <= h
  BY <1>1, <1>2 DEF a, b, h
<1>4. p \in Nat /\ p - b \in 0 .. h /\ b + (p - b) = p /\ a + (p - b) = a + p - b
  BY <1>3
<1>5. a \in Positions(t) /\ b \in Positions(t)
  BY <1>3 DEF Positions
<1>6. rank[a] \in Nat /\ rank[b] \in Nat
  <2>1. rank[a] \in Positions(t) /\ rank[b] \in Positions(t)
    BY <1>5 DEF Ordered
  <2> QED
    BY <2>1 DEF Positions
<1>7. a # b /\ SuffixLess(t, a, b)
  <2>1. SuffixLess(t, a, b)
    BY <1>3, <1>5 DEF Ordered
  <2> QED
    BY <2>1 DEF SuffixLess
<1>8. PICK m : Match(t, a, b, m) /\ h \in 0 .. m
  BY <1>3, <1>7, AgreeWithin
<1>9. p - b \in 0 .. m /\ p - b \in Nat
  <2>1. m \in Nat
    BY <1>8 DEF Match
  <2> QED
    BY <1>3, <1>4, <1>8, <2>1
<1>10. /\ a + (p - b) \in Positions(t) /\ b + (p - b) \in Positions(t)
       /\ SuffixLess(t, a + (p - b), b + (p - b))
  BY <1>5, <1>7, <1>8, <1>9, Shifted
<1>11. a + p - b \in Positions(t) /\ p \in Positions(t) /\ rank[a + p - b] < rank[p]
  BY <1>4, <1>10 DEF Ordered
<1>12. a + p - b + l < Len(t) /\ p + l < Len(t)
  BY <1>3, <1>4
<1>13. Agree(t, a + p - b, p, l)
  <2> SUFFICES ASSUME NEW x \in 0 .. l - 1 PROVE t[a + p - b + x + 1] = t[p + x + 1]
    BY DEF Agree
  <2>1. (p - b) + x \in 0 .. h - 1
    BY <1>3, <1>4
  <2>2. a + p - b + x + 1 = a + ((p - b) + x) + 1 /\ p + x + 1 = b + ((p - b) + x) + 1
    BY <1>3, <1>4
  <2>3. t[a + ((p - b) + x) + 1] = t[b + ((p - b) + x) + 1]
    BY <1>3, <2>1, Zenon DEF Agree
  <2> QED
    BY <2>2, <2>3
<1>14. s.src + p - s.pos = a + p - b
  BY DEF a, b
<1> QED
  BY <1>11, <1>12, <1>13, <1>14

\* What flattening makes of a source: it repeats it and is not behind it.
LEMMA ResolvedIs ==
  ASSUME NEW t, NEW suf, NEW rank, Ended(t), Ordered(t, suf, rank), NEW least,
         NEW fs, SoundRefs(t, rank, least, fs), NEW f, SoundRef(t, rank, least, f)
  PROVE  SoundRef(t, rank, least, [f EXCEPT !.src = Resolved(fs, f)])
<1> DEFINE In(x) == Covering(fs, x)
           S(x) == fs[LastOf(In(x))]
           Hop(x) == In(x) # {} /\ x - S(x).pos + f.len <= S(x).len
           To(x) == S(x).src + (x - S(x).pos)
           hop == [x \in Nat |-> Hop(x)]
           to == [x \in Nat |-> IF Hop(x) THEN To(x) ELSE x]
           w == [x \in Nat |-> IF x \in Positions(t) THEN rank[x] ELSE 0]
           Loop(R) == R = [src \in Nat |->
                             LET in == Covering(fs, src)
                             IN  IF in = {} THEN src
                                 ELSE LET s == fs[LastOf(in)]
                                          d == src - s.pos
                                      IN  IF d + f.len <= s.len THEN R[s.src + d] ELSE src]
           D == {x \in Nat : x + f.len < Len(t)}
           Q == {q \in Nat \X Nat : /\ q[1] + f.len < Len(t) /\ Agree(t, q[1], q[2], f.len)
                                    /\ rank[q[1]] <= rank[q[2]]}
<1>1. /\ f \in FactorRec /\ f.pos \in Nat /\ f.src \in Nat /\ f.len \in Nat /\ Len(t) \in Nat
      /\ f.len >= least /\ f.pos + f.len < Len(t) /\ f.src + f.len < Len(t)
      /\ Agree(t, f.src, f.pos, f.len) /\ rank[f.src] < rank[f.pos]
  BY DEF SoundRef, FactorRec, Ended
<1>2. \A x \in Positions(t) : rank[x] \in Nat /\ x \in Nat
  BY DEF Ordered, Positions
<1>3. ASSUME NEW x \in Nat, Hop(x)
      PROVE  /\ x \in Positions(t) /\ To(x) \in Positions(t) /\ rank[To(x)] < rank[x]
             /\ To(x) + f.len < Len(t) /\ Agree(t, To(x), x, f.len)
  <2>1. LastOf(In(x)) \in 1 .. Len(fs) /\ x \in Span(S(x))
    BY <1>3, LastOfIs DEF SoundRefs
  <2>2. SoundRef(t, rank, least, S(x)) /\ S(x) \in FactorRec
    BY <2>1 DEF SoundRefs, SoundRef
  <2>3. To(x) = S(x).src + x - S(x).pos
    <3>1. S(x).pos \in Nat /\ S(x).src \in Nat
      BY <2>2 DEF FactorRec
    <3> HIDE DEF S
    <3> QED
      BY <3>1
  <2>4. x - S(x).pos + f.len <= S(x).len
    BY <1>3
  <2> HIDE DEF S, To, Hop
  <2> QED
    BY <1>1, <2>1, <2>2, <2>3, <2>4, SourceOf
<1>4. \A x \in Nat : hop[x] = Hop(x) /\ to[x] = (IF Hop(x) THEN To(x) ELSE x)
  OBVIOUS
<1>5. \A R : Loop(R) <=> R = [x \in Nat |-> IF hop[x] THEN R[to[x]] ELSE x]
  <2> SUFFICES ASSUME NEW R PROVE Loop(R) <=> R = [x \in Nat |-> IF hop[x] THEN R[to[x]] ELSE x]
    OBVIOUS
  <2>1. \A x \in Nat : (IF hop[x] THEN R[to[x]] ELSE x)
                       = LET in == Covering(fs, x)
                             IN  IF in = {} THEN x
                                 ELSE LET s == fs[LastOf(in)]
                                          d == x - s.pos
                                      IN  IF d + f.len <= s.len THEN R[s.src + d] ELSE x
    BY Zenon
  <2> HIDE DEF hop, to
  <2> QED
    BY <2>1
<1>6. hop \in [Nat -> BOOLEAN] /\ to \in [Nat -> Nat] /\ w \in [Nat -> Nat]
  <2>1. \A x \in Nat : Hop(x) \in BOOLEAN
    OBVIOUS
  <2>2. \A x \in Nat : Hop(x) => To(x) \in Nat
    BY <1>2, <1>3
  <2> HIDE DEF Hop, To
  <2> QED
    BY <1>2, <2>1, <2>2
<1> HIDE DEF Hop, To, hop, to, Loop
<1>7. \A x \in Nat : hop[x] => w[to[x]] < w[x]
  BY <1>2, <1>3, <1>4
<1>8. D \subseteq Nat /\ \A x \in D : <<x, x>> \in Q
  <2> SUFFICES ASSUME NEW x \in D PROVE <<x, x>> \in Q
    OBVIOUS
  <2>1. x \in Positions(t)
    BY <1>1 DEF Positions
  <2>2. Agree(t, x, x, f.len)
    BY DEF Agree
  <2>3. rank[x] <= rank[x]
    BY <1>2, <2>1
  <2> QED
    BY <2>2, <2>3
<1>9. \A x \in D : hop[x] => to[x] \in D /\ \A z : <<z, to[x]>> \in Q => <<z, x>> \in Q
  <2> SUFFICES ASSUME NEW x \in D, hop[x]
               PROVE  to[x] \in D /\ \A z : <<z, to[x]>> \in Q => <<z, x>> \in Q
    OBVIOUS
  <2>1. /\ x \in Positions(t) /\ to[x] \in Positions(t) /\ rank[to[x]] < rank[x]
        /\ to[x] + f.len < Len(t) /\ Agree(t, to[x], x, f.len) /\ x \in Nat
    BY <1>3, <1>4
  <2>2. to[x] \in D
    BY <1>2, <2>1
  <2>3. ASSUME NEW z, <<z, to[x]>> \in Q PROVE <<z, x>> \in Q
    <3>1. /\ z \in Nat /\ z + f.len < Len(t) /\ Agree(t, z, to[x], f.len)
          /\ rank[z] <= rank[to[x]]
      BY <2>3
    <3>2. Agree(t, z, x, f.len)
      BY <2>1, <3>1, AgreeThrough
    <3>3. z \in Positions(t)
      BY <1>1, <3>1 DEF Positions
    <3>4. rank[z] \in Nat /\ rank[to[x]] \in Nat /\ rank[x] \in Nat
      BY <1>2, <2>1, <3>3
    <3>5. rank[z] <= rank[x]
      BY <2>1, <3>1, <3>4
    <3> QED
      BY <2>1, <3>1, <3>2, <3>5
  <2> QED
    BY <2>2, <2>3
<1>10. Resolved(fs, f) = (CHOOSE R : Loop(R))[f.src]
  BY Zenon DEF Resolved, Loop
<1>11. (\E R : Loop(R)) /\ \A R : Loop(R) => \A x \in D : <<R[x], x>> \in Q
  <2>1. \A R : Loop(R) <=> Hopping(hop, to, R)
    BY <1>5 DEF Hopping
  <2>2. Descends(hop, to, w) /\ Kept(hop, to, D, Q)
    <3> HIDE DEF D, Q, w
    <3> QED
      BY <1>6, <1>7, <1>8, <1>9 DEF Descends, Kept
  <2> HIDE DEF D, Q, w
  <2> QED
    BY <2>1, <2>2, DescentEnds, DescentKeeps
<1>12. f.src \in D
  BY <1>1
<1> HIDE DEF D, Q
<1>13. <<Resolved(fs, f), f.src>> \in Q
  <2>1. Loop(CHOOSE R : Loop(R))
    BY <1>11, Zenon
  <2> QED
    BY <1>10, <1>11, <1>12, <2>1
<1> DEFINE x == Resolved(fs, f)
<1> HIDE DEF x
<1>14. /\ x \in Nat /\ x + f.len < Len(t) /\ Agree(t, x, f.src, f.len) /\ rank[x] <= rank[f.src]
  BY <1>13 DEF Q, x
<1>15. Agree(t, x, f.pos, f.len)
  BY <1>1, <1>14, AgreeThrough
<1>16. rank[x] < rank[f.pos]
  <2>1. x \in Positions(t) /\ f.src \in Positions(t) /\ f.pos \in Positions(t)
    BY <1>1, <1>14 DEF Positions
  <2>2. rank[x] \in Nat /\ rank[f.src] \in Nat /\ rank[f.pos] \in Nat
    BY <1>2, <2>1
  <2> QED
    BY <1>1, <1>14, <2>2
<1> DEFINE g == [f EXCEPT !.src = x]
<1>17. g \in FactorRec /\ g.pos = f.pos /\ g.src = x /\ g.len = f.len
  BY <1>1, <1>14 DEF FactorRec
<1> HIDE DEF g
<1>18. SoundRef(t, rank, least, g)
  BY <1>1, <1>14, <1>15, <1>16, <1>17 DEF SoundRef
<1> QED
  BY <1>18 DEF g, x

-----------------------------------------------------------------------------
(* Loops: what a loop of m rounds leaves behind each round.                *)

Rounds(m, a, G, F) == F = [k \in 0 .. m |-> IF k = 0 THEN a ELSE G[k][F[k - 1]]]

LEMMA LoopRuns ==
  ASSUME NEW m \in Nat, NEW a, NEW G PROVE \E F : Rounds(m, a, G, F)
<1> DEFINE Loop(F, b) == F = [k \in 0 .. b |-> IF k = 0 THEN a ELSE G[k][F[k - 1]]]
           Good == {b \in Nat : \E F : Loop(F, b)}
<1>1. 0 \in Good
  <2>1. Loop([k \in 0 .. 0 |-> a], 0)
    OBVIOUS
  <2> QED
    BY <2>1
<1>2. ASSUME NEW b \in Nat, b \in Good PROVE b + 1 \in Good
  <2>1. PICK P : Loop(P, b)
    BY <1>2
  <2> DEFINE Q == [k \in 0 .. b + 1 |-> IF k = b + 1 THEN G[b + 1][P[b]] ELSE P[k]]
  <2>2. ASSUME NEW k \in 0 .. b + 1 PROVE Q[k] = IF k = 0 THEN a ELSE G[k][Q[k - 1]]
    <3>1. CASE k = b + 1
      <4>1. k # 0 /\ k - 1 = b /\ b \in 0 .. b + 1 /\ b # b + 1
        BY <3>1
      <4>2. Q[b] = P[b] /\ Q[k] = G[b + 1][P[b]]
        BY <3>1, <4>1
      <4> HIDE DEF Q
      <4> QED
        BY <3>1, <4>1, <4>2
    <3>2. CASE k # b + 1
      <4>1. k \in 0 .. b /\ Q[k] = P[k]
        BY <3>2
      <4>2. P[k] = IF k = 0 THEN a ELSE G[k][P[k - 1]]
        BY <2>1, <4>1
      <4>3. k # 0 => Q[k - 1] = P[k - 1]
        BY <4>1
      <4> HIDE DEF Q
      <4> QED
        BY <4>1, <4>2, <4>3
    <3> QED
      BY <3>1, <3>2
  <2>3. Loop(Q, b + 1)
    BY <2>2
  <2> HIDE DEF Q, Loop
  <2> QED
    BY <2>3
<1> HIDE DEF Good
<1>3. m \in Good
  BY <1>1, <1>2, AllNumbers
<1> QED
  BY <1>3 DEF Good, Rounds

LEMMA LoopKeeps ==
  ASSUME NEW m \in Nat, NEW F, NEW W, F[0] \in W[0],
         \A k \in 1 .. m : F[k - 1] \in W[k - 1] => F[k] \in W[k]
  PROVE  \A k \in 0 .. m : F[k] \in W[k]
<1> DEFINE Good == {k \in Nat : k <= m => F[k] \in W[k]}
<1>1. 0 \in Good
  OBVIOUS
<1>2. ASSUME NEW b \in Nat, b \in Good PROVE b + 1 \in Good
  <2> SUFFICES ASSUME b + 1 <= m PROVE F[b + 1] \in W[b + 1]
    OBVIOUS
  <2>1. b + 1 \in 1 .. m /\ b + 1 - 1 = b /\ b <= m
    OBVIOUS
  <2>2. F[b] \in W[b]
    BY <1>2, <2>1
  <2> QED
    BY <2>1, <2>2
<1> HIDE DEF Good
<1>3. Nat \subseteq Good
  BY <1>1, <1>2, AllNumbers
<1> QED
  BY <1>3 DEF Good

-----------------------------------------------------------------------------
\* Flattening replaces a source by the source of its source and nothing else: the
\* factors stay where they are, still repeat the text, and still refer to smaller
\* suffixes, so that no chain of references closes (LZSSFactors.hpp:79-132).
THEOREM FlattenedIs ==
  ASSUME NEW t, NEW suf, NEW rank, Ended(t), Ordered(t, suf, rank), NEW least,
         NEW fs, SoundRefs(t, rank, least, fs)
  PROVE  SoundRefs(t, rank, least, Flattened(fs)) /\ SamePlaces(fs, Flattened(fs))
<1> DEFINE m == Len(fs)
           U == Seq(FactorRec)
           V == {gs \in U : SoundRefs(t, rank, least, gs) /\ SamePlaces(fs, gs)}
           Step(k, gs) == [gs EXCEPT ![k].src = Resolved(gs, gs[k])]
           G == [k \in 1 .. m |-> [gs \in U |-> Step(k, gs)]]
           W == [k \in 0 .. m |-> V]
           Loop(F) == F = [k \in 0 .. m |-> IF k = 0 THEN fs ELSE Step(k, F[k - 1])]
<1>0. m \in Nat /\ fs \in U /\ fs \in V
  BY DEF SoundRefs, SamePlaces
<1>1. ASSUME NEW k \in 1 .. m, NEW gs \in V PROVE Step(k, gs) \in V
  <2>1. gs \in Seq(FactorRec) /\ Len(gs) = m /\ SoundRef(t, rank, least, gs[k]) /\ gs[k] \in FactorRec
    BY DEF SoundRefs, SamePlaces, SoundRef
  <2> DEFINE g == [gs[k] EXCEPT !.src = Resolved(gs, gs[k])]
  <2>2. SoundRef(t, rank, least, g)
    BY <2>1, ResolvedIs
  <2>3. g \in FactorRec /\ g.pos = gs[k].pos /\ g.len = gs[k].len
    <3>1. g \in FactorRec
      BY <2>2 DEF SoundRef
    <3> QED
      BY <2>1, <3>1 DEF FactorRec
  <2>4. Step(k, gs) = [gs EXCEPT ![k] = g]
    BY <2>1 DEF FactorRec
  <2> HIDE DEF g, Step
  <2> DEFINE hs == [gs EXCEPT ![k] = g]
  <2>5. hs \in Seq(FactorRec) /\ Len(hs) = m /\ \A h \in 1 .. m : hs[h] = IF h = k THEN g ELSE gs[h]
    BY <2>1, <2>3
  <2> HIDE DEF hs
  <2>6. SoundRefs(t, rank, least, hs)
    BY <2>1, <2>2, <2>5 DEF SoundRefs
  <2>7. SamePlaces(fs, hs)
    <3>1. \A h \in 1 .. m : gs[h].pos = fs[h].pos /\ gs[h].len = fs[h].len
      BY DEF SamePlaces
    <3> QED
      BY <2>3, <2>5, <3>1 DEF SamePlaces
  <2> QED
    BY <2>4, <2>5, <2>6, <2>7 DEF hs
<1> HIDE DEF Step
<1>2. \A k \in 0 .. m : W[k] = V
  OBVIOUS
<1>3. \A F : Loop(F) => F[m] \in V
  <2> SUFFICES ASSUME NEW F, Loop(F) PROVE F[m] \in V
    OBVIOUS
  <2>1. \A k \in 0 .. m : F[k] = IF k = 0 THEN fs ELSE Step(k, F[k - 1])
    BY <1>0
  <2> HIDE DEF Loop, V, W, U
  <2>2. F[0] \in W[0] /\ \A k \in 1 .. m : F[k - 1] \in W[k - 1] => F[k] \in W[k]
    BY <1>0, <1>1, <1>2, <2>1
  <2> HIDE DEF m
  <2>3. \A k \in 0 .. m : F[k] \in W[k]
    BY <1>0, <2>2, LoopKeeps
  <2> QED
    BY <1>0, <1>2, <2>3
<1>4. \E F : Loop(F)
  <2> HIDE DEF V, W, U, m
  <2>1. PICK F : Rounds(m, fs, G, F)
    BY <1>0, LoopRuns
  <2>2. \A k \in 0 .. m : F[k] = IF k = 0 THEN fs ELSE G[k][F[k - 1]]
    BY <2>1 DEF Rounds
  <2>3. \A gs \in V : gs \in U
    BY DEF V
  <2>4. \A k \in 1 .. m : \A gs \in U : G[k][gs] = Step(k, gs)
    OBVIOUS
  <2> HIDE DEF G
  <2>5. F[0] \in W[0] /\ \A k \in 1 .. m : F[k - 1] \in W[k - 1] => F[k] \in W[k]
    BY <1>0, <1>1, <1>2, <2>2, <2>3, <2>4
  <2>6. \A k \in 0 .. m : F[k] \in W[k]
    BY <1>0, <2>5, LoopKeeps
  <2>7. \A k \in 1 .. m : G[k][F[k - 1]] = Step(k, F[k - 1])
    BY <1>0, <1>2, <2>3, <2>4, <2>6
  <2>8. Loop(F)
    <3>1. \A k \in 0 .. m : F[k] = IF k = 0 THEN fs ELSE Step(k, F[k - 1])
      <4> SUFFICES ASSUME NEW k \in 0 .. m PROVE F[k] = IF k = 0 THEN fs ELSE Step(k, F[k - 1])
        OBVIOUS
      <4>1. k # 0 => k \in 1 .. m
        BY <1>0
      <4> QED
        BY <2>2, <2>7, <4>1
    <3>2. F = [k \in 0 .. m |-> F[k]]
      BY <2>1 DEF Rounds
    <3> QED
      BY <3>1, <3>2
  <2> QED
    BY <2>8
<1>5. Flattened(fs) = (CHOOSE F : Loop(F))[m]
  BY Zenon DEF Flattened, Step
<1> HIDE DEF Loop
<1>6. Flattened(fs) \in V
  BY <1>3, <1>4, <1>5
<1> QED
  BY <1>6

-----------------------------------------------------------------------------
(* The state: what holds whatever the strategy.                            *)

Ways == [p \in Ranks |-> Order(p)]

\* The arrays are those of the text, and the options those of the run.
Basics ==
  /\ Indexed(text, sa, isa, plcp)
  /\ threshold \in Nat \ {0}
  /\ strategy \in Strategies

\* The factors taken so far are sound, and disjoint unless the heap took them.
FactorsGood ==
  /\ SoundRefs(text, Ways, threshold, factors)
  /\ strategy # "heap" => Apart(factors)

LEMMA BasicFacts ==
  ASSUME Basics
  PROVE  /\ n \in Nat /\ n > 0 /\ Ranks = Positions(text) /\ Ended(text) /\ Ordered(text, sa, isa)
         /\ sa \in [Ranks -> Ranks] /\ isa \in [Ranks -> Ranks] /\ DOMAIN plcp = Ranks
         /\ threshold \in Nat /\ threshold > 0
BY DEF Basics, Indexed, Ended, Ordered, Positions, Ranks, n

LEMMA WaysIs ==
  ASSUME Basics
  PROVE  /\ \A p \in Ranks : Ways[p] = IF strategy = "lzss_lcp" THEN p ELSE isa[p]
         /\ strategy # "lzss_lcp" => Ways = isa
<1>1. \A p \in Ranks : Ways[p] = IF strategy = "lzss_lcp" THEN p ELSE isa[p]
  BY DEF Ways, Order
<1>2. isa = [p \in Ranks |-> isa[p]]
  BY BasicFacts
<1> QED
  BY <1>1, <1>2 DEF Ways, Order

LEMMA GoodIsSound ==
  ASSUME Basics, FactorsGood PROVE FactorsSound
<1>1. ASSUME NEW k \in 1 .. Len(factors)
      PROVE  /\ factors[k].len >= threshold
             /\ factors[k].pos + factors[k].len < n /\ factors[k].src + factors[k].len < n
             /\ \A d \in 0 .. factors[k].len - 1 :
                  text[factors[k].src + d + 1] = text[factors[k].pos + d + 1]
             /\ Order(factors[k].src) < Order(factors[k].pos)
  <2> DEFINE f == factors[k]
  <2>1. SoundRef(text, Ways, threshold, f)
    BY DEF FactorsGood, SoundRefs
  <2>2. f.pos \in Ranks /\ f.src \in Ranks
    <3>1. /\ f.pos \in Nat /\ f.src \in Nat /\ f.len \in Nat /\ n \in Nat
          /\ f.pos + f.len < n /\ f.src + f.len < n
      BY <2>1, BasicFacts DEF SoundRef, FactorRec, n
    <3> HIDE DEF f
    <3> QED
      BY <3>1 DEF Ranks
  <2>3. Ways[f.src] = Order(f.src) /\ Ways[f.pos] = Order(f.pos)
    BY <2>2 DEF Ways
  <2> HIDE DEF f
  <2>4. /\ f.len >= threshold /\ f.pos + f.len < n /\ f.src + f.len < n
        /\ \A d \in 0 .. f.len - 1 : text[f.src + d + 1] = text[f.pos + d + 1]
        /\ Order(f.src) < Order(f.pos)
    BY <2>1, <2>3 DEF SoundRef, Agree, n
  <2> QED
    BY <2>4 DEF f
<1>2. strategy # "heap" => FactorsDisjoint
  BY DEF FactorsGood, Apart, FactorsDisjoint
<1> QED
  BY <1>1, <1>2 DEF FactorsSound

\* A factor made of a match with the predecessor suffix, or of a part of it.
LEMMA PieceSound ==
  ASSUME Basics, strategy # "lzss_lcp", NEW p \in 0 .. n - 2, NEW l \in Nat,
         threshold <= l, l <= plcp[p]
  PROVE  SoundRef(text, Ways, threshold, Factor(p, sa[isa[p] - 1], l))
<1> DEFINE q == Phi(sa, isa, p)
           f == Factor(p, q, l)
<1>1. Match(text, p, q, plcp[p])
  BY DEF Basics, Indexed, n
<1>2. /\ p \in Ranks /\ q \in Ranks /\ isa[q] = isa[p] - 1 /\ isa[p] \in 1 .. n - 1
  BY BasicFacts, Predecessor DEF n, Ranks, Positions
<1> HIDE DEF q
<1>3. plcp[p] \in Nat /\ p + plcp[p] < n /\ q + plcp[p] < n /\ Agree(text, p, q, plcp[p])
  BY <1>1 DEF Match, n
<1>4. Agree(text, q, p, l)
  BY <1>3 DEF Agree
<1>5. p \in Nat /\ q \in Nat /\ n \in Nat
  BY <1>2, BasicFacts DEF Ranks
<1>6. p + l < n /\ q + l < n
  BY <1>3, <1>5
<1>7. Ways[q] < Ways[p]
  <2>1. Ways[q] = isa[q] /\ Ways[p] = isa[p]
    BY <1>2, WaysIs
  <2>2. isa[p] - 1 < isa[p]
    BY <1>2
  <2> QED
    BY <1>2, <2>1, <2>2
<1>8. f \in FactorRec /\ f.pos = p /\ f.src = q /\ f.len = l
  BY <1>5 DEF Factor, FactorRec
<1> HIDE DEF f
<1>9. f.len >= threshold
  BY <1>8, BasicFacts
<1>10. SoundRef(text, Ways, threshold, f)
  BY <1>4, <1>6, <1>7, <1>8, <1>9 DEF SoundRef, n
<1> QED
  BY <1>10 DEF f, q, Phi

\* One more factor, away from the others.
LEMMA OneMore ==
  ASSUME Basics, FactorsGood, NEW f, SoundRef(text, Ways, threshold, f),
         strategy # "heap" => \A k \in 1 .. Len(factors) : Span(factors[k]) \cap Span(f) = {}
  PROVE  /\ SoundRefs(text, Ways, threshold, Append(factors, f))
         /\ strategy # "heap" => Apart(Append(factors, f))
         /\ Len(Append(factors, f)) = Len(factors) + 1 /\ Append(factors, f)[Len(factors) + 1] = f
         /\ \A k \in 1 .. Len(factors) : Append(factors, f)[k] = factors[k]
         /\ Len(factors) \in Nat
<1> DEFINE m == Len(factors)
           gs == Append(factors, f)
<1>1. factors \in Seq(FactorRec) /\ f \in FactorRec /\ m \in Nat
  BY DEF FactorsGood, SoundRefs, SoundRef
<1>2. /\ gs \in Seq(FactorRec) /\ Len(gs) = m + 1 /\ gs[m + 1] = f
      /\ \A k \in 1 .. m : gs[k] = factors[k]
  BY <1>1
<1> HIDE DEF gs
<1>3. \A k \in 1 .. m + 1 : k = m + 1 \/ k \in 1 .. m
  BY <1>1
<1>4. SoundRefs(text, Ways, threshold, gs)
  <2>1. \A k \in 1 .. m : SoundRef(text, Ways, threshold, factors[k])
    BY DEF FactorsGood, SoundRefs
  <2>2. \A k \in 1 .. m + 1 : SoundRef(text, Ways, threshold, gs[k])
    BY <1>2, <1>3, <2>1
  <2> QED
    BY <1>2, <2>2 DEF SoundRefs
<1>5. ASSUME strategy # "heap" PROVE Apart(gs)
  <2> SUFFICES ASSUME NEW k \in 1 .. m + 1, NEW h \in 1 .. m + 1, k # h
               PROVE  Span(gs[k]) \cap Span(gs[h]) = {}
    BY <1>2 DEF Apart
  <2>1. \A j \in 1 .. m : Span(factors[j]) \cap Span(f) = {}
    BY <1>5
  <2>2. \A j, g \in 1 .. m : j # g => Span(factors[j]) \cap Span(factors[g]) = {}
    BY <1>5 DEF FactorsGood, Apart
  <2>3. CASE k = m + 1
    <3>1. h \in 1 .. m
      BY <1>3, <2>3
    <3> QED
      BY <1>2, <2>1, <2>3, <3>1
  <2>4. CASE h = m + 1
    <3>1. k \in 1 .. m
      BY <1>3, <2>4
    <3> QED
      BY <1>2, <2>1, <2>4, <3>1
  <2>5. CASE k # m + 1 /\ h # m + 1
    <3>1. k \in 1 .. m /\ h \in 1 .. m
      BY <1>3, <2>5
    <3> QED
      BY <1>2, <2>2, <3>1
  <2> QED
    BY <2>3, <2>4, <2>5
<1> QED
  BY <1>1, <1>2, <1>4, <1>5 DEF gs

\* Encode: sorting and flattening keep the factors good.
LEMMA EncodedGood ==
  ASSUME Basics, FactorsGood
  PROVE  /\ SoundRefs(text, Ways, threshold, Sorted(factors))
         /\ strategy # "heap" => Apart(Sorted(factors))
         /\ strategy # "lzss_lcp" => SoundRefs(text, Ways, threshold, Flattened(Sorted(factors)))
         /\ strategy # "heap" => Apart(Flattened(Sorted(factors))) \/ strategy = "lzss_lcp"
<1> DEFINE gs == Sorted(factors)
<1>1. factors \in Seq(FactorRec) /\ \A k \in 1 .. Len(factors) : SoundRef(text, Ways, threshold, factors[k])
  BY DEF FactorsGood, SoundRefs
<1>2. /\ gs \in Seq(FactorRec) /\ Len(gs) = Len(factors)
      /\ \A k \in 1 .. Len(factors) : \E h \in 1 .. Len(factors) : gs[k] = factors[h]
      /\ Apart(factors) => Apart(gs)
  BY <1>1, SortedIs
<1> HIDE DEF gs
<1>3. SoundRefs(text, Ways, threshold, gs)
  <2>1. \A k \in 1 .. Len(gs) : SoundRef(text, Ways, threshold, gs[k])
    <3> SUFFICES ASSUME NEW k \in 1 .. Len(gs) PROVE SoundRef(text, Ways, threshold, gs[k])
      OBVIOUS
    <3>1. PICK h \in 1 .. Len(factors) : gs[k] = factors[h]
      BY <1>2
    <3> QED
      BY <1>1, <3>1
  <2> QED
    BY <1>2, <2>1 DEF SoundRefs
<1>4. strategy # "heap" => Apart(gs)
  BY <1>2 DEF FactorsGood
<1>5. ASSUME strategy # "lzss_lcp"
      PROVE  SoundRefs(text, Ways, threshold, Flattened(gs)) /\ SamePlaces(gs, Flattened(gs))
  <2>1. Ways = isa
    BY <1>5, WaysIs
  <2>2. SoundRefs(text, isa, threshold, gs)
    BY <1>3, <2>1
  <2>3. Ended(text) /\ Ordered(text, sa, isa)
    BY BasicFacts
  <2>4. SoundRefs(text, isa, threshold, Flattened(gs)) /\ SamePlaces(gs, Flattened(gs))
    BY <2>2, <2>3, FlattenedIs
  <2> QED
    BY <2>1, <2>4
<1>6. strategy # "heap" /\ strategy # "lzss_lcp" => Apart(Flattened(gs))
  BY <1>4, <1>5, SamePlacesApart
<1> QED
  BY <1>3, <1>4, <1>5, <1>6 DEF gs

LEMMA BasicsKept ==
  ASSUME Basics, UNCHANGED <<text, strategy, threshold, index>>
  PROVE  Basics' /\ Ways' = Ways /\ n' = n /\ Ranks' = Ranks
BY DEF Basics, Indexed, Ways, Order, n, Ranks, index

LEMMA FactorsKept ==
  ASSUME Basics, FactorsGood, UNCHANGED <<text, strategy, threshold, index, factors>>
  PROVE  FactorsGood'
BY BasicsKept DEF FactorsGood, index

LEMMA FactorsGrow ==
  ASSUME Basics, FactorsGood, UNCHANGED <<text, strategy, threshold, index>>,
         NEW f, SoundRef(text, Ways, threshold, f),
         strategy # "heap" => \A k \in 1 .. Len(factors) : Span(factors[k]) \cap Span(f) = {},
         factors' = Append(factors, f)
  PROVE  FactorsGood'
<1>1. Ways' = Ways /\ text' = text /\ threshold' = threshold /\ strategy' = strategy
  BY BasicsKept
<1>2. SoundRefs(text, Ways, threshold, factors') /\ (strategy # "heap" => Apart(factors'))
  BY OneMore
<1> QED
  BY <1>1, <1>2 DEF FactorsGood

-----------------------------------------------------------------------------
(* The strategies that go through the text: naive, plcppeaks and lzss_lcp. *)

\* A strategy that goes through the text has no factor behind its cursor.
CursorGood ==
  /\ i \in Ranks
  /\ strategy \in {"naive", "plcppeaks", "lzss_lcp"} =>
       \A k \in 1 .. Len(factors) : factors[k].pos + factors[k].len <= i
  /\ strategy \in {"naive", "lzss_lcp"} => lcp = LCPFromPLCP(sa, plcp)

LEMMA CursorMoves ==
  ASSUME Basics, FactorsGood, CursorGood, i + 1 < n, i' = i + 1,
         UNCHANGED <<text, strategy, threshold, index, lcp, factors>>
  PROVE  CursorGood'
<1>1. n' = n /\ Ranks' = Ranks /\ n \in Nat /\ i \in Nat
  BY BasicsKept, BasicFacts DEF CursorGood, Ranks
<1>2. i' \in Ranks
  BY <1>1 DEF Ranks
<1>3. ASSUME NEW k \in 1 .. Len(factors), factors[k].pos + factors[k].len <= i
      PROVE  factors[k].pos + factors[k].len <= i'
  <2>1. factors[k].pos + factors[k].len \in Nat
    BY SMTT(30) DEF FactorsGood, SoundRefs, SoundRef, FactorRec
  <2> QED
    BY <1>1, <1>3, <2>1
<1>4. strategy \in {"naive", "lzss_lcp"} => lcp' = LCPFromPLCP(sa, plcp)'
  BY DEF CursorGood, index
<1> QED
  BY <1>1, <1>2, <1>3, <1>4 DEF CursorGood

LEMMA CursorTakes ==
  ASSUME Basics, FactorsGood, CursorGood, NEW f, SoundRef(text, Ways, threshold, f), f.pos = i,
         strategy \in {"naive", "plcppeaks", "lzss_lcp"},
         factors' = Append(factors, f), i' = i + f.len,
         UNCHANGED <<text, strategy, threshold, index, lcp>>
  PROVE  FactorsGood' /\ CursorGood'
<1>1. n' = n /\ Ranks' = Ranks /\ n \in Nat /\ i \in Nat
  BY BasicsKept, BasicFacts DEF CursorGood, Ranks
<1>2. f.len \in Nat /\ i + f.len < n
  BY DEF SoundRef, FactorRec, n
<1>3. /\ \A k \in 1 .. Len(factors) : factors[k].pos + factors[k].len <= i
      /\ \A k \in 1 .. Len(factors) : factors[k].pos \in Nat /\ factors[k].len \in Nat
  BY DEF FactorsGood, SoundRefs, SoundRef, FactorRec, CursorGood
<1>4. ASSUME NEW k \in 1 .. Len(factors) PROVE Span(factors[k]) \cap Span(f) = {}
  <2> DEFINE g == factors[k]
  <2>1. g.pos \in Nat /\ g.len \in Nat /\ g.pos + g.len <= i
    BY <1>3
  <2> HIDE DEF g
  <2>2. Span(g) \cap Span(f) = {}
    BY <1>1, <1>2, <2>1, SMTT(30) DEF Span
  <2> QED
    BY <2>2 DEF g
<1>5. FactorsGood'
  BY <1>4, FactorsGrow
<1>6. i' \in Ranks
  BY <1>1, <1>2 DEF Ranks
<1>7. ASSUME NEW k \in 1 .. Len(factors') PROVE factors'[k].pos + factors'[k].len <= i'
  <2>1. /\ Len(factors') = Len(factors) + 1 /\ factors'[Len(factors) + 1] = f
        /\ \A h \in 1 .. Len(factors) : factors'[h] = factors[h]
        /\ Len(factors) \in Nat
    BY <1>4, OneMore
  <2>2. CASE k = Len(factors) + 1
    BY <1>1, <1>2, <2>1, <2>2
  <2>3. CASE k # Len(factors) + 1
    <3>1. k \in 1 .. Len(factors)
      BY <2>1, <2>3
    <3> DEFINE g == factors[k]
    <3>2. factors'[k] = g /\ g.pos \in Nat /\ g.len \in Nat /\ g.pos + g.len <= i
      BY <1>3, <2>1, <3>1
    <3> HIDE DEF g
    <3> QED
      BY <1>1, <1>2, <3>2
  <2> QED
    BY <2>2, <2>3
<1>8. strategy \in {"naive", "lzss_lcp"} => lcp' = LCPFromPLCP(sa, plcp)'
  BY DEF CursorGood, index
<1> QED
  BY <1>1, <1>5, <1>6, <1>7, <1>8 DEF CursorGood

\* The entry of the LCP array for position p.
LEMMA KeyOf ==
  ASSUME Basics, NEW p \in 0 .. n - 2
  PROVE  /\ p \in Ranks /\ isa[p] \in 1 .. n - 1 /\ isa[p] \in Ranks /\ sa[isa[p]] = p
         /\ LCPFromPLCP(sa, plcp)[isa[p]] = plcp[p]
         /\ plcp[p] \in Nat /\ p + plcp[p] < n
<1>1. p \in Positions(text) /\ isa[p] \in 1 .. n - 1
  BY BasicFacts, Predecessor DEF n
<1>2. p \in Ranks /\ isa[p] \in Ranks /\ sa[isa[p]] = p /\ DOMAIN sa = Ranks
  BY <1>1, BasicFacts DEF Ordered
<1>3. LCPFromPLCP(sa, plcp)[isa[p]] = plcp[p]
  BY <1>1, <1>2 DEF LCPFromPLCP
<1>4. Match(text, p, Phi(sa, isa, p), plcp[p])
  BY DEF Basics, Indexed, n
<1> QED
  BY <1>1, <1>2, <1>3, <1>4 DEF Match, n

LEMMA NaiveKeeps ==
  ASSUME Basics, FactorsGood, CursorGood, NaiveStep
  PROVE  FactorsGood' /\ CursorGood' /\ (marked \subseteq Ranks => marked' \subseteq Ranks)
<1> DEFINE f == FactorOf(isa[i])
<1>1. /\ i + 1 < n /\ strategy = "naive"
      /\ UNCHANGED <<text, strategy, threshold, index, lcp>>
      /\ \/ /\ f.len >= threshold /\ factors' = Append(factors, f) /\ i' = i + f.len
            /\ marked' = marked \cup (f.src .. f.src + f.len - 1)
         \/ i' = i + 1 /\ factors' = factors /\ marked' = marked
  BY DEF NaiveStep
<1>2. i \in 0 .. n - 2 /\ n \in Nat
  BY <1>1, BasicFacts DEF CursorGood, Ranks
<1>3. f = Factor(i, sa[isa[i] - 1], plcp[i]) /\ plcp[i] \in Nat
  BY <1>1, <1>2, KeyOf DEF CursorGood, FactorOf
<1>4. f.len = plcp[i] /\ f.pos = i
  BY <1>3 DEF Factor
<1> HIDE DEF f
<1>5. CASE /\ f.len >= threshold /\ factors' = Append(factors, f) /\ i' = i + f.len
           /\ marked' = marked \cup (f.src .. f.src + f.len - 1)
  <2>1. SoundRef(text, Ways, threshold, f)
    BY <1>1, <1>2, <1>3, <1>4, <1>5, PieceSound, BasicFacts
  <2>2. f.src .. f.src + f.len - 1 \subseteq Ranks
    <3> DEFINE a == f.src
               b == f.len
    <3>1. a \in Nat /\ b \in Nat /\ a + b < n
      BY <2>1 DEF SoundRef, FactorRec, n
    <3> HIDE DEF a, b
    <3>2. a .. a + b - 1 \subseteq Ranks
      BY <1>2, <3>1 DEF Ranks
    <3> QED
      BY <3>2 DEF a, b
  <2> QED
    BY <1>1, <1>4, <1>5, <2>1, <2>2, CursorTakes
<1>6. CASE i' = i + 1 /\ factors' = factors /\ marked' = marked
  BY <1>1, <1>6, CursorMoves, FactorsKept
<1> QED
  BY <1>1, <1>5, <1>6

LEMMA PeaksKeep ==
  ASSUME Basics, FactorsGood, CursorGood, PeaksStep
  PROVE  FactorsGood' /\ CursorGood' /\ (marked \subseteq Ranks => marked' \subseteq Ranks)
<1> DEFINE f == Factor(i, sa[isa[i] - 1], plcp[i])
<1>1. /\ i + 1 < n /\ strategy = "plcppeaks"
      /\ UNCHANGED <<text, strategy, threshold, index, lcp>>
      /\ \/ /\ plcp[i] >= threshold /\ factors' = Append(factors, f) /\ i' = i + plcp[i]
            /\ marked' = {i + plcp[i] - 1}
         \/ i' = i + 1 /\ factors' = factors /\ marked' = marked
  BY DEF PeaksStep
<1>2. i \in 0 .. n - 2 /\ n \in Nat
  BY <1>1, BasicFacts DEF CursorGood, Ranks
<1>3. plcp[i] \in Nat
  BY <1>2, KeyOf
<1>4. f.len = plcp[i] /\ f.pos = i
  BY DEF Factor
<1>5. CASE /\ plcp[i] >= threshold /\ factors' = Append(factors, f) /\ i' = i + plcp[i]
           /\ marked' = {i + plcp[i] - 1}
  <2>1. SoundRef(text, Ways, threshold, f)
    BY <1>1, <1>2, <1>3, <1>5, PieceSound, BasicFacts
  <2>2. marked' \subseteq Ranks
    <3> DEFINE a == plcp[i]
               e == i + a - 1
    <3>1. a \in Nat /\ a > 0 /\ i + a < n
      BY <1>2, <1>5, KeyOf, BasicFacts
    <3> HIDE DEF a
    <3>2. e \in Ranks
      BY <1>2, <3>1 DEF Ranks
    <3>3. marked' = {e}
      BY <1>5 DEF a
    <3> QED
      BY <3>2, <3>3
  <2> HIDE DEF f
  <2> QED
    BY <1>1, <1>4, <1>5, <2>1, <2>2, CursorTakes
<1>6. CASE i' = i + 1 /\ factors' = factors /\ marked' = marked
  BY <1>1, <1>6, CursorMoves, FactorsKept
<1> QED
  BY <1>1, <1>5, <1>6

\* lzss_lcp: the suffixes of ranks a and b have l symbols in common.
Near(a, b, l) ==
  /\ a \in Ranks /\ b \in Ranks /\ l \in Nat
  /\ a = b \/ (sa[a] + l < n /\ sa[b] + l < n /\ Agree(text, sa[a], sa[b], l))

LeastOf(a, b) == IF a < b THEN a ELSE b

LEMMA Neighbours ==
  ASSUME Basics, NEW r \in 1 .. n - 1
  PROVE  /\ r \in Ranks /\ r - 1 \in Ranks /\ sa[r] \in 0 .. n - 2 /\ isa[sa[r]] = r
         /\ LCPFromPLCP(sa, plcp)[r] = plcp[sa[r]] /\ plcp[sa[r]] \in Nat
         /\ Match(text, sa[r], sa[r - 1], plcp[sa[r]])
<1>1. r \in Ranks /\ r - 1 \in Ranks /\ n \in Nat
  BY BasicFacts DEF Ranks
<1>2. isa[sa[r]] = r /\ isa[n - 1] = 0 /\ sa[r] \in Ranks
  BY <1>1, BasicFacts, LastLeast DEF Ordered, n
<1>3. sa[r] \in 0 .. n - 2
  <2>1. sa[r] # n - 1
    BY <1>2
  <2> QED
    BY <1>1, <1>2, <2>1 DEF Ranks
<1>4. LCPFromPLCP(sa, plcp)[r] = plcp[sa[r]]
  BY <1>1, BasicFacts DEF LCPFromPLCP
<1>5. Match(text, sa[r], Phi(sa, isa, sa[r]), plcp[sa[r]])
  BY <1>3 DEF Basics, Indexed, n
<1>6. Phi(sa, isa, sa[r]) = sa[r - 1]
  BY <1>2 DEF Phi
<1> QED
  BY <1>1, <1>2, <1>3, <1>4, <1>5, <1>6 DEF Match

LEMMA NearNext ==
  ASSUME Basics, NEW r \in 1 .. n - 1, NEW key, key = LCPFromPLCP(sa, plcp)[r]
  PROVE  /\ key \in Nat /\ Near(r, r - 1, key)
         /\ \A a, l : Near(a, r - 1, l) => Near(a, r, LeastOf(key, l))
         /\ \A a, l : Near(a, r, l) => Near(a, r - 1, LeastOf(key, l))
<1>1. /\ r \in Ranks /\ r - 1 \in Ranks /\ key \in Nat /\ Match(text, sa[r], sa[r - 1], key)
  BY Neighbours
<1>2. /\ \A x \in Ranks : sa[x] \in Nat
      /\ n \in Nat
  BY BasicFacts DEF Ranks
<1>3. /\ sa[r] + key < n /\ sa[r - 1] + key < n /\ Agree(text, sa[r], sa[r - 1], key)
  BY <1>1 DEF Match, n
<1>4. ASSUME NEW a, NEW l, NEW x \in Ranks, NEW y \in Ranks,
             (x = r /\ y = r - 1) \/ (x = r - 1 /\ y = r), Near(a, x, l)
      PROVE  Near(a, y, LeastOf(key, l))
  <2> DEFINE m == LeastOf(key, l)
  <2>1. m \in Nat /\ m <= key /\ m <= l /\ a \in Ranks /\ l \in Nat
    BY <1>1, <1>4 DEF Near, LeastOf
  <2> HIDE DEF m
  <2>2. sa[x] + key < n /\ sa[y] + key < n /\ Agree(text, sa[x], sa[y], key)
    <3>1. (x = r /\ y = r - 1) \/ (x = r - 1 /\ y = r)
      BY <1>1, <1>4
    <3> QED
      BY <1>3, <3>1 DEF Agree
  <2>3. sa[x] + m < n /\ sa[y] + m < n /\ Agree(text, sa[x], sa[y], m)
    <3>1. sa[x] \in Nat /\ sa[y] \in Nat
      BY <1>2
    <3>2. sa[x] + m < n /\ sa[y] + m < n
      BY <1>1, <1>2, <2>1, <2>2, <3>1
    <3>3. Agree(text, sa[x], sa[y], m)
      BY <1>1, <2>1, <2>2 DEF Agree
    <3> QED
      BY <3>2, <3>3
  <2>4. CASE a = x
    BY <2>1, <2>3, <2>4 DEF Near, m
  <2>5. CASE a # x
    <3>1. sa[a] + l < n /\ Agree(text, sa[a], sa[x], l) /\ sa[a] \in Nat
      BY <1>2, <1>4, <2>1, <2>5 DEF Near
    <3>2. sa[a] + m < n
      BY <1>2, <2>1, <3>1
    <3>3. Agree(text, sa[a], sa[x], m)
      BY <2>1, <3>1 DEF Agree
    <3>4. Agree(text, sa[a], sa[y], m)
      BY <2>3, <3>3, AgreeThrough
    <3> QED
      BY <2>1, <2>3, <3>2, <3>4 DEF Near, m
  <2> QED
    BY <2>4, <2>5
<1>5. Near(r, r - 1, key)
  BY <1>1, <1>3 DEF Near
<1>6. ASSUME NEW a, NEW l, Near(a, r - 1, l) PROVE Near(a, r, LeastOf(key, l))
  BY <1>1, <1>4, <1>6
<1>7. ASSUME NEW a, NEW l, Near(a, r, l) PROVE Near(a, r - 1, LeastOf(key, l))
  BY <1>1, <1>4, <1>7
<1> QED
  BY <1>1, <1>5, <1>6, <1>7

Ends == [at : -1 .. n, len : Nat]

\* What the ways up and down have found when they are at rank r.
FoundUp(r, u) ==
  /\ u \in Ends
  /\ r >= 0 => \/ u.len = 0
               \/ u.at \in 0 .. r /\ sa[u.at] < i /\ Near(u.at, r, u.len)
FoundDown(r, d) ==
  /\ d \in Ends
  /\ \/ d.len = 0
     \/ d.at \in r .. n - 1 /\ sa[d.at] < i /\ Near(d.at, r - 1, d.len)

Upwards(U) ==
  U = [r \in -1 .. isa[i] - 1 |->
         IF r < 0 \/ sa[r] < i THEN [at |-> r, len |-> n]
         ELSE LET u == U[r - 1] IN [u EXCEPT !.len = LeastOf(lcp[r], @)]]
Down(D) ==
  D = [r \in isa[i] + 1 .. n |->
         IF r = n THEN [at |-> n, len |-> 0]
         ELSE IF sa[r] < i THEN [at |-> r, len |-> lcp[r]]
         ELSE LET d == D[r + 1] IN [d EXCEPT !.len = LeastOf(lcp[r], @)]]

\* One rank further.
LEMMA UpStep ==
  ASSUME Basics, lcp = LCPFromPLCP(sa, plcp), NEW r \in 0 .. n - 1, NEW u, FoundUp(r - 1, u)
  PROVE  /\ FoundUp(r, [u EXCEPT !.len = LeastOf(lcp[r], @)])
         /\ sa[r] < i => FoundUp(r, [at |-> r, len |-> n])
<1> DEFINE v == [u EXCEPT !.len = LeastOf(lcp[r], @)]
<1>1. u \in Ends /\ u.len \in Nat /\ u.at \in -1 .. n /\ n \in Nat /\ r \in Ranks /\ r >= 0
  BY BasicFacts DEF FoundUp, Ends, Ranks
<1>2. lcp[r] \in Nat /\ (r = 0 => lcp[r] = 0)
  <2>1. CASE r = 0
    BY <1>1, <2>1, BasicFacts DEF LCPFromPLCP
  <2>2. CASE r # 0
    <3>1. r \in 1 .. n - 1
      BY <2>2
    <3> QED
      BY <2>2, <3>1, NearNext
  <2> QED
    BY <2>1, <2>2
<1>3. LeastOf(lcp[r], u.len) \in Nat
  BY <1>1, <1>2 DEF LeastOf
<1>4. v = [at |-> u.at, len |-> LeastOf(lcp[r], u.len)]
  BY <1>1 DEF Ends
<1> HIDE DEF v
<1>5. v \in Ends /\ v.at = u.at /\ v.len = LeastOf(lcp[r], u.len)
  BY <1>1, <1>3, <1>4 DEF Ends
<1>6. CASE r = 0
  <2>1. v.len = 0
    BY <1>1, <1>2, <1>5, <1>6 DEF LeastOf
  <2> QED
    BY <1>1, <1>5, <1>6, <2>1 DEF FoundUp, Ends, v, Near
<1>7. CASE r # 0
  <2>1. r \in 1 .. n - 1 /\ r - 1 >= 0
    BY <1>7
  <2>2. u.len = 0 \/ (u.at \in 0 .. r - 1 /\ sa[u.at] < i /\ Near(u.at, r - 1, u.len))
    BY <2>1 DEF FoundUp
  <2>3. v.len = 0 \/ (v.at \in 0 .. r /\ sa[v.at] < i /\ Near(v.at, r, v.len))
    <3>1. CASE u.len = 0
      BY <1>2, <1>5, <3>1 DEF LeastOf
    <3>2. CASE u.at \in 0 .. r - 1 /\ sa[u.at] < i /\ Near(u.at, r - 1, u.len)
      <4>1. Near(u.at, r, LeastOf(lcp[r], u.len))
        BY <2>1, <3>2, NearNext
      <4>2. u.at \in 0 .. r
        BY <3>2
      <4> QED
        BY <1>5, <3>2, <4>1, <4>2
    <3> QED
      BY <2>2, <3>1, <3>2
  <2>4. FoundUp(r, v)
    BY <1>5, <2>3 DEF FoundUp
  <2>5. FoundUp(r, [at |-> r, len |-> n]) \/ ~ (sa[r] < i)
    BY <1>1 DEF FoundUp, Ends, Near
  <2> QED
    BY <2>4, <2>5 DEF v
<1> QED
  BY <1>6, <1>7

LEMMA DownStep ==
  ASSUME Basics, lcp = LCPFromPLCP(sa, plcp), NEW r \in 1 .. n - 1, NEW d, FoundDown(r + 1, d)
  PROVE  /\ FoundDown(r, [d EXCEPT !.len = LeastOf(lcp[r], @)])
         /\ sa[r] < i => FoundDown(r, [at |-> r, len |-> lcp[r]])
<1> DEFINE v == [d EXCEPT !.len = LeastOf(lcp[r], @)]
<1>1. d \in Ends /\ d.len \in Nat /\ d.at \in -1 .. n /\ n \in Nat /\ r + 1 - 1 = r
  BY BasicFacts DEF FoundDown, Ends
<1>2. lcp[r] \in Nat /\ Near(r, r - 1, lcp[r])
  BY NearNext
<1>3. LeastOf(lcp[r], d.len) \in Nat
  BY <1>1, <1>2 DEF LeastOf
<1>4. v = [at |-> d.at, len |-> LeastOf(lcp[r], d.len)]
  BY <1>1 DEF Ends
<1> HIDE DEF v
<1>5. v \in Ends /\ v.at = d.at /\ v.len = LeastOf(lcp[r], d.len)
  BY <1>1, <1>3, <1>4 DEF Ends
<1>6. d.len = 0 \/ (d.at \in r + 1 .. n - 1 /\ sa[d.at] < i /\ Near(d.at, r, d.len))
  BY <1>1 DEF FoundDown
<1>7. v.len = 0 \/ (v.at \in r .. n - 1 /\ sa[v.at] < i /\ Near(v.at, r - 1, v.len))
  <2>1. CASE d.len = 0
    BY <1>2, <1>5, <2>1 DEF LeastOf
  <2>2. CASE d.at \in r + 1 .. n - 1 /\ sa[d.at] < i /\ Near(d.at, r, d.len)
    <3>1. Near(d.at, r - 1, LeastOf(lcp[r], d.len))
      BY <2>2, NearNext
    <3>2. d.at \in r .. n - 1
      BY <2>2
    <3> QED
      BY <1>5, <2>2, <3>1, <3>2
  <2> QED
    BY <1>6, <2>1, <2>2
<1>8. FoundDown(r, v)
  BY <1>5, <1>7 DEF FoundDown
<1>9. ASSUME sa[r] < i PROVE FoundDown(r, [at |-> r, len |-> lcp[r]])
  <2>1. [at |-> r, len |-> lcp[r]] \in Ends
    BY <1>1, <1>2 DEF Ends
  <2> QED
    BY <1>2, <1>9, <2>1 DEF FoundDown
<1> QED
  BY <1>8, <1>9 DEF v

\* The way up ends, at what FoundUp says.
LEMMA UpwardsIs ==
  ASSUME Basics, lcp = LCPFromPLCP(sa, plcp), i \in 0 .. n - 2
  PROVE  /\ \E U : Upwards(U)
         /\ \A U : Upwards(U) => FoundUp(isa[i] - 1, U[isa[i] - 1])
<1> DEFINE m == isa[i]
           a == [at |-> -1, len |-> n]
           W == [k \in 0 .. m |-> {u \in Ends : FoundUp(k - 1, u)}]
           Body(r, u) == IF r < 0 \/ sa[r] < i THEN [at |-> r, len |-> n]
                         ELSE [u EXCEPT !.len = LeastOf(lcp[r], @)]
           G == [k \in 1 .. m |-> [u \in Ends |-> Body(k - 1, u)]]
<1>1. m \in 1 .. n - 1 /\ n \in Nat
  BY KeyOf, BasicFacts
<1> HIDE DEF m
<1>2. \A k \in 0 .. m : \A u : u \in W[k] <=> FoundUp(k - 1, u)
  BY DEF FoundUp
<1>3. a \in W[0]
  <2>1. FoundUp(-1, a)
    BY <1>1 DEF FoundUp, Ends
  <2>2. 0 - 1 = -1 /\ 0 \in 0 .. m
    BY <1>1
  <2> HIDE DEF W, a
  <2> QED
    BY <1>2, <2>1, <2>2
<1>4. ASSUME NEW k \in 1 .. m, NEW u, u \in W[k - 1] PROVE Body(k - 1, u) \in W[k]
  <2>1. k - 1 \in 0 .. n - 1 /\ k - 1 \in 0 .. m /\ k \in 0 .. m
    BY <1>1
  <2>2. FoundUp(k - 1 - 1, u)
    BY <1>2, <1>4, <2>1
  <2> DEFINE r == k - 1
  <2> HIDE DEF r
  <2>3. r \in 0 .. n - 1 /\ FoundUp(r - 1, u) /\ ~ (r < 0)
    BY <2>1, <2>2 DEF r
  <2>4. /\ FoundUp(r, [u EXCEPT !.len = LeastOf(lcp[r], @)])
        /\ sa[r] < i => FoundUp(r, [at |-> r, len |-> n])
    BY <2>3, UpStep
  <2>5. FoundUp(r, Body(r, u))
    BY <2>3, <2>4
  <2> HIDE DEF W, Body
  <2> QED
    BY <1>2, <2>1, <2>5 DEF r
<1> HIDE DEF Body
<1>5. ASSUME NEW U, Upwards(U) PROVE FoundUp(m - 1, U[m - 1])
  <2> DEFINE F == [k \in 0 .. m |-> U[k - 1]]
  <2>1. \A r \in -1 .. m - 1 : U[r] = Body(r, U[r - 1])
    BY <1>5 DEF Upwards, Body, m
  <2>2. U[-1] = a
    <3>1. -1 \in -1 .. m - 1
      BY <1>1
    <3>2. \A u : Body(-1, u) = a
      BY DEF Body
    <3> HIDE DEF a
    <3> QED
      BY <2>1, <3>1, <3>2
  <2>3. F[0] \in W[0]
    <3>1. F[0] = U[-1]
      BY <1>1
    <3> QED
      BY <1>3, <2>2, <3>1
  <2>4. ASSUME NEW k \in 1 .. m, F[k - 1] \in W[k - 1] PROVE F[k] \in W[k]
    <3>1. k - 1 \in -1 .. m - 1 /\ k \in 0 .. m /\ k - 1 \in 0 .. m
      BY <1>1
    <3>2. F[k] = Body(k - 1, F[k - 1])
      BY <2>1, <3>1
    <3> HIDE DEF F, W
    <3> QED
      BY <1>4, <2>4, <3>2
  <2>5. F[m] = U[m - 1] /\ m \in 0 .. m /\ m \in Nat
    BY <1>1
  <2> HIDE DEF F, W
  <2>6. F[m] \in W[m]
    BY <2>3, <2>4, <2>5, LoopKeeps
  <2> QED
    BY <1>2, <2>5, <2>6
<1>6. \E U : Upwards(U)
  <2>1. PICK F : Rounds(m, a, G, F)
    <3>1. m \in Nat
      BY <1>1
    <3> QED
      BY <3>1, LoopRuns
  <2>2. \A k \in 0 .. m : F[k] = IF k = 0 THEN a ELSE G[k][F[k - 1]]
    BY <2>1 DEF Rounds
  <2>3. \A k \in 1 .. m : \A u \in Ends : G[k][u] = Body(k - 1, u)
    OBVIOUS
  <2>4. \A k \in 0 .. m : \A u \in W[k] : u \in Ends
    OBVIOUS
  <2> HIDE DEF G, W, a
  <2>5. ASSUME NEW k \in 1 .. m, F[k - 1] \in W[k - 1] PROVE F[k] = Body(k - 1, F[k - 1]) /\ F[k] \in W[k]
    <3>1. k - 1 \in 0 .. m /\ k \in 0 .. m /\ k # 0
      BY <1>1
    <3>2. F[k] = Body(k - 1, F[k - 1])
      BY <2>2, <2>3, <2>4, <2>5, <3>1
    <3> QED
      BY <1>4, <2>5, <3>2
  <2>6. \A k \in 0 .. m : F[k] \in W[k]
    <3>1. F[0] \in W[0] /\ m \in Nat
      BY <1>1, <1>3, <2>2
    <3> QED
      BY <2>5, <3>1, LoopKeeps
  <2> DEFINE U == [r \in -1 .. m - 1 |-> F[r + 1]]
  <2>7. ASSUME NEW r \in -1 .. m - 1 PROVE U[r] = Body(r, U[r - 1])
    <3>1. CASE r = -1
      <4>1. U[r] = a
        BY <1>1, <2>2, <3>1
      <4> QED
        BY <3>1, <4>1 DEF Body, a
    <3>2. CASE r # -1
      <4>1. r + 1 \in 1 .. m /\ r + 1 - 1 = r /\ r \in 0 .. m /\ r - 1 \in -1 .. m - 1 /\ r - 1 + 1 = r
        BY <1>1, <3>2
      <4>2. F[r + 1] = Body(r, F[r])
        BY <2>5, <2>6, <4>1
      <4>3. U[r] = F[r + 1] /\ U[r - 1] = F[r]
        BY <4>1
      <4> QED
        BY <4>2, <4>3
    <3> QED
      BY <3>1, <3>2
  <2>8. U = [r \in -1 .. m - 1 |-> U[r]]
    OBVIOUS
  <2> HIDE DEF U
  <2>9. U = [r \in -1 .. m - 1 |-> Body(r, U[r - 1])]
    BY <2>7, <2>8
  <2>10. Upwards(U)
    BY <2>9, Zenon DEF Upwards, Body, m
  <2> QED
    BY <2>10
<1> QED
  BY <1>5, <1>6 DEF m

\* The way down ends, at what FoundDown says.
LEMMA DownIs ==
  ASSUME Basics, lcp = LCPFromPLCP(sa, plcp), i \in 0 .. n - 2
  PROVE  /\ \E D : Down(D)
         /\ \A D : Down(D) => FoundDown(isa[i] + 1, D[isa[i] + 1])
<1> DEFINE c == isa[i]
           m == n - c - 1
           a == [at |-> n, len |-> 0]
           W == [k \in 0 .. m |-> {d \in Ends : FoundDown(n - k, d)}]
           Body(r, d) == IF sa[r] < i THEN [at |-> r, len |-> lcp[r]]
                         ELSE [d EXCEPT !.len = LeastOf(lcp[r], @)]
           G == [k \in 1 .. m |-> [d \in Ends |-> Body(n - k, d)]]
<1>1. c \in 1 .. n - 1 /\ n \in Nat
  BY KeyOf, BasicFacts
<1> HIDE DEF c
<1>11. m \in Nat /\ c + 1 = n - m
  BY <1>1
<1>2. \A k \in 0 .. m : \A d : d \in W[k] <=> FoundDown(n - k, d)
  BY DEF FoundDown
<1>3. a \in W[0]
  <2>1. FoundDown(n, a)
    BY <1>1 DEF FoundDown, Ends
  <2>2. n - 0 = n /\ 0 \in 0 .. m
    BY <1>1
  <2> HIDE DEF W, a
  <2> QED
    BY <1>2, <2>1, <2>2
<1>4. ASSUME NEW k \in 1 .. m, NEW d, d \in W[k - 1] PROVE Body(n - k, d) \in W[k]
  <2>1. n - k \in 1 .. n - 1 /\ k - 1 \in 0 .. m /\ k \in 0 .. m /\ n - (k - 1) = (n - k) + 1
    BY <1>1
  <2>2. FoundDown((n - k) + 1, d)
    BY <1>2, <1>4, <2>1
  <2> DEFINE r == n - k
  <2> HIDE DEF r
  <2>3. r \in 1 .. n - 1 /\ FoundDown(r + 1, d)
    BY <2>1, <2>2 DEF r
  <2>4. /\ FoundDown(r, [d EXCEPT !.len = LeastOf(lcp[r], @)])
        /\ sa[r] < i => FoundDown(r, [at |-> r, len |-> lcp[r]])
    BY <2>3, DownStep
  <2>5. FoundDown(r, Body(r, d))
    BY <2>3, <2>4
  <2> HIDE DEF W, Body
  <2> QED
    BY <1>2, <2>1, <2>5 DEF r
<1> HIDE DEF Body
<1>5. ASSUME NEW D, Down(D) PROVE FoundDown(c + 1, D[c + 1])
  <2> DEFINE F == [k \in 0 .. m |-> D[n - k]]
  <2>1. \A r \in c + 1 .. n : D[r] = IF r = n THEN a ELSE Body(r, D[r + 1])
    BY <1>5 DEF Down, Body, c
  <2>2. D[n] = a
    <3>1. n \in c + 1 .. n
      BY <1>1
    <3> QED
      BY <2>1, <3>1
  <2>3. F[0] \in W[0]
    <3>1. F[0] = D[n]
      BY <1>1
    <3> QED
      BY <1>3, <2>2, <3>1
  <2>4. ASSUME NEW k \in 1 .. m, F[k - 1] \in W[k - 1] PROVE F[k] \in W[k]
    <3>1. /\ n - k \in c + 1 .. n /\ n - k # n /\ k \in 0 .. m /\ k - 1 \in 0 .. m
          /\ n - (k - 1) = (n - k) + 1
      BY <1>1
    <3>2. F[k] = Body(n - k, F[k - 1])
      BY <2>1, <3>1
    <3> HIDE DEF F, W, m
    <3> QED
      BY <1>4, <2>4, <3>2
  <2>5. F[m] = D[c + 1] /\ m \in 0 .. m
    BY <1>1, <1>11
  <2> HIDE DEF F, W, m
  <2>6. F[m] \in W[m]
    BY <1>11, <2>3, <2>4, <2>5, LoopKeeps
  <2> QED
    BY <1>2, <1>11, <2>5, <2>6
<1>6. \E D : Down(D)
  <2> HIDE DEF m
  <2>1. PICK F : Rounds(m, a, G, F)
    BY <1>11, LoopRuns
  <2>2. \A k \in 0 .. m : F[k] = IF k = 0 THEN a ELSE G[k][F[k - 1]]
    BY <2>1 DEF Rounds
  <2>3. \A k \in 1 .. m : \A d \in Ends : G[k][d] = Body(n - k, d)
    OBVIOUS
  <2>4. \A k \in 0 .. m : \A d \in W[k] : d \in Ends
    OBVIOUS
  <2> HIDE DEF G, W, a
  <2>5. ASSUME NEW k \in 1 .. m, F[k - 1] \in W[k - 1] PROVE F[k] = Body(n - k, F[k - 1]) /\ F[k] \in W[k]
    <3>1. k - 1 \in 0 .. m /\ k \in 0 .. m /\ k # 0
      BY <1>11
    <3>2. F[k] = Body(n - k, F[k - 1])
      BY <2>2, <2>3, <2>4, <2>5, <3>1
    <3> QED
      BY <1>4, <2>5, <3>2
  <2>6. \A k \in 0 .. m : F[k] \in W[k]
    <3>1. F[0] \in W[0]
      BY <1>11, <1>3, <2>2
    <3> QED
      BY <1>11, <2>5, <3>1, LoopKeeps
  <2> DEFINE D == [r \in c + 1 .. n |-> F[n - r]]
  <2>7. ASSUME NEW r \in c + 1 .. n PROVE D[r] = IF r = n THEN a ELSE Body(r, D[r + 1])
    <3>1. CASE r = n
      <4>1. D[r] = F[0] /\ 0 \in 0 .. m
        BY <1>1, <1>11, <3>1
      <4> QED
        BY <2>2, <3>1, <4>1
    <3>2. CASE r # n
      <4>1. /\ n - r \in 1 .. m /\ n - r - 1 = n - (r + 1) /\ r + 1 \in c + 1 .. n
            /\ n - r - 1 \in 0 .. m /\ n - (n - r) = r
        BY <1>1, <1>11, <3>2
      <4>2. F[n - r] = Body(n - (n - r), F[n - r - 1])
        BY <2>5, <2>6, <4>1
      <4>3. D[r] = F[n - r] /\ D[r + 1] = F[n - (r + 1)]
        BY <4>1
      <4> HIDE DEF D
      <4> QED
        BY <3>2, <4>1, <4>2, <4>3
    <3> QED
      BY <3>1, <3>2
  <2>8. D = [r \in c + 1 .. n |-> D[r]]
    OBVIOUS
  <2> HIDE DEF D
  <2>9. D = [r \in c + 1 .. n |-> IF r = n THEN a ELSE Body(r, D[r + 1])]
    BY <2>7, <2>8
  <2>10. Down(D)
    BY <2>9, Zenon DEF Down, Body, c, a
  <2> QED
    BY <2>10
<1> QED
  BY <1>5, <1>6 DEF c

LEMMA LZSSKeeps ==
  ASSUME Basics, FactorsGood, CursorGood, LZSSStep PROVE FactorsGood' /\ CursorGood'
<1> DEFINE cur == isa[i]
           up == [(CHOOSE U : Upwards(U))[cur - 1] EXCEPT !.len = LeastOf(lcp[cur], @)]
           down == (CHOOSE D : Down(D))[cur + 1]
           best == IF lcp[cur] > 0 /\ up.len >= down.len THEN up ELSE down
           f == Factor(i, sa[best.at], best.len)
<1>1. /\ i + 1 < n /\ strategy = "lzss_lcp"
      /\ UNCHANGED <<text, strategy, threshold, index, lcp>>
  BY DEF LZSSStep
<1>2. \/ best.len >= threshold /\ factors' = Append(factors, f) /\ i' = i + best.len
      \/ i' = i + 1 /\ factors' = factors
  BY Zenon DEF LZSSStep, Upwards, Down, LeastOf
<1>3. i \in 0 .. n - 2 /\ n \in Nat /\ lcp = LCPFromPLCP(sa, plcp)
  BY <1>1, BasicFacts DEF CursorGood, Ranks
<1>4. cur \in 1 .. n - 1 /\ sa[cur] = i /\ cur \in 0 .. n - 1
  BY <1>3, KeyOf
<1>5. FoundUp(cur, up)
  <2> DEFINE U0 == CHOOSE U : Upwards(U)
  <2>1. FoundUp(cur - 1, U0[cur - 1])
    BY <1>3, UpwardsIs
  <2> HIDE DEF U0, cur
  <2>2. FoundUp(cur, [U0[cur - 1] EXCEPT !.len = LeastOf(lcp[cur], @)])
    BY <1>3, <1>4, <2>1, UpStep
  <2> QED
    BY <2>2 DEF U0
<1>6. FoundDown(cur + 1, down)
  BY <1>3, DownIs
<1> HIDE DEF cur, up, down
<1>7. \/ best.len = 0
      \/ best.at \in Ranks /\ sa[best.at] < i /\ Near(best.at, cur, best.len)
  <2>1. up.len = 0 \/ (sa[up.at] < i /\ Near(up.at, cur, up.len))
    BY <1>4, <1>5 DEF FoundUp
  <2>2. (cur + 1) - 1 = cur
    BY <1>4
  <2>3. down.len = 0 \/ (sa[down.at] < i /\ Near(down.at, cur, down.len))
    <3>1. down.len = 0 \/ (sa[down.at] < i /\ Near(down.at, (cur + 1) - 1, down.len))
      BY <1>6, Zenon DEF FoundDown
    <3> QED
      BY <2>2, <3>1, Zenon
  <2> QED
    BY <2>1, <2>3 DEF Near
<1> HIDE DEF best
<1>8. f.len = best.len /\ f.pos = i
  BY DEF Factor
<1>9. CASE best.len >= threshold /\ factors' = Append(factors, f) /\ i' = i + best.len
  <2>1. best.len # 0
    BY <1>9, BasicFacts
  <2> DEFINE q == sa[best.at]
             l == best.len
  <2>2. best.at \in Ranks /\ q < i /\ Near(best.at, cur, l)
    BY <1>7, <2>1
  <2>3. q \in Ranks /\ i \in Ranks
    BY <2>2, BasicFacts DEF CursorGood
  <2>4. q \in Nat /\ i \in Nat /\ q # i
    BY <2>2, <2>3, BasicFacts DEF Ranks
  <2>5. best.at # cur
    BY <1>4, <2>4
  <2>6. l \in Nat /\ q + l < n /\ i + l < n /\ Agree(text, q, i, l)
    BY <1>4, <2>2, <2>5 DEF Near
  <2> HIDE DEF q, l
  <2>7. Ways[q] = q /\ Ways[i] = i
    BY <1>1, <2>3, WaysIs
  <2>8. f = Factor(i, q, l) /\ f \in FactorRec /\ f.pos = i /\ f.src = q /\ f.len = l
    BY <2>4, <2>6 DEF Factor, FactorRec, q, l
  <2> HIDE DEF f
  <2>9. l >= threshold
    BY <1>9 DEF l
  <2>10. SoundRef(text, Ways, threshold, f)
    BY <2>2, <2>6, <2>7, <2>8, <2>9 DEF SoundRef, n, q
  <2> QED
    BY <1>1, <1>8, <1>9, <2>10, CursorTakes
<1>10. CASE i' = i + 1 /\ factors' = factors
  BY <1>1, <1>10, CursorMoves, FactorsKept
<1> QED
  BY <1>2, <1>9, <1>10

\* F is the trace of a loop of m rounds G from a, and W what each leaves.
Trace(m, a, G, W, F) ==
  /\ F = [k \in 0 .. m |-> F[k]] /\ F[0] = a
  /\ \A k \in 1 .. m : F[k] = G[k][F[k - 1]]
  /\ \A k \in 0 .. m : F[k] \in W[k]

LEMMA LoopGoes ==
  ASSUME NEW m \in Nat, NEW a, NEW G, NEW W, a \in W[0],
         \A k \in 1 .. m : \A v \in W[k - 1] : G[k][v] \in W[k]
  PROVE  \E F : Trace(m, a, G, W, F)
<1>1. PICK F : Rounds(m, a, G, F)
  BY LoopRuns
<1>2. F = [k \in 0 .. m |-> F[k]] /\ F[0] = a /\ \A k \in 1 .. m : F[k] = G[k][F[k - 1]]
  BY <1>1 DEF Rounds
<1>3. \A k \in 1 .. m : F[k - 1] \in W[k - 1] => F[k] \in W[k]
  BY <1>2
<1>4. \A k \in 0 .. m : F[k] \in W[k]
  BY <1>2, <1>3, LoopKeeps
<1> QED
  BY <1>2, <1>4 DEF Trace

-----------------------------------------------------------------------------
(* The list of max_lcp.                                                    *)

LEMMA RemoveAtIs ==
  ASSUME NEW S, NEW s \in Seq(S), NEW p \in 1 .. Len(s)
  PROVE  /\ RemoveAt(s, p) \in Seq(S) /\ Len(RemoveAt(s, p)) = Len(s) - 1
         /\ \A k \in 1 .. Len(s) - 1 : RemoveAt(s, p)[k] = IF k < p THEN s[k] ELSE s[k + 1]
<1> DEFINE a == SubSeq(s, 1, p - 1)
           b == SubSeq(s, p + 1, Len(s))
<1>1. p \in Nat /\ Len(s) \in Nat
  OBVIOUS
<1>2. a \in Seq(S) /\ Len(a) = p - 1 /\ \A k \in 1 .. p - 1 : a[k] = s[k]
  BY <1>1
<1>3. b \in Seq(S) /\ Len(b) = Len(s) - p /\ \A k \in 1 .. Len(s) - p : b[k] = s[p + k]
  BY <1>1
<1> HIDE DEF a, b
<1>4. RemoveAt(s, p) = a \o b
  BY DEF RemoveAt, a, b
<1> DEFINE c == a \o b
           x == p - 1
           y == Len(s) - p
<1>5. /\ c \in Seq(S) /\ Len(c) = x + y
      /\ \A k \in 1 .. x + y : c[k] = IF k <= x THEN a[k] ELSE b[k - x]
  <2>1. /\ a \o b \in Seq(S) /\ Len(a \o b) = Len(a) + Len(b)
        /\ \A k \in 1 .. Len(a) + Len(b) :
             (a \o b)[k] = IF k <= Len(a) THEN a[k] ELSE b[k - Len(a)]
    BY <1>2, <1>3, ConcatProperties
  <2> HIDE DEF c
  <2> QED
    BY <1>2, <1>3, <2>1 DEF c
<1> HIDE DEF c
<1>6. x + y = Len(s) - 1 /\ x \in Nat /\ y \in Nat
  BY <1>1
<1>7. ASSUME NEW k \in 1 .. Len(s) - 1 PROVE c[k] = IF k < p THEN s[k] ELSE s[k + 1]
  <2>1. CASE k < p
    BY <1>1, <1>2, <1>5, <1>6, <2>1, SMTT(30)
  <2>2. CASE ~ (k < p)
    <3>1. k - x \in 1 .. Len(s) - p /\ p + (k - x) = k + 1 /\ ~ (k <= x) /\ k \in 1 .. x + y
      BY <1>1, <1>6, <2>2
    <3>2. c[k] = b[k - x] /\ b[k - x] = s[p + (k - x)]
      BY <1>3, <1>5, <3>1
    <3> QED
      BY <2>2, <3>1, <3>2
  <2> QED
    BY <2>1, <2>2
<1> HIDE DEF x, y
<1> QED
  BY <1>4, <1>5, <1>6, <1>7 DEF c

\* e is put into the items at p, or taken out from there.
PutAt(items, p, e, more) ==
  /\ more \in Seq(Nat) /\ Len(more) = Len(items) + 1
  /\ \A k \in 1 .. Len(items) + 1 :
       more[k] = IF k < p THEN items[k] ELSE IF k = p THEN e ELSE items[k - 1]
TakenFrom(items, p, less) ==
  /\ less \in Seq(Nat) /\ Len(less) = Len(items) - 1
  /\ \A k \in 1 .. Len(items) - 1 : less[k] = IF k < p THEN items[k] ELSE items[k + 1]

LEMMA InsertAtIs ==
  ASSUME NEW s \in Seq(Nat), NEW p \in 1 .. Len(s), NEW e \in Nat
  PROVE  PutAt(s, p, e, InsertAt(s, p, e))
<1> DEFINE a == SubSeq(s, 1, p - 1)
           b == SubSeq(s, p, Len(s))
           c == Append(a, e)
<1>1. p \in Nat /\ Len(s) \in Nat
  OBVIOUS
<1>2. a \in Seq(Nat) /\ Len(a) = p - 1 /\ \A k \in 1 .. p - 1 : a[k] = s[k]
  BY <1>1
<1>3. b \in Seq(Nat) /\ Len(b) = (Len(s) - p) + 1 /\ \A k \in 1 .. (Len(s) - p) + 1 : b[k] = s[(p + k) - 1]
  BY <1>1, SMTT(30)
<1> HIDE DEF a, b
<1>4. InsertAt(s, p, e) = a \o <<e>> \o b /\ c = a \o <<e>>
  <2>1. InsertAt(s, p, e) = a \o <<e>> \o b
    BY Zenon DEF InsertAt, a, b
  <2> QED
    BY <1>2, <2>1
<1>5. c \in Seq(Nat) /\ Len(c) = p /\ \A k \in 1 .. p : c[k] = IF k < p THEN s[k] ELSE e
  BY <1>1, <1>2
<1> HIDE DEF c
<1>6. InsertAt(s, p, e) = c \o b
  BY <1>4
<1> DEFINE d == c \o b
           y == (Len(s) - p) + 1
<1>7. /\ d \in Seq(Nat) /\ Len(d) = p + y
      /\ \A k \in 1 .. p + y : d[k] = IF k <= p THEN c[k] ELSE b[k - p]
  <2>1. /\ c \o b \in Seq(Nat) /\ Len(c \o b) = Len(c) + Len(b)
        /\ \A k \in 1 .. Len(c) + Len(b) :
             (c \o b)[k] = IF k <= Len(c) THEN c[k] ELSE b[k - Len(c)]
    BY <1>3, <1>5, ConcatProperties
  <2> HIDE DEF d
  <2> QED
    BY <1>3, <1>5, <2>1 DEF d
<1> HIDE DEF d
<1>8. p + y = Len(s) + 1 /\ y \in Nat
  BY <1>1
<1>9. ASSUME NEW k \in 1 .. Len(s) + 1
      PROVE  d[k] = IF k < p THEN s[k] ELSE IF k = p THEN e ELSE s[k - 1]
  <2>1. CASE k <= p
    BY <1>1, <1>5, <1>7, <1>8, <2>1, SMTT(30)
  <2>2. CASE ~ (k <= p)
    <3>1. k - p \in 1 .. (Len(s) - p) + 1 /\ (p + (k - p)) - 1 = k - 1 /\ k \in 1 .. p + y
      BY <1>1, <1>8, <2>2
    <3>2. d[k] = b[k - p] /\ b[k - p] = s[(p + (k - p)) - 1]
      BY <1>3, <1>7, <2>2, <3>1
    <3> QED
      BY <1>1, <2>2, <3>1, <3>2
  <2> QED
    BY <2>1, <2>2
<1> HIDE DEF y
<1> QED
  BY <1>6, <1>7, <1>8, <1>9 DEF d, PutAt

Injective(s) == \A a, b \in 1 .. Len(s) : s[a] = s[b] => a = b

\* The list holds its items by falling key, each once, and knows the first of
\* each key up to m.
ListOK(keys, m, items, first) ==
  /\ items \in Seq(Nat) /\ first \in [1 .. m -> Int]
  /\ \A a \in 1 .. Len(items) : keys[items[a]] \in 1 .. m
  /\ \A a, b \in 1 .. Len(items) : a < b => keys[items[b]] <= keys[items[a]]
  /\ Injective(items)
  /\ \A v \in 1 .. m : first[v] # NoItem =>
       \E a \in 1 .. Len(items) : items[a] = first[v] /\ keys[items[a]] = v
  /\ \A a \in 1 .. Len(items) :
       \E b \in 1 .. a : items[b] = first[keys[items[a]]] /\ keys[items[b]] = keys[items[a]]

\* lookup_lcp_index
LEMMA LookupIs ==
  ASSUME NEW m \in Nat, NEW first \in [1 .. m -> Int], NEW key \in 1 .. m
  PROVE  \/ /\ Lookup(first, key) = NoItem
            /\ \A x \in 1 .. key : first[x] = NoItem
         \/ \E v \in 1 .. key : /\ first[v] # NoItem /\ Lookup(first, key) = first[v]
                                /\ \A x \in v + 1 .. key : first[x] = NoItem
<1> DEFINE Body(k, x) == IF first[k] # NoItem THEN k ELSE x
           Loop(L) == L = [v \in 0 .. key |-> IF v = 0 \/ first[v] # NoItem THEN v ELSE L[v - 1]]
           W == [k \in 0 .. key |-> {x \in 0 .. k : /\ x = 0 \/ first[x] # NoItem
                                                    /\ \A y \in x + 1 .. k : first[y] = NoItem}]
           G == [k \in 1 .. key |-> [x \in Nat |-> Body(k, x)]]
<1>1. key \in Nat /\ 0 \in W[0]
  OBVIOUS
<1>2. ASSUME NEW k \in 1 .. key, NEW x \in W[k - 1] PROVE Body(k, x) \in W[k] /\ x \in Nat
  <2>1. /\ x \in 0 .. k - 1 /\ (x = 0 \/ first[x] # NoItem)
        /\ \A y \in x + 1 .. k - 1 : first[y] = NoItem
    OBVIOUS
  <2>2. CASE first[k] # NoItem
    BY <2>2
  <2>3. CASE first[k] = NoItem
    <3>1. x \in 0 .. k
      BY <2>1
    <3>2. \A y \in x + 1 .. k : y = k \/ y \in x + 1 .. k - 1
      OBVIOUS
    <3> QED
      BY <2>1, <2>3, <3>1, <3>2
  <2> QED
    BY <2>1, <2>2, <2>3
<1>3. \A k \in 1 .. key : \A x \in Nat : G[k][x] = Body(k, x)
  OBVIOUS
<1>4. \A L : Loop(L) => L[key] \in W[key]
  <2> SUFFICES ASSUME NEW L, Loop(L) PROVE L[key] \in W[key]
    OBVIOUS
  <2>1. L[0] = 0 /\ \A k \in 1 .. key : L[k] = Body(k, L[k - 1])
    OBVIOUS
  <2> HIDE DEF Loop, W, Body
  <2>2. L[0] \in W[0] /\ \A k \in 1 .. key : L[k - 1] \in W[k - 1] => L[k] \in W[k]
    BY <1>1, <1>2, <2>1
  <2>3. \A k \in 0 .. key : L[k] \in W[k]
    BY <1>1, <2>2, LoopKeeps
  <2> QED
    BY <2>3
<1>5. \E L : Loop(L)
  <2> HIDE DEF W, G, Body, Loop
  <2>1. \A k \in 1 .. key : \A x \in W[k - 1] : G[k][x] \in W[k]
    BY <1>2, <1>3
  <2>2. PICK L : Trace(key, 0, G, W, L)
    BY <1>1, <2>1, LoopGoes
  <2>3. ASSUME NEW k \in 1 .. key PROVE L[k] = Body(k, L[k - 1])
    <3>1. k - 1 \in 0 .. key
      OBVIOUS
    <3>2. L[k - 1] \in W[k - 1] /\ L[k] = G[k][L[k - 1]]
      BY <2>2, <3>1 DEF Trace
    <3> QED
      BY <1>2, <1>3, <3>2
  <2>4. ASSUME NEW k \in 0 .. key PROVE L[k] = IF k = 0 \/ first[k] # NoItem THEN k ELSE L[k - 1]
    <3>1. k = 0 \/ k \in 1 .. key
      OBVIOUS
    <3> QED
      BY <2>2, <2>3, <3>1 DEF Body, Trace
  <2>5. L = [k \in 0 .. key |-> L[k]]
    BY <2>2 DEF Trace
  <2>6. Loop(L)
    BY <2>4, <2>5 DEF Loop
  <2> QED
    BY <2>6
<1> DEFINE L0 == CHOOSE L : Loop(L)
<1>6. Lookup(first, key) = IF L0[key] = 0 THEN NoItem ELSE first[L0[key]]
  BY Zenon DEF Lookup
<1>7. L0[key] \in W[key]
  <2> HIDE DEF Loop, W
  <2> QED
    BY <1>4, <1>5
<1> HIDE DEF L0
<1>8. /\ L0[key] \in 0 .. key /\ (L0[key] = 0 \/ first[L0[key]] # NoItem)
      /\ \A y \in L0[key] + 1 .. key : first[y] = NoItem
  BY <1>7
<1> QED
  BY <1>6, <1>8

LEMMA PutHas ==
  ASSUME NEW items \in Seq(Nat), NEW p \in 1 .. Len(items) + 1, NEW e, NEW more, PutAt(items, p, e, more)
  PROVE  /\ \A k \in 1 .. Len(items) + 1 :
              \/ k = p /\ more[k] = e
              \/ \E a \in 1 .. Len(items) : /\ more[k] = items[a] /\ k = IF a < p THEN a ELSE a + 1
         /\ \A a \in 1 .. Len(items) : LET k == IF a < p THEN a ELSE a + 1
                                       IN  k \in 1 .. Len(items) + 1 /\ k # p /\ more[k] = items[a]
         /\ more[p] = e
<1>1. Len(items) \in Nat
  OBVIOUS
<1>2. ASSUME NEW k \in 1 .. Len(items) + 1
      PROVE  \/ k = p /\ more[k] = e
             \/ \E a \in 1 .. Len(items) : /\ more[k] = items[a] /\ k = IF a < p THEN a ELSE a + 1
  <2>1. CASE k < p
    <3>1. k \in 1 .. Len(items) /\ more[k] = items[k]
      BY <1>1, <2>1 DEF PutAt
    <3> QED
      BY <2>1, <3>1
  <2>2. CASE k = p
    BY <2>2 DEF PutAt
  <2>3. CASE k > p
    <3>1. k - 1 \in 1 .. Len(items) /\ ~ (k - 1 < p) /\ k = (k - 1) + 1 /\ ~ (k < p) /\ k # p
      BY <1>1, <2>3
    <3>2. more[k] = items[k - 1]
      BY <3>1 DEF PutAt
    <3> QED
      BY <3>1, <3>2
  <2> QED
    BY <2>1, <2>2, <2>3
<1>3. ASSUME NEW a \in 1 .. Len(items)
      PROVE  LET k == IF a < p THEN a ELSE a + 1
             IN  k \in 1 .. Len(items) + 1 /\ k # p /\ more[k] = items[a]
  <2>1. CASE a < p
    <3>1. a \in 1 .. Len(items) + 1 /\ a # p
      BY <1>1, <2>1
    <3> QED
      BY <2>1, <3>1 DEF PutAt
  <2>2. CASE ~ (a < p)
    <3>1. a + 1 \in 1 .. Len(items) + 1 /\ a + 1 # p /\ ~ (a + 1 < p) /\ (a + 1) - 1 = a
      BY <1>1, <2>2
    <3>2. more[a + 1] = items[a]
      BY <3>1 DEF PutAt
    <3> QED
      BY <2>2, <3>1, <3>2
  <2> QED
    BY <2>1, <2>2
<1> QED
  BY <1>2, <1>3 DEF PutAt

\* Where the item at a is when the one at p has been taken out.
Closed(a, p) == IF a < p THEN a ELSE a - 1

\* And where the item at k was.
Opened(k, p) == IF k < p THEN k ELSE k + 1

LEMMA TakenHas ==
  ASSUME NEW items \in Seq(Nat), NEW p \in 1 .. Len(items), NEW less, TakenFrom(items, p, less)
  PROVE  /\ \A k \in 1 .. Len(items) - 1 :
              /\ Opened(k, p) \in 1 .. Len(items) /\ Opened(k, p) # p
              /\ less[k] = items[Opened(k, p)] /\ k = Closed(Opened(k, p), p)
         /\ \A a \in 1 .. Len(items) : a # p =>
              Closed(a, p) \in 1 .. Len(items) - 1 /\ less[Closed(a, p)] = items[a]
<1>1. Len(items) \in Nat
  OBVIOUS
<1>2. ASSUME NEW k \in 1 .. Len(items) - 1
      PROVE  /\ Opened(k, p) \in 1 .. Len(items) /\ Opened(k, p) # p
             /\ less[k] = items[Opened(k, p)] /\ k = Closed(Opened(k, p), p)
  <2>1. CASE k < p
    <3>1. k \in 1 .. Len(items) /\ less[k] = items[k] /\ k # p
      BY <1>1, <2>1 DEF TakenFrom
    <3> QED
      BY <2>1, <3>1 DEF Closed, Opened
  <2>2. CASE ~ (k < p)
    <3>1. k + 1 \in 1 .. Len(items) /\ ~ (k + 1 < p) /\ k = (k + 1) - 1 /\ k + 1 # p
      BY <1>1, <2>2
    <3>2. less[k] = items[k + 1]
      BY <2>2 DEF TakenFrom
    <3> QED
      BY <3>1, <3>2 DEF Closed, Opened
  <2> QED
    BY <2>1, <2>2
<1>3. ASSUME NEW a \in 1 .. Len(items), a # p
      PROVE  Closed(a, p) \in 1 .. Len(items) - 1 /\ less[Closed(a, p)] = items[a]
  <2>1. CASE a < p
    <3>1. a \in 1 .. Len(items) - 1
      BY <1>1, <2>1
    <3> QED
      BY <2>1, <3>1 DEF TakenFrom, Closed
  <2>2. CASE ~ (a < p)
    <3>1. a - 1 \in 1 .. Len(items) - 1 /\ ~ (a - 1 < p) /\ (a - 1) + 1 = a
      BY <1>1, <1>3, <2>2
    <3>2. less[a - 1] = items[a]
      BY <3>1 DEF TakenFrom
    <3> QED
      BY <2>2, <3>1, <3>2 DEF Closed
  <2> QED
    BY <2>1, <2>2
<1> QED
  BY <1>2, <1>3

LEMMA PutOK ==
  ASSUME NEW m \in Nat, NEW keys, NEW items, NEW first, ListOK(keys, m, items, first),
         NEW e \in Nat, keys[e] \in 1 .. m, \A a \in 1 .. Len(items) : items[a] # e,
         NEW p \in 1 .. Len(items) + 1,
         \A a \in 1 .. p - 1 : keys[items[a]] > keys[e],
         \A a \in p .. Len(items) : keys[items[a]] <= keys[e],
         NEW more, PutAt(items, p, e, more)
  PROVE  ListOK(keys, m, more, [first EXCEPT ![keys[e]] = e])
<1> DEFINE key == keys[e]
           now == [first EXCEPT ![keys[e]] = e]
           M == Len(items)
           To(a) == IF a < p THEN a ELSE a + 1
<1>1. /\ items \in Seq(Nat) /\ first \in [1 .. m -> Int] /\ M \in Nat
      /\ \A a \in 1 .. M : keys[items[a]] \in 1 .. m
  BY DEF ListOK
<1>2. /\ \A k \in 1 .. M + 1 : \/ k = p /\ more[k] = e
                               \/ \E a \in 1 .. M : more[k] = items[a] /\ k = To(a)
      /\ \A a \in 1 .. M : To(a) \in 1 .. M + 1 /\ To(a) # p /\ more[To(a)] = items[a]
      /\ more[p] = e /\ p \in 1 .. M + 1
  BY <1>1, PutHas
<1>3. more \in Seq(Nat) /\ Len(more) = M + 1
  BY DEF PutAt
<1>4. key \in 1 .. m /\ now \in [1 .. m -> Int] /\ now[key] = e /\ \A v \in 1 .. m : v # key => now[v] = first[v]
  BY <1>1
<1>5. /\ \A a \in 1 .. M : a < p => keys[items[a]] > key
      /\ \A a \in 1 .. M : ~ (a < p) => keys[items[a]] <= key
  <2>1. \A a \in 1 .. M : (a < p => a \in 1 .. p - 1) /\ (~ (a < p) => a \in p .. M)
    BY <1>1
  <2> QED
    BY <2>1
<1>6. /\ \A a \in 1 .. M : items[a] # e
      /\ \A a, b \in 1 .. M : a < b => keys[items[b]] <= keys[items[a]]
      /\ \A a, b \in 1 .. M : items[a] = items[b] => a = b
      /\ \A v \in 1 .. m : first[v] # NoItem =>
           \E a \in 1 .. M : items[a] = first[v] /\ keys[items[a]] = v
      /\ \A a \in 1 .. M :
           \E b \in 1 .. a : items[b] = first[keys[items[a]]] /\ keys[items[b]] = keys[items[a]]
  BY DEF ListOK, Injective
<1>7. \A a, b \in 1 .. M : (To(a) < To(b) <=> a < b) /\ (To(a) < p <=> a < p) /\ (p < To(a) <=> ~ (a < p))
  BY <1>1, SMTT(30)
<1> HIDE DEF key, now, M, To
<1>8. \A k \in 1 .. M + 1 : keys[more[k]] \in 1 .. m
  BY <1>1, <1>2, <1>4 DEF key
<1>9. ASSUME NEW k \in 1 .. M + 1, NEW h \in 1 .. M + 1, k < h PROVE keys[more[h]] <= keys[more[k]]
  <2>1. CASE k = p
    <3>1. PICK b \in 1 .. M : more[h] = items[b] /\ h = To(b)
      BY <1>2, <1>9, <2>1
    <3>2. keys[items[b]] <= key
      BY <1>5, <1>7, <1>9, <2>1, <3>1
    <3> QED
      BY <1>2, <2>1, <3>1, <3>2 DEF key
  <2>2. CASE k # p
    <3>1. PICK a \in 1 .. M : more[k] = items[a] /\ k = To(a)
      BY <1>2, <2>2
    <3>2. CASE h = p
      <4>1. a < p
        BY <1>7, <1>9, <3>1, <3>2
      <4>2. keys[items[a]] > key
        BY <1>5, <4>1
      <4>3. key \in Nat /\ keys[items[a]] \in Nat
        BY <1>1, <1>4
      <4>4. key <= keys[items[a]]
        BY <4>2, <4>3
      <4> QED
        BY <1>2, <3>1, <3>2, <4>4 DEF key
    <3>3. CASE h # p
      <4>1. PICK b \in 1 .. M : more[h] = items[b] /\ h = To(b)
        BY <1>2, <3>3
      <4> QED
        BY <1>6, <1>7, <1>9, <3>1, <4>1
    <3> QED
      BY <3>2, <3>3
  <2> QED
    BY <2>1, <2>2
<1>10. \A k, h \in 1 .. M + 1 : more[k] = more[h] => k = h
  BY <1>2, <1>6
<1>11. ASSUME NEW v \in 1 .. m, now[v] # NoItem
       PROVE  \E k \in 1 .. M + 1 : more[k] = now[v] /\ keys[more[k]] = v
  <2>1. CASE v = key
    BY <1>2, <1>4, <2>1 DEF key
  <2>2. CASE v # key
    <3>1. PICK a \in 1 .. M : items[a] = first[v] /\ keys[items[a]] = v
      BY <1>4, <1>6, <1>11, <2>2
    <3>2. now[v] = first[v]
      BY <1>4, <2>2
    <3>3. To(a) \in 1 .. M + 1 /\ more[To(a)] = items[a]
      BY <1>2
    <3> QED
      BY <3>1, <3>2, <3>3
  <2> QED
    BY <2>1, <2>2
<1>12. ASSUME NEW k \in 1 .. M + 1
       PROVE  \E h \in 1 .. k : more[h] = now[keys[more[k]]] /\ keys[more[h]] = keys[more[k]]
  <2>1. CASE k = p
    <3>1. k \in 1 .. k
      OBVIOUS
    <3> QED
      BY <1>2, <1>4, <2>1, <3>1 DEF key
  <2>2. CASE k # p
    <3>1. PICK a \in 1 .. M : more[k] = items[a] /\ k = To(a)
      BY <1>2, <2>2
    <3>2. CASE keys[items[a]] = key
      <4>1. ~ (a < p)
        <5>1. key \in Nat
          BY <1>4
        <5> QED
          BY <1>5, <3>2, <5>1
      <4>2. p \in 1 .. k
        BY <1>2, <1>7, <3>1, <4>1
      <4> QED
        BY <1>2, <1>4, <3>1, <3>2, <4>2 DEF key
    <3>3. CASE keys[items[a]] # key
      <4>1. PICK b \in 1 .. a : items[b] = first[keys[items[a]]] /\ keys[items[b]] = keys[items[a]]
        BY <1>6
      <4>2. b \in 1 .. M /\ ~ (a < b)
        BY <1>1
      <4>3. To(b) \in 1 .. M + 1 /\ more[To(b)] = items[b] /\ ~ (To(a) < To(b))
        BY <1>2, <1>7, <4>2
      <4>4. To(b) \in 1 .. k
        BY <1>1, <3>1, <4>3
      <4>5. now[keys[items[a]]] = first[keys[items[a]]]
        BY <1>1, <1>4, <3>3
      <4> QED
        BY <3>1, <4>1, <4>3, <4>4, <4>5
    <3> QED
      BY <3>2, <3>3
  <2> QED
    BY <2>1, <2>2
<1>13. ListOK(keys, m, more, now)
  BY <1>3, <1>4, <1>8, <1>9, <1>10, <1>11, <1>12 DEF ListOK, Injective
<1> QED
  BY <1>13 DEF now

LEMMA TakeOK ==
  ASSUME NEW m \in Nat, NEW keys, NEW items, NEW first, ListOK(keys, m, items, first),
         NEW p \in 1 .. Len(items), NEW less, TakenFrom(items, p, less),
         NEW heir, heir = IF p < Len(items) /\ keys[items[p + 1]] = keys[items[p]]
                          THEN items[p + 1] ELSE NoItem,
         NEW now, now = IF first[keys[items[p]]] # items[p] THEN first
                        ELSE [first EXCEPT ![keys[items[p]]] = heir]
  PROVE  ListOK(keys, m, less, now)
<1> DEFINE e == items[p]
           key == keys[e]
           M == Len(items)
           To(a) == Closed(a, p)
<1>1. /\ items \in Seq(Nat) /\ first \in [1 .. m -> Int] /\ M \in Nat /\ p \in 1 .. M
      /\ \A a \in 1 .. M : keys[items[a]] \in 1 .. m /\ items[a] \in Nat
  <2>1. items \in Seq(Nat) /\ first \in [1 .. m -> Int] /\ \A a \in 1 .. M : keys[items[a]] \in 1 .. m
    BY DEF ListOK
  <2>2. M \in Nat /\ \A a \in 1 .. M : items[a] \in Nat
    BY <2>1, SMTT(30)
  <2> QED
    BY <2>1, <2>2
<1>2. /\ \A k \in 1 .. M - 1 : \E a \in 1 .. M : a # p /\ less[k] = items[a] /\ k = To(a)
      /\ \A a \in 1 .. M : a # p => To(a) \in 1 .. M - 1 /\ less[To(a)] = items[a]
  <2>1. items \in Seq(Nat) /\ p \in 1 .. Len(items)
    BY <1>1
  <2>2. /\ \A k \in 1 .. M - 1 : /\ Opened(k, p) \in 1 .. M /\ Opened(k, p) # p
                                 /\ less[k] = items[Opened(k, p)] /\ k = To(Opened(k, p))
        /\ \A a \in 1 .. M : a # p => To(a) \in 1 .. M - 1 /\ less[To(a)] = items[a]
    BY <2>1, TakenHas
  <2> QED
    BY <2>2
<1>3. less \in Seq(Nat) /\ Len(less) = M - 1
  BY DEF TakenFrom
<1>4. /\ key \in 1 .. m /\ now \in [1 .. m -> Int] /\ \A v \in 1 .. m : v # key => now[v] = first[v]
      /\ now[key] = IF first[key] # e THEN first[key] ELSE heir
  <2>1. heir \in Int
    <3>1. NoItem \in Int
      BY DEF NoItem
    <3>2. p < M => p + 1 \in 1 .. M
      BY <1>1
    <3> QED
      BY <1>1, <3>1, <3>2
  <2>2. key \in 1 .. m
    BY <1>1
  <2> QED
    BY <1>1, <2>1, <2>2
<1>5. /\ \A a, b \in 1 .. M : a < b => keys[items[b]] <= keys[items[a]]
      /\ \A a, b \in 1 .. M : items[a] = items[b] => a = b
      /\ \A v \in 1 .. m : first[v] # NoItem =>
           \E a \in 1 .. M : items[a] = first[v] /\ keys[items[a]] = v
      /\ \A a \in 1 .. M :
           \E b \in 1 .. a : items[b] = first[keys[items[a]]] /\ keys[items[b]] = keys[items[a]]
  BY DEF ListOK, Injective
<1>6. \A a, b \in 1 .. M : a # p /\ b # p => (To(a) < To(b) <=> a < b)
  <2> SUFFICES ASSUME NEW a \in 1 .. M, NEW b \in 1 .. M, a # p, b # p
               PROVE  To(a) < To(b) <=> a < b
    OBVIOUS
  <2>1. /\ To(a) = (IF a < p THEN a ELSE a - 1)
        /\ To(b) = (IF b < p THEN b ELSE b - 1)
    BY DEF Closed
  <2>2. a \in Nat /\ b \in Nat /\ p \in Nat
    BY <1>1
  <2> QED
    BY <2>1, <2>2
<1>61. p < M => p + 1 \in 1 .. M /\ p + 1 # p /\ To(p + 1) = p
  BY <1>1 DEF Closed
<1>62. heir # NoItem => p < M /\ keys[items[p + 1]] = key /\ heir = items[p + 1]
  OBVIOUS
<1>63. p < M /\ keys[items[p + 1]] = key => heir = items[p + 1]
  OBVIOUS
<1> HIDE DEF M, To
<1>7. \A k \in 1 .. M - 1 : keys[less[k]] \in 1 .. m
  BY <1>1, <1>2
<1>8. \A k, h \in 1 .. M - 1 : k < h => keys[less[h]] <= keys[less[k]]
  BY <1>2, <1>5, <1>6
<1>9. \A k, h \in 1 .. M - 1 : less[k] = less[h] => k = h
  BY <1>2, <1>5
<1>10. ASSUME NEW v \in 1 .. m, now[v] # NoItem
       PROVE  \E k \in 1 .. M - 1 : less[k] = now[v] /\ keys[less[k]] = v
  <2>1. CASE v = key /\ first[key] = e
    <3>1. now[v] = heir
      BY <1>4, <2>1
    <3>2. /\ p < M /\ keys[items[p + 1]] = key /\ heir = items[p + 1]
          /\ p + 1 \in 1 .. M /\ p + 1 # p
      BY <1>10, <1>61, <1>62, <3>1
    <3> QED
      BY <1>2, <2>1, <3>1, <3>2
  <2>2. CASE ~ (v = key /\ first[key] = e)
    <3>1. now[v] = first[v]
      BY <1>4, <2>2
    <3>2. PICK a \in 1 .. M : items[a] = first[v] /\ keys[items[a]] = v
      BY <1>5, <1>10, <3>1
    <3>3. a # p
      BY <2>2, <3>2
    <3> QED
      BY <1>2, <3>1, <3>2, <3>3, SMTT(30)
  <2> QED
    BY <2>1, <2>2
<1>11. ASSUME NEW k \in 1 .. M - 1
       PROVE  \E h \in 1 .. k : less[h] = now[keys[less[k]]] /\ keys[less[h]] = keys[less[k]]
  <2>1. PICK a \in 1 .. M : a # p /\ less[k] = items[a] /\ k = To(a)
    BY <1>2
  <2>2. PICK b \in 1 .. a : items[b] = first[keys[items[a]]] /\ keys[items[b]] = keys[items[a]]
    BY <1>5
  <2>3. b \in 1 .. M /\ ~ (a < b)
    BY <1>1
  <2>4. CASE b = p
    <3>0. keys[items[a]] = key
      BY <2>2, <2>4
    <3>01. first[key] = e
      BY <2>2, <2>4, <3>0
    <3>02. a \in Nat /\ b \in Nat /\ b = p /\ a # p /\ ~ (a < b)
      BY <2>1, <2>3, <2>4
    <3>1. keys[items[a]] = key /\ first[key] = e /\ p < a
      BY <3>0, <3>01, <3>02
    <3>2. p < M /\ p + 1 \in 1 .. M /\ p + 1 # p /\ p < p + 1 /\ ~ (a < p + 1)
      BY <1>1, <3>1, SMTT(30)
    <3>3. keys[items[p + 1]] <= key /\ (p + 1 < a => keys[items[a]] <= keys[items[p + 1]])
      BY <1>1, <1>5, <3>2
    <3>4. keys[items[p + 1]] = key
      <4>1. keys[items[p + 1]] \in Nat /\ key \in Nat
        BY <1>1, <1>4, <3>2, SMTT(30)
      <4>2. CASE a = p + 1
        BY <3>1, <4>2
      <4>3. CASE a # p + 1
        <5>1. p + 1 < a
          BY <1>1, <3>2, <4>3
        <5> QED
          BY <3>1, <3>3, <4>1, <5>1
      <4> QED
        BY <4>2, <4>3
    <3>5. now[key] = items[p + 1]
      BY <1>4, <1>63, <3>1, <3>2, <3>4
    <3>6. To(p + 1) \in 1 .. M - 1 /\ less[To(p + 1)] = items[p + 1] /\ ~ (To(a) < To(p + 1))
      BY <1>2, <1>6, <2>1, <3>2
    <3>7. To(p + 1) \in 1 .. k
      BY <1>1, <2>1, <3>6
    <3> QED
      BY <2>1, <3>1, <3>4, <3>5, <3>6, <3>7
  <2>5. CASE b # p
    <3>1. now[keys[items[a]]] = first[keys[items[a]]]
      <4>1. CASE keys[items[a]] = key
        <5>1. first[key] # e
          BY <1>1, <1>5, <2>2, <2>3, <2>5, <4>1
        <5> QED
          BY <1>4, <4>1, <5>1
      <4>2. CASE keys[items[a]] # key
        BY <1>1, <1>4, <4>2
      <4> QED
        BY <4>1, <4>2
    <3>2. To(b) \in 1 .. M - 1 /\ less[To(b)] = items[b] /\ ~ (To(a) < To(b))
      BY <1>2, <1>6, <2>1, <2>3, <2>5
    <3>3. To(b) \in 1 .. k
      BY <1>1, <2>1, <3>2
    <3> QED
      BY <2>1, <2>2, <3>1, <3>2, <3>3
  <2> QED
    BY <2>4, <2>5
<1> QED
  BY <1>3, <1>4, <1>7, <1>8, <1>9, <1>10, <1>11, ZenonT(40) DEF ListOK, Injective

-----------------------------------------------------------------------------
(* The queues of max_lcp and bheap, whatever the order of their items.     *)

LEMMA TakenSet ==
  ASSUME NEW items \in Seq(Nat), NEW p \in 1 .. Len(items), NEW less, TakenFrom(items, p, less),
         Injective(items)
  PROVE  Injective(less) /\ \A o : Contains(less, o) <=> Contains(items, o) /\ o # items[p]
<1> DEFINE M == Len(items)
           To(a) == Closed(a, p)
           Of(k) == Opened(k, p)
<1>1. /\ \A k \in 1 .. M - 1 : Of(k) \in 1 .. M /\ Of(k) # p /\ less[k] = items[Of(k)] /\ k = To(Of(k))
      /\ \A a \in 1 .. M : a # p => To(a) \in 1 .. M - 1 /\ less[To(a)] = items[a]
  BY TakenHas
<1>2. Len(less) = M - 1 /\ p \in 1 .. M
  BY DEF TakenFrom
<1> HIDE DEF M, To, Of
<1>3. \A a, b \in 1 .. M : items[a] = items[b] => a = b
  BY DEF Injective, M
<1>4. \A k, h \in 1 .. M - 1 : less[k] = less[h] => k = h
  BY <1>1, <1>3
<1>5. ASSUME NEW o, Contains(less, o) PROVE Contains(items, o) /\ o # items[p]
  <2>1. PICK k \in 1 .. M - 1 : less[k] = o
    BY <1>2, <1>5 DEF Contains
  <2>2. Of(k) \in 1 .. M /\ Of(k) # p /\ items[Of(k)] = o
    BY <1>1, <2>1
  <2> QED
    BY <1>2, <1>3, <2>2 DEF Contains, M
<1>6. ASSUME NEW o, Contains(items, o), o # items[p] PROVE Contains(less, o)
  <2>1. PICK a \in 1 .. M : items[a] = o
    BY <1>6 DEF Contains, M
  <2>2. To(a) \in 1 .. M - 1 /\ less[To(a)] = o
    BY <1>1, <1>6, <2>1
  <2> QED
    BY <1>2, <2>2 DEF Contains
<1> QED
  BY <1>2, <1>4, <1>5, <1>6 DEF Injective

LEMMA PutSet ==
  ASSUME NEW items \in Seq(Nat), NEW p \in 1 .. Len(items) + 1, NEW e, NEW more, PutAt(items, p, e, more),
         Injective(items), ~ Contains(items, e)
  PROVE  Injective(more) /\ \A o : Contains(more, o) <=> Contains(items, o) \/ o = e
<1> DEFINE M == Len(items)
           To(a) == IF a < p THEN a ELSE a + 1
<1>1. /\ \A k \in 1 .. M + 1 : \/ k = p /\ more[k] = e
                               \/ \E a \in 1 .. M : more[k] = items[a] /\ k = To(a)
      /\ \A a \in 1 .. M : To(a) \in 1 .. M + 1 /\ To(a) # p /\ more[To(a)] = items[a]
      /\ more[p] = e /\ p \in 1 .. M + 1
  BY PutHas
<1>2. Len(more) = M + 1
  BY DEF PutAt
<1>3. \A a \in 1 .. M : items[a] # e
  BY DEF Contains
<1> HIDE DEF M, To
<1>4. \A a, b \in 1 .. M : items[a] = items[b] => a = b
  BY DEF Injective, M
<1>5. \A k, h \in 1 .. M + 1 : more[k] = more[h] => k = h
  BY <1>1, <1>3, <1>4
<1>6. ASSUME NEW o, Contains(more, o) PROVE Contains(items, o) \/ o = e
  <2>1. PICK k \in 1 .. M + 1 : more[k] = o
    BY <1>2, <1>6 DEF Contains
  <2> QED
    BY <1>1, <2>1 DEF Contains, M
<1>7. ASSUME NEW o, Contains(items, o) \/ o = e PROVE Contains(more, o)
  <2>1. CASE Contains(items, o)
    <3>1. PICK a \in 1 .. M : items[a] = o
      BY <2>1 DEF Contains, M
    <3> QED
      BY <1>1, <1>2, <3>1 DEF Contains
  <2>2. CASE o = e
    BY <1>1, <1>2, <2>2 DEF Contains
  <2> QED
    BY <1>7, <2>1, <2>2
<1> QED
  BY <1>2, <1>5, <1>6, <1>7 DEF Injective

LEMMA IndexIs ==
  ASSUME NEW s, NEW e, Contains(s, e)
  PROVE  IndexIn(s, e) \in 1 .. Len(s) /\ s[IndexIn(s, e)] = e
BY DEF Contains, IndexIn

\* The largest key that there can be.
Cap == MaxLCP(LCPFromPLCP(sa, plcp))

QueueOK(keys, q) ==
  /\ q \in [items : Seq(Nat), index : [1 .. Cap -> Int]]
  /\ Injective(q.items) /\ \A a \in 1 .. Len(q.items) : q.items[a] \in 1 .. n - 1
  /\ strategy = "max_lcp" => ListOK(keys, Cap, q.items, q.index)

Listed == strategy \in {"max_lcp", "bheap"}

LEMMA RemovedIs ==
  ASSUME Listed, Cap \in Nat, NEW keys, NEW q, QueueOK(keys, q), NEW r
  PROVE  /\ QueueOK(keys, Removed(keys, q, r))
         /\ \A o : Contains(Removed(keys, q, r).items, o) <=> Contains(q.items, o) /\ o # r
<1>1. CASE ~ Contains(q.items, r)
  <2>1. Removed(keys, q, r) = q
    BY <1>1 DEF Removed
  <2> QED
    BY <1>1, <2>1
<1>2. CASE Contains(q.items, r)
  <2> DEFINE items == q.items
             p == IndexIn(items, r)
             less == RemoveAt(items, p)
             next == IF p < Len(items) THEN items[p + 1] ELSE NoItem
             heir == IF next # NoItem /\ keys[next] = keys[r] THEN next ELSE NoItem
             now == IF q.index[keys[r]] # r THEN q.index ELSE [q.index EXCEPT ![keys[r]] = heir]
  <2>1. /\ items \in Seq(Nat) /\ q.index \in [1 .. Cap -> Int] /\ Injective(items)
        /\ \A a \in 1 .. Len(items) : items[a] \in 1 .. n - 1
        /\ q = [items |-> items, index |-> q.index]
    BY DEF QueueOK
  <2>2. p \in 1 .. Len(items) /\ items[p] = r
    BY <1>2, IndexIs
  <2>3. Removed(keys, q, r) = [items |-> less, index |-> IF strategy = "max_lcp" THEN now ELSE q.index]
    <3>1. CASE strategy = "max_lcp"
      <4>1. Removed(keys, q, r) = ListRemove(keys, q, r)
        BY <1>2, <3>1 DEF Removed
      <4> QED
        BY Zenon, <3>1, <4>1 DEF ListRemove
    <3>2. CASE strategy = "bheap"
      <4>1. Removed(keys, q, r) = [q EXCEPT !.items = less]
        BY <1>2, <3>2 DEF Removed
      <4> QED
        BY <2>1, <3>2, <4>1
    <3> QED
      BY <3>1, <3>2 DEF Listed
  <2> HIDE DEF less, now, heir, next, p
  <2>4. TakenFrom(items, p, less)
    <3>1. /\ less \in Seq(Nat) /\ Len(less) = Len(items) - 1
          /\ \A k \in 1 .. Len(items) - 1 : less[k] = IF k < p THEN items[k] ELSE items[k + 1]
      BY <2>1, <2>2, RemoveAtIs DEF less
    <3> QED
      BY <3>1 DEF TakenFrom
  <2>5. Injective(less) /\ \A o : Contains(less, o) <=> Contains(items, o) /\ o # items[p]
    BY <2>1, <2>2, <2>4, TakenSet
  <2>6. \A k \in 1 .. Len(less) : less[k] \in 1 .. n - 1
    <3> SUFFICES ASSUME NEW k \in 1 .. Len(less) PROVE less[k] \in 1 .. n - 1
      OBVIOUS
    <3>1. Contains(less, less[k])
      BY DEF Contains
    <3>2. PICK a \in 1 .. Len(items) : items[a] = less[k]
      BY <2>5, <3>1 DEF Contains
    <3> QED
      BY <2>1, <3>2
  <2>7. less \in Seq(Nat)
    BY <2>4 DEF TakenFrom
  <2>8. ASSUME strategy = "max_lcp" PROVE ListOK(keys, Cap, less, now) /\ now \in [1 .. Cap -> Int]
    <3>1. ListOK(keys, Cap, items, q.index)
      BY <2>8 DEF QueueOK
    <3>2. heir = IF p < Len(items) /\ keys[items[p + 1]] = keys[items[p]] THEN items[p + 1] ELSE NoItem
      <4>1. p < Len(items) => items[p + 1] # NoItem
        <5>1. p < Len(items) => items[p + 1] \in Nat
          BY <2>1, <2>2
        <5> QED
          BY <5>1 DEF NoItem
      <4> QED
        BY <2>2, <4>1 DEF heir, next
    <3>3. now = IF q.index[keys[items[p]]] # items[p] THEN q.index
                ELSE [q.index EXCEPT ![keys[items[p]]] = heir]
      BY <2>2 DEF now
    <3>4. ListOK(keys, Cap, less, now)
      BY <2>2, <2>4, <3>1, <3>2, <3>3, TakeOK
    <3> QED
      BY <3>4 DEF ListOK
  <2>9. QueueOK(keys, Removed(keys, q, r))
    <3> DEFINE idx == IF strategy = "max_lcp" THEN now ELSE q.index
    <3>1. idx \in [1 .. Cap -> Int] /\ (strategy = "max_lcp" => ListOK(keys, Cap, less, idx))
      BY <2>1, <2>8
    <3> HIDE DEF idx
    <3>2. QueueOK(keys, [items |-> less, index |-> idx])
      BY <2>5, <2>6, <2>7, <3>1 DEF QueueOK
    <3> QED
      BY <2>3, <3>2 DEF idx
  <2> QED
    BY <2>2, <2>3, <2>5, <2>9
<1> QED
  BY <1>1, <1>2

LEMMA KeysMatter ==
  ASSUME NEW keys, NEW lower, NEW q, QueueOK(keys, q),
         \A o : Contains(q.items, o) => lower[o] = keys[o]
  PROVE  QueueOK(lower, q)
<1> DEFINE items == q.items
           first == q.index
<1>1. \A a \in 1 .. Len(items) : lower[items[a]] = keys[items[a]]
  BY DEF Contains
<1> HIDE DEF items, first
<1>2. ASSUME ListOK(keys, Cap, items, first) PROVE ListOK(lower, Cap, items, first)
  <2>1. /\ items \in Seq(Nat) /\ first \in [1 .. Cap -> Int]
        /\ \A a \in 1 .. Len(items) : keys[items[a]] \in 1 .. Cap
        /\ \A a, b \in 1 .. Len(items) : a < b => keys[items[b]] <= keys[items[a]]
        /\ Injective(items)
        /\ \A v \in 1 .. Cap : first[v] # NoItem =>
             \E a \in 1 .. Len(items) : items[a] = first[v] /\ keys[items[a]] = v
    BY <1>2 DEF ListOK
  <2>2. ASSUME NEW a \in 1 .. Len(items)
        PROVE  \E b \in 1 .. a : items[b] = first[lower[items[a]]] /\ lower[items[b]] = lower[items[a]]
    <3>1. PICK b \in 1 .. a : items[b] = first[keys[items[a]]] /\ keys[items[b]] = keys[items[a]]
      BY <1>2 DEF ListOK
    <3>2. b \in 1 .. Len(items)
      BY <2>1
    <3> QED
      BY <1>1, <3>1, <3>2
  <2>3. /\ \A a \in 1 .. Len(items) : lower[items[a]] \in 1 .. Cap
        /\ \A a, b \in 1 .. Len(items) : a < b => lower[items[b]] <= lower[items[a]]
        /\ \A v \in 1 .. Cap : first[v] # NoItem =>
             \E a \in 1 .. Len(items) : items[a] = first[v] /\ lower[items[a]] = v
    BY <1>1, <2>1
  <2> QED
    BY <2>1, <2>2, <2>3 DEF ListOK
<1> QED
  BY <1>2 DEF QueueOK, items, first

LEMMA InsertedIs ==
  ASSUME Listed, Cap \in Nat, NEW keys, NEW q, QueueOK(keys, q), NEW r \in 1 .. n - 1, n \in Nat,
         ~ Contains(q.items, r), keys[r] \in 1 .. Cap
  PROVE  /\ QueueOK(keys, Inserted(keys, q, r))
         /\ \A o : Contains(Inserted(keys, q, r).items, o) <=> Contains(q.items, o) \/ o = r
<1> DEFINE items == q.items
           first == q.index
           key == keys[r]
           M == Len(items)
<1>1. /\ items \in Seq(Nat) /\ first \in [1 .. Cap -> Int] /\ Injective(items) /\ M \in Nat
      /\ \A a \in 1 .. M : items[a] \in 1 .. n - 1
      /\ q = [items |-> items, index |-> first] /\ r \in Nat
  BY DEF QueueOK
<1> DEFINE plus == Append(items, r)
<1>2. PutAt(items, M + 1, r, plus)
  <2>1. plus \in Seq(Nat) /\ Len(plus) = M + 1 /\ plus[M + 1] = r /\ \A k \in 1 .. M : plus[k] = items[k]
    BY <1>1
  <2> HIDE DEF plus
  <2>2. ASSUME NEW k \in 1 .. M + 1
        PROVE  plus[k] = IF k < M + 1 THEN items[k] ELSE IF k = M + 1 THEN r ELSE items[k - 1]
    <3>1. k = M + 1 \/ (k \in 1 .. M /\ k < M + 1)
      BY <1>1, SMTT(30)
    <3> QED
      BY <1>1, <2>1, <3>1
  <2> QED
    BY <2>1, <2>2 DEF PutAt
<1> HIDE DEF plus
<1>3. \E p \in 1 .. M + 1 : \E more, idx :
        /\ PutAt(items, p, r, more) /\ idx \in [1 .. Cap -> Int]
        /\ Inserted(keys, q, r) = [items |-> more, index |-> idx]
        /\ strategy = "max_lcp" => ListOK(keys, Cap, more, idx)
  <2>1. CASE strategy = "bheap"
    <3>1. Inserted(keys, q, r) = [q EXCEPT !.items = plus]
      BY <2>1 DEF Inserted, plus
    <3>2. Inserted(keys, q, r) = [items |-> plus, index |-> first]
      BY <1>1, <3>1
    <3>3. M + 1 \in 1 .. M + 1
      BY <1>1
    <3> QED
      BY <1>1, <1>2, <2>1, <3>2, <3>3
  <2>2. CASE strategy = "max_lcp"
    <3> DEFINE at == Lookup(first, key)
               idx == [first EXCEPT ![key] = r]
               ins == InsertAt(items, IndexIn(items, at), r)
    <3>1. ListOK(keys, Cap, items, first)
      BY <2>2 DEF QueueOK
    <3>2. Inserted(keys, q, r) = [items |-> IF at = NoItem THEN plus ELSE ins, index |-> idx]
      <4>1. Inserted(keys, q, r) = ListInsert(keys, q, r)
        BY <2>2 DEF Inserted
      <4> QED
        BY Zenon, <4>1 DEF ListInsert, plus
    <3>3. /\ \A a, b \in 1 .. M : a < b => keys[items[b]] <= keys[items[a]]
          /\ \A a \in 1 .. M : keys[items[a]] \in 1 .. Cap
          /\ \A a \in 1 .. M :
               \E b \in 1 .. a : items[b] = first[keys[items[a]]] /\ keys[items[b]] = keys[items[a]]
          /\ \A v \in 1 .. Cap : first[v] # NoItem =>
               \E a \in 1 .. M : items[a] = first[v] /\ keys[items[a]] = v
          /\ \A a, b \in 1 .. M : items[a] = items[b] => a = b
      BY <3>1 DEF ListOK, Injective
    <3>4. \A a \in 1 .. M : first[keys[items[a]]] # NoItem
      <4> SUFFICES ASSUME NEW a \in 1 .. M PROVE first[keys[items[a]]] # NoItem
        OBVIOUS
      <4>1. PICK b \in 1 .. a : items[b] = first[keys[items[a]]]
        BY <3>3
      <4>2. b \in 1 .. M
        BY <1>1
      <4>3. items[b] \in Nat
        BY <1>1, <4>2
      <4> QED
        BY <4>1, <4>3 DEF NoItem
    <3>5. \A a \in 1 .. M : items[a] # r
      BY DEF Contains
    <3>6. idx \in [1 .. Cap -> Int]
      BY <1>1
    <3> HIDE DEF ins, idx
    <3>7. CASE at = NoItem /\ \A x \in 1 .. key : first[x] = NoItem
      <4>1. \A a \in 1 .. M : keys[items[a]] > key
        <5> SUFFICES ASSUME NEW a \in 1 .. M PROVE keys[items[a]] > key
          OBVIOUS
        <5>1. keys[items[a]] \in 1 .. Cap /\ keys[items[a]] \notin 1 .. key
          BY <3>3, <3>4, <3>7
        <5> HIDE DEF key
        <5>2. key \in 1 .. Cap
          BY DEF key
        <5> QED
          BY <5>1, <5>2
      <4>2. \A a \in 1 .. (M + 1) - 1 : a \in 1 .. M
        BY <1>1
      <4>3. \A a \in M + 1 .. M : FALSE
        BY <1>1
      <4>4. M + 1 \in 1 .. Len(items) + 1
        BY <1>1
      <4>5. ListOK(keys, Cap, plus, [first EXCEPT ![keys[r]] = r])
        BY <1>1, <1>2, <3>1, <3>5, <4>1, <4>2, <4>3, <4>4, PutOK
      <4>6. ListOK(keys, Cap, plus, idx)
        BY <4>5 DEF idx
      <4>7. Inserted(keys, q, r) = [items |-> plus, index |-> idx]
        BY <3>2, <3>7
      <4> HIDE DEF M, items, first
      <4> QED
        BY <1>2, <3>6, <4>4, <4>6, <4>7 DEF M
    <3>8. CASE \E v \in 1 .. key : /\ first[v] # NoItem /\ at = first[v]
                                   /\ \A x \in v + 1 .. key : first[x] = NoItem
      <4>1. PICK v \in 1 .. key : /\ first[v] # NoItem /\ at = first[v]
                                  /\ \A x \in v + 1 .. key : first[x] = NoItem
        BY <3>8
      <4>2. v \in 1 .. Cap /\ v \in Nat /\ key \in Nat /\ v <= key /\ Cap \in Nat
        OBVIOUS
      <4>3. PICK a0 \in 1 .. M : items[a0] = at /\ keys[items[a0]] = v
        BY <3>3, <4>1, <4>2
      <4> DEFINE p == IndexIn(items, at)
      <4>4. p \in 1 .. M /\ items[p] = at /\ keys[items[p]] = v
        <5>1. Contains(items, at)
          BY <4>3 DEF Contains
        <5> QED
          BY <4>3, <5>1, IndexIs
      <4>45. ins = InsertAt(items, p, r)
        BY DEF ins
      <4> HIDE DEF p
      <4>46. p \in Nat /\ M \in Nat /\ p <= M /\ 1 <= p /\ p \in 1 .. Len(items)
        BY <1>1, <4>4
      <4>5. PutAt(items, p, r, ins)
        <5>0. items \in Seq(Nat) /\ r \in Nat /\ p \in 1 .. Len(items)
          BY <1>1, <4>46
        <5> HIDE DEF ins, items
        <5>1. PutAt(items, p, r, InsertAt(items, p, r))
          BY <5>0, InsertAtIs
        <5> QED
          BY <4>45, <5>1
      <4>6. ASSUME NEW a \in 1 .. p - 1 PROVE keys[items[a]] > key
        <5>1. a \in 1 .. M /\ a < p
          <6> HIDE DEF M
          <6> QED
            BY <4>46
        <5>2. v <= keys[items[a]] /\ keys[items[a]] \in 1 .. Cap /\ first[keys[items[a]]] # NoItem
          BY <3>3, <3>4, <4>4, <5>1
        <5>3. keys[items[a]] # v
          <6>1. SUFFICES ASSUME keys[items[a]] = v PROVE FALSE
            OBVIOUS
          <6>2. PICK b \in 1 .. a : items[b] = first[v]
            BY <3>3, <5>1, <6>1
          <6>3. b \in 1 .. M /\ b < p
            <7> HIDE DEF M
            <7> QED
              BY <4>46, <5>1
          <6> QED
            BY <3>3, <4>1, <4>4, <6>2, <6>3
        <5>4. keys[items[a]] \notin v + 1 .. key
          BY <4>1, <5>2
        <5> HIDE DEF key
        <5> QED
          BY <4>2, <5>2, <5>3, <5>4, SMTT(30)
      <4>7. ASSUME NEW a \in p .. M PROVE keys[items[a]] <= key
        <5>1. a \in 1 .. M /\ (a = p \/ p < a)
          <6> HIDE DEF M
          <6> QED
            BY <4>46
        <5>2. keys[items[a]] <= v /\ keys[items[a]] \in 1 .. Cap
          <6>1. keys[items[a]] \in 1 .. Cap
            BY <3>3, <5>1
          <6>2. CASE a = p
            BY ONLY <4>2, <4>4, <6>2, <6>1
          <6>3. CASE p < a
            <7>1. keys[items[a]] <= keys[items[p]]
              BY ONLY <3>3, <4>4, <5>1, <6>3
            <7> QED
              BY ONLY <4>4, <6>1, <7>1
          <6> QED
            BY <5>1, <6>2, <6>3
        <5> HIDE DEF key
        <5>3. ASSUME NEW x \in 1 .. Cap, x <= v PROVE x <= key
          BY ONLY <4>2, <5>3
        <5> QED
          BY ONLY <5>2, <5>3
      <4>8. p \in 1 .. Len(items) + 1
        BY <1>1, <4>4
      <4>9. ListOK(keys, Cap, ins, [first EXCEPT ![keys[r]] = r])
        BY <1>1, <3>1, <3>5, <4>5, <4>6, <4>7, <4>8, PutOK
      <4>10. Inserted(keys, q, r) = [items |-> ins, index |-> idx] /\ ListOK(keys, Cap, ins, idx)
        BY <3>2, <4>1, <4>9 DEF idx
      <4> HIDE DEF M, items, first
      <4> QED
        BY <3>6, <4>5, <4>8, <4>10 DEF M
    <3> HIDE DEF at
    <3>9. \/ at = NoItem /\ \A x \in 1 .. key : first[x] = NoItem
          \/ \E v \in 1 .. key : /\ first[v] # NoItem /\ at = first[v]
                                 /\ \A x \in v + 1 .. key : first[x] = NoItem
      BY <1>1, LookupIs, ZenonT(40) DEF at
    <3> QED
      BY <3>7, <3>8, <3>9
  <2> QED
    BY <2>1, <2>2 DEF Listed
<1>31. PICK p \in 1 .. M + 1 : \E more, idx :
        /\ PutAt(items, p, r, more) /\ idx \in [1 .. Cap -> Int]
        /\ Inserted(keys, q, r) = [items |-> more, index |-> idx]
        /\ strategy = "max_lcp" => ListOK(keys, Cap, more, idx)
  BY <1>3
<1>4. PICK more, idx :
        /\ PutAt(items, p, r, more) /\ idx \in [1 .. Cap -> Int]
        /\ Inserted(keys, q, r) = [items |-> more, index |-> idx]
        /\ strategy = "max_lcp" => ListOK(keys, Cap, more, idx)
  BY <1>31
<1>5. Injective(more) /\ \A o : Contains(more, o) <=> Contains(items, o) \/ o = r
  BY <1>1, <1>4, PutSet
<1>6. \A k \in 1 .. Len(more) : more[k] \in 1 .. n - 1
  <2> SUFFICES ASSUME NEW k \in 1 .. Len(more) PROVE more[k] \in 1 .. n - 1
    OBVIOUS
  <2>1. Contains(more, more[k])
    BY DEF Contains
  <2>2. CASE Contains(items, more[k])
    <3>1. PICK a \in 1 .. Len(items) : items[a] = more[k]
      BY <2>2 DEF Contains
    <3> QED
      BY <1>1, <3>1
  <2> QED
    BY <1>5, <2>1, <2>2
<1>7. more \in Seq(Nat)
  BY <1>4 DEF PutAt
<1>8. QueueOK(keys, [items |-> more, index |-> idx])
  BY <1>4, <1>5, <1>6, <1>7 DEF QueueOK
<1> QED
  BY <1>4, <1>5, <1>8

LEMMA MembersAre ==
  ASSUME NEW keys, NEW q, QueueOK(keys, q), NEW r, Contains(q.items, r), n \in Nat
  PROVE  r \in 1 .. n - 1 /\ r \in Ranks /\ (strategy = "max_lcp" => keys[r] \in 1 .. Cap)
<1>1. PICK a \in 1 .. Len(q.items) : q.items[a] = r
  BY DEF Contains
<1>2. r \in 1 .. n - 1
  BY <1>1 DEF QueueOK
<1>3. strategy = "max_lcp" => keys[r] \in 1 .. Cap
  BY <1>1 DEF QueueOK, ListOK
<1> QED
  BY <1>2, <1>3 DEF Ranks

\* d is q with the key of entry r lowered.
Lowered(keys, q, r, value, d) ==
  /\ d = [keys |-> d.keys, q |-> d.q]
  /\ d.keys = [keys EXCEPT ![r] = value] /\ QueueOK(d.keys, d.q)
  /\ \A o : Contains(d.q.items, o) <=> Contains(q.items, o)

\* decrease_key
LEMMA DecreasedIs ==
  ASSUME Listed, Cap \in Nat, n \in Nat, NEW keys \in [Ranks -> Nat], NEW q, QueueOK(keys, q),
         NEW r, Contains(q.items, r), NEW value \in 1 .. Cap
  PROVE  Lowered(keys, q, r, value, Decreased(keys, q, r, value))
<1> DEFINE d == Decreased(keys, q, r, value)
           lower == [keys EXCEPT ![r] = value]
           less == Removed(keys, q, r)
<1>0. d = Decreased(keys, q, r, value)
  OBVIOUS
<1> HIDE DEF d
<1>1. r \in 1 .. n - 1 /\ r \in Ranks
  BY MembersAre
<1>2. lower[r] = value /\ \A o \in Ranks : o # r => lower[o] = keys[o]
  BY <1>1
<1>3. CASE strategy = "max_lcp"
  <2>1. d = [keys |-> lower, q |-> ListInsert(lower, ListRemove(keys, q, r), r)]
    BY <1>0, <1>3 DEF Decreased
  <2>2. ListRemove(keys, q, r) = less
    BY <1>3 DEF Removed
  <2>3. ListInsert(lower, less, r) = Inserted(lower, less, r)
    BY <1>3 DEF Inserted
  <2> HIDE DEF lower, less
  <2>4. QueueOK(keys, less) /\ \A o : Contains(less.items, o) <=> Contains(q.items, o) /\ o # r
    BY RemovedIs DEF less
  <2>5. \A o : Contains(less.items, o) => lower[o] = keys[o]
    <3> SUFFICES ASSUME NEW o, Contains(less.items, o) PROVE lower[o] = keys[o]
      OBVIOUS
    <3>1. o \in Ranks /\ o # r
      BY <2>4, MembersAre
    <3> QED
      BY <1>2, <3>1
  <2>6. QueueOK(lower, less)
    BY <2>4, <2>5, KeysMatter
  <2>7. /\ QueueOK(lower, Inserted(lower, less, r))
        /\ \A o : Contains(Inserted(lower, less, r).items, o) <=> Contains(less.items, o) \/ o = r
    BY <1>1, <1>2, <2>4, <2>6, InsertedIs
  <2>8. d = [keys |-> lower, q |-> Inserted(lower, less, r)]
    BY <2>1, <2>2, <2>3
  <2>9. d.keys = lower /\ d.q = Inserted(lower, less, r)
    BY <2>8
  <2>10. d = [keys |-> d.keys, q |-> d.q]
    BY <2>8, <2>9
  <2>11. QueueOK(d.keys, d.q)
    BY <2>7, <2>9
  <2>12. \A o : Contains(d.q.items, o) <=> Contains(q.items, o)
    BY <2>4, <2>7, <2>9
  <2> QED
    BY <2>9, <2>10, <2>11, <2>12 DEF lower, d, Lowered
<1>4. CASE strategy = "bheap"
  <2>1. d = [keys |-> lower, q |-> q]
    BY <1>0, <1>4 DEF Decreased
  <2>2. QueueOK(lower, q)
    BY <1>4 DEF QueueOK
  <2>3. d.keys = lower /\ d.q = q
    BY <2>1
  <2>4. QueueOK(d.keys, d.q)
    BY <2>2, <2>3
  <2> QED
    BY <2>1, <2>3, <2>4 DEF d, Lowered
<1> QED
  BY <1>3, <1>4 DEF Listed, d

\* get_max
LEMMA TopIs ==
  ASSUME Basics, Listed, Cap \in Nat, NEW keys \in [Ranks -> 0 .. Cap], NEW q, QueueOK(keys, q),
         q.items # <<>>
  PROVE  /\ Contains(q.items, Top(keys, q))
         /\ \A o : Contains(q.items, o) => keys[o] <= keys[Top(keys, q)]
<1> DEFINE M == Len(q.items)
           In(o) == Contains(q.items, o)
<1>1. q.items \in Seq(Nat) /\ M \in Nat /\ M > 0 /\ n \in Nat
  <2>1. q.items \in Seq(Nat)
    BY DEF QueueOK
  <2> QED
    BY <2>1, BasicFacts
<1>2. CASE strategy = "max_lcp"
  <2>1. Top(keys, q) = q.items[1]
    BY <1>2 DEF Top
  <2>2. 1 \in 1 .. M
    BY <1>1
  <2>3. \A a, b \in 1 .. M : a < b => keys[q.items[b]] <= keys[q.items[a]]
    BY <1>2 DEF QueueOK, ListOK
  <2>4. ASSUME NEW o, In(o) PROVE keys[o] <= keys[q.items[1]]
    <3>1. PICK a \in 1 .. M : q.items[a] = o
      BY <2>4 DEF Contains
    <3>2. a = 1 \/ 1 < a
      BY <1>1
    <3>3. keys[o] \in 0 .. Cap
      BY <1>1, <2>4, MembersAre
    <3> HIDE DEF M
    <3>4. keys[o] <= keys[o]
      BY <3>3
    <3> QED
      BY <2>2, <2>3, <3>1, <3>2, <3>4
  <2> QED
    BY <2>1, <2>2, <2>4 DEF Contains
<1>3. CASE strategy = "bheap"
  <2> DEFINE Best(m) == /\ In(m)
                        /\ \A o \in Ranks : In(o) =>
                             \/ keys[o] < keys[m]
                             \/ keys[o] = keys[m] /\ sa[o] >= sa[m]
             S == {m \in Ranks : In(m)}
             V == {keys[m] : m \in S}
  <2>1. Top(keys, q) = CHOOSE m \in Ranks : Best(m)
    BY <1>3 DEF Top
  <2>2. \A o : In(o) => o \in Ranks
    BY <1>1, MembersAre
  <2>3. S # {}
    <3>1. In(q.items[1])
      BY <1>1 DEF Contains
    <3> QED
      BY <2>2, <3>1
  <2>4. \A o \in Ranks : keys[o] \in 0 .. Cap
    OBVIOUS
  <2>5. sa \in [Ranks -> Ranks] /\ Ranks \subseteq Nat
    BY BasicFacts DEF Ranks
  <2> HIDE DEF In
  <2>6. PICK x \in V : \A y \in V : y <= x
    <3>1. V \subseteq Nat /\ V # {} /\ \A v \in V : v <= Cap
      BY <2>3, <2>4
    <3> HIDE DEF V
    <3> QED
      BY <3>1, GreatestNumber
  <2> DEFINE P == {sa[m] : m \in {o \in S : keys[o] = x}}
  <2>7. PICK z \in P : \A y \in P : z <= y
    <3>1. P \subseteq Nat /\ P # {}
      BY <2>5, <2>6
    <3> HIDE DEF P
    <3> QED
      BY <3>1, LeastNumber
  <2>8. PICK m \in Ranks : In(m) /\ keys[m] = x /\ sa[m] = z
    BY <2>7
  <2>9. Best(m)
    <3>1. ASSUME NEW o \in Ranks, In(o) PROVE keys[o] < keys[m] \/ (keys[o] = keys[m] /\ sa[o] >= sa[m])
      <4>1. keys[o] <= x
        BY <2>6, <3>1
      <4>2. keys[o] = x => z <= sa[o]
        BY <2>7, <3>1
      <4>3. keys[o] \in 0 .. Cap /\ x \in 0 .. Cap /\ sa[o] \in Nat /\ z \in Nat
        BY <2>4, <2>5, <2>8
      <4> QED
        BY <2>8, <4>1, <4>2, <4>3
    <3> QED
      BY <2>8, <3>1
  <2>10. Best(Top(keys, q))
    <3> HIDE DEF Best
    <3> QED
      BY <2>1, <2>9
  <2>11. ASSUME NEW o, In(o) PROVE keys[o] <= keys[Top(keys, q)]
    <3>1. o \in Ranks /\ Top(keys, q) \in Ranks
      BY <2>2, <2>10, <2>11
    <3>2. keys[o] \in 0 .. Cap /\ keys[Top(keys, q)] \in 0 .. Cap
      BY <2>4, <3>1
    <3> QED
      BY <2>10, <2>11, <3>1, <3>2
  <2> QED
    BY <2>10, <2>11 DEF In
<1> QED
  BY <1>2, <1>3 DEF Listed

-----------------------------------------------------------------------------
(* Correct: the loops behind a factor f.                                   *)

\* v is q without the entries of the first k positions of f.
Overlapped(keys, q, f, k, v) ==
  /\ QueueOK(keys, v)
  /\ \A r \in Ranks : Contains(v.items, r) <=> Contains(q.items, r) /\ sa[r] \notin f.pos .. f.pos + k - 1

\* Does entry r reach into f, and is it among the k positions in front of f?
Reaches(keys, f, k, r) == f.pos - sa[r] \in 1 .. k /\ keys[r] > f.pos - sa[r]

\* v is q without the entries in f, and with those of the k positions in front
\* of f shortened or removed.
Shortened(keys, q, f, k, v) ==
  /\ v = [keys |-> v.keys, q |-> v.q]
  /\ v.keys \in [Ranks -> Nat] /\ QueueOK(v.keys, v.q)
  /\ \A r \in Ranks :
       /\ Contains(v.q.items, r) <=> /\ Contains(q.items, r) /\ sa[r] \notin Span(f)
                                     /\ ~ (Reaches(keys, f, k, r) /\ f.pos - sa[r] < threshold)
       /\ v.keys[r] = IF Contains(q.items, r) /\ Reaches(keys, f, k, r) /\ f.pos - sa[r] >= threshold
                      THEN f.pos - sa[r] ELSE keys[r]

LEMMA OverlapStep ==
  ASSUME Basics, Listed, Cap \in Nat, NEW keys, NEW q, NEW f, f \in FactorRec, f.pos + f.len < n,
         NEW k \in 1 .. f.len, NEW v, Overlapped(keys, q, f, k - 1, v)
  PROVE  Overlapped(keys, q, f, k, Removed(keys, v, isa[f.pos + k - 1]))
<1> DEFINE at == f.pos + k - 1
           w == Removed(keys, v, isa[at])
           a == f.pos
           b == f.len
<1>1. a \in Nat /\ b \in Nat /\ a + b < n /\ k \in 1 .. b
  BY DEF FactorRec
<1>2. sa \in [Ranks -> Ranks] /\ isa \in [Ranks -> Ranks] /\ n \in Nat
      /\ \A r, p \in Ranks : isa[p] = r <=> sa[r] = p
  <2>1. /\ sa \in [Ranks -> Ranks] /\ isa \in [Ranks -> Ranks] /\ n \in Nat
        /\ Ordered(text, sa, isa) /\ Ranks = Positions(text)
    BY BasicFacts
  <2> QED
    BY <2>1 DEF Ordered
<1>3. QueueOK(keys, w) /\ \A o : Contains(w.items, o) <=> Contains(v.items, o) /\ o # isa[at]
  BY RemovedIs DEF Overlapped
<1> HIDE DEF w
<1>4. ASSUME NEW r \in Ranks
      PROVE  Contains(w.items, r) <=> Contains(q.items, r) /\ sa[r] \notin f.pos .. f.pos + k - 1
  <2>1. Contains(v.items, r) <=> Contains(q.items, r) /\ sa[r] \notin f.pos .. f.pos + (k - 1) - 1
    BY DEF Overlapped
  <2>2. r # isa[at] <=> sa[r] # at
    <3>1. at \in Ranks
      <4> HIDE DEF a, b
      <4>1. a + k - 1 \in Ranks
        BY <1>1, <1>2 DEF Ranks
      <4> QED
        BY <4>1 DEF a
    <3> QED
      BY <1>2, <3>1
  <2>3. sa[r] \notin f.pos .. f.pos + k - 1 <=> sa[r] \notin f.pos .. f.pos + (k - 1) - 1 /\ sa[r] # at
    <3> DEFINE s == sa[r]
    <3>1. s \in Nat
      BY <1>2 DEF Ranks
    <3> HIDE DEF s, a, b
    <3>2. s \notin a .. a + k - 1 <=> s \notin a .. a + (k - 1) - 1 /\ s # a + k - 1
      BY <1>1, <3>1
    <3> QED
      BY <3>2 DEF s, a
  <2> HIDE DEF at
  <2> QED
    BY <1>3, <2>1, <2>2, <2>3
<1>5. Overlapped(keys, q, f, k, w)
  BY <1>3, <1>4 DEF Overlapped
<1> QED
  BY <1>5 DEF w

ShortenedBy(v, f, k) ==
  IF f.pos - k < 0 \/ ~ Contains(v.q.items, isa[f.pos - k]) THEN v
  ELSE IF v.keys[isa[f.pos - k]] <= k THEN v
  ELSE IF k >= threshold THEN Decreased(v.keys, v.q, isa[f.pos - k], k)
  ELSE [v EXCEPT !.q = Removed(v.keys, v.q, isa[f.pos - k])]

LEMMA ShortenStep ==
  ASSUME Basics, Listed, Cap \in Nat, NEW keys \in [Ranks -> Nat], NEW q, NEW f, f \in FactorRec,
         f.pos + f.len < n, f.len <= Cap, NEW k \in 1 .. f.len, NEW v, Shortened(keys, q, f, k - 1, v)
  PROVE  Shortened(keys, q, f, k, ShortenedBy(v, f, k))
<1> DEFINE s == f.pos - k
           e == isa[s]
           a == f.pos
           w == ShortenedBy(v, f, k)
           Old(r) == Reaches(keys, f, k - 1, r)
           New(r) == Reaches(keys, f, k, r)
           Out(r) == sa[r] \notin Span(f)
           Low(r) == f.pos - sa[r] < threshold
           High(r) == f.pos - sa[r] >= threshold
<1>1. a \in Nat /\ f.len \in Nat /\ a + f.len < n /\ k \in 1 .. f.len /\ threshold \in Nat /\ k \in Nat
  BY BasicFacts DEF FactorRec
<1>2. sa \in [Ranks -> Ranks] /\ isa \in [Ranks -> Ranks] /\ n \in Nat
      /\ \A r, p \in Ranks : isa[p] = r <=> sa[r] = p
  <2>1. /\ sa \in [Ranks -> Ranks] /\ isa \in [Ranks -> Ranks] /\ n \in Nat
        /\ Ordered(text, sa, isa) /\ Ranks = Positions(text)
    BY BasicFacts
  <2> QED
    BY <2>1 DEF Ordered
<1>3. /\ v = [keys |-> v.keys, q |-> v.q] /\ v.keys \in [Ranks -> Nat] /\ QueueOK(v.keys, v.q)
      /\ \A r \in Ranks :
           /\ Contains(v.q.items, r) <=> Contains(q.items, r) /\ Out(r) /\ ~ (Old(r) /\ Low(r))
           /\ v.keys[r] = IF Contains(q.items, r) /\ Old(r) /\ High(r) THEN f.pos - sa[r] ELSE keys[r]
  BY DEF Shortened
<1>4. ASSUME NEW r \in Ranks
      PROVE  /\ f.pos - sa[r] # k => (New(r) <=> Old(r))
             /\ f.pos - sa[r] = k => ~ Old(r) /\ (New(r) <=> keys[r] > k) /\ Out(r)
                                     /\ s \in Ranks /\ e = r
             /\ (Low(r) <=> ~ High(r))
             /\ s \in Ranks /\ e = r => f.pos - sa[r] = k
  <2> DEFINE x == sa[r]
  <2>1. x \in Nat /\ x < n /\ x \in Ranks
    BY <1>2 DEF Ranks
  <2>2. a - x \in 1 .. k <=> (a - x \in 1 .. k - 1 \/ a - x = k)
    <3> HIDE DEF x, a
    <3> QED
      BY <1>1, <2>1
  <2>3. a - x = k => ~ (a - x \in 1 .. k - 1) /\ x \notin a .. a + f.len - 1 /\ s = x
    <3>1. f.len \in Nat
      BY <1>1
    <3> HIDE DEF x, a
    <3>2. a - x = k => ~ (a - x \in 1 .. k - 1) /\ x \notin a .. a + f.len - 1 /\ a - k = x
      BY <1>1, <2>1, <3>1
    <3> QED
      BY <3>2 DEF a
  <2>4. (a - x < threshold <=> ~ (a - x >= threshold))
    <3> HIDE DEF x, a
    <3> QED
      BY <1>1, <2>1
  <2>5. a - (a - k) = k
    <3> HIDE DEF a
    <3> QED
      BY <1>1
  <2>6. f.pos - x # k => (New(r) <=> Old(r))
    BY <2>2 DEF Reaches
  <2>7. f.pos - x = k => ~ Old(r) /\ (New(r) <=> keys[r] > k)
    BY <2>2, <2>3 DEF Reaches
  <2>8. f.pos - x = k => Out(r) /\ s \in Ranks /\ e = r
    BY <1>2, <2>1, <2>3 DEF Span
  <2>9. s \in Ranks /\ e = r => f.pos - sa[r] = k
    <3>1. s \in Ranks /\ e = r => sa[r] = s
      BY <1>2
    <3> QED
      BY <2>5, <3>1
  <2> QED
    BY <2>4, <2>6, <2>7, <2>8, <2>9
<1>5. s < 0 \/ (s \in Ranks /\ ~ (s < 0) /\ e \in Ranks)
  <2>1. s < 0 \/ (s \in Ranks /\ ~ (s < 0))
    <3> HIDE DEF a
    <3>1. a - k < 0 \/ (a - k \in Ranks /\ ~ (a - k < 0))
      BY <1>1, <1>2 DEF Ranks
    <3> QED
      BY <3>1 DEF a
  <2> QED
    BY <1>2, <2>1
<1> DEFINE Goal(ks, qq) ==
             /\ ks \in [Ranks -> Nat] /\ QueueOK(ks, qq)
             /\ \A r \in Ranks :
                  /\ Contains(qq.items, r) <=> Contains(q.items, r) /\ Out(r) /\ ~ (New(r) /\ Low(r))
                  /\ ks[r] = IF Contains(q.items, r) /\ New(r) /\ High(r) THEN f.pos - sa[r] ELSE keys[r]
<1>6. \A ks, qq : Goal(ks, qq) => Shortened(keys, q, f, k, [keys |-> ks, q |-> qq])
  BY DEF Shortened
<1> DEFINE D(r) == f.pos - sa[r]
<1> HIDE DEF Old, New, Out, Low, High, a
<1>7. CASE s < 0 \/ ~ Contains(v.q.items, e)
  <2>1. w = v
    BY <1>7 DEF ShortenedBy
  <2>2. ASSUME NEW r \in Ranks
        PROVE  /\ Contains(v.q.items, r) <=> Contains(q.items, r) /\ Out(r) /\ ~ (New(r) /\ Low(r))
               /\ v.keys[r] = IF Contains(q.items, r) /\ New(r) /\ High(r) THEN f.pos - sa[r] ELSE keys[r]
    <3>1. CASE D(r) = k
      <4>1. ~ Contains(v.q.items, r)
        <5>1. e = r /\ s \in Ranks
          BY <1>4, <3>1
        <5>2. ~ (s < 0)
          BY <5>1 DEF Ranks
        <5> QED
          BY <1>7, <5>1, <5>2
      <4>2. ~ Contains(q.items, r)
        BY <1>3, <1>4, <3>1, <4>1
      <4> QED
        BY <1>3, <4>1, <4>2
    <3>2. CASE D(r) # k
      BY <1>3, <1>4, <3>2
    <3> QED
      BY <3>1, <3>2
  <2>3. Goal(v.keys, v.q)
    BY <1>3, <2>2
  <2> HIDE DEF Goal, w
  <2> QED
    BY <1>3, <1>6, <2>1, <2>3 DEF w
<1>8. CASE ~ (s < 0) /\ Contains(v.q.items, e)
  <2>1. s \in Ranks /\ e \in Ranks /\ D(e) = k
    BY <1>4, <1>5, <1>8
  <2>2. /\ ~ Old(e) /\ (New(e) <=> keys[e] > k) /\ Out(e) /\ (Low(e) <=> ~ High(e))
        /\ (High(e) <=> k >= threshold) /\ (Low(e) <=> k < threshold)
    <3>1. (High(e) <=> k >= threshold) /\ (Low(e) <=> k < threshold)
      BY <2>1 DEF High, Low
    <3> QED
      BY <1>4, <2>1, <3>1
  <2>3. v.keys[e] = keys[e] /\ Contains(q.items, e)
    BY <1>3, <1>8, <2>1, <2>2
  <2>4. \A r \in Ranks : r # e => D(r) # k /\ (New(r) <=> Old(r))
    BY <1>4
  <2> HIDE DEF s, e, D
  <2>5. CASE keys[e] <= k
    <3>1. w = v
      BY <1>8, <2>3, <2>5 DEF ShortenedBy, s, e
    <3>2. ~ New(e)
      <4>1. keys[e] \in Nat
        BY <2>1
      <4> QED
        BY <1>1, <2>2, <2>5, <4>1
    <3>3. Goal(v.keys, v.q)
      BY <1>3, <2>2, <2>4, <3>2
    <3> HIDE DEF Goal, w
    <3> QED
      BY <1>3, <1>6, <3>1, <3>3 DEF w
  <2>6. CASE ~ (keys[e] <= k)
    <3>0. New(e) /\ ~ (v.keys[e] <= k)
      <4>1. keys[e] \in Nat
        BY <2>1
      <4> QED
        BY <1>1, <2>2, <2>3, <2>6, <4>1
    <3>1. CASE k >= threshold
      <4>1. w = Decreased(v.keys, v.q, e, k)
        BY <1>8, <3>0, <3>1 DEF ShortenedBy, s, e
      <4>2. k \in 1 .. Cap
        BY <1>1
      <4> HIDE DEF w
      <4>3. /\ w = [keys |-> w.keys, q |-> w.q]
            /\ w.keys = [v.keys EXCEPT ![e] = k] /\ QueueOK(w.keys, w.q)
            /\ \A o : Contains(w.q.items, o) <=> Contains(v.q.items, o)
        <5>1. v.keys \in [Ranks -> Nat] /\ QueueOK(v.keys, v.q) /\ Contains(v.q.items, e) /\ n \in Nat
          BY <1>2, <1>3, <1>8
        <5>2. Lowered(v.keys, v.q, e, k, Decreased(v.keys, v.q, e, k))
          BY <4>2, <5>1, DecreasedIs
        <5> QED
          BY <4>1, <5>2 DEF Lowered
      <4>4. w.keys \in [Ranks -> Nat] /\ w.keys[e] = k /\ \A r \in Ranks : r # e => w.keys[r] = v.keys[r]
        BY <1>1, <1>3, <2>1, <4>3
      <4>5. k = f.pos - sa[e]
        BY <2>1 DEF D
      <4>6. Goal(w.keys, w.q)
        <5>1. ASSUME NEW r \in Ranks
              PROVE  /\ Contains(w.q.items, r) <=> Contains(q.items, r) /\ Out(r) /\ ~ (New(r) /\ Low(r))
                     /\ w.keys[r] = IF Contains(q.items, r) /\ New(r) /\ High(r) THEN f.pos - sa[r] ELSE keys[r]
          <6>1. CASE r = e
            BY <1>8, <2>2, <2>3, <3>0, <3>1, <4>3, <4>4, <4>5, <6>1
          <6>2. CASE r # e
            BY <1>3, <2>4, <4>3, <4>4, <6>2
          <6> QED
            BY <6>1, <6>2
        <5> QED
          BY <4>3, <4>4, <5>1
      <4> HIDE DEF Goal
      <4>7. Shortened(keys, q, f, k, w)
        BY <1>6, <4>3, <4>6
      <4> QED
        BY <4>7 DEF w
    <3>2. CASE ~ (k >= threshold)
      <4> DEFINE less == Removed(v.keys, v.q, e)
      <4>1. w = [v EXCEPT !.q = less]
        BY <1>8, <3>0, <3>2 DEF ShortenedBy, s, e
      <4> HIDE DEF w, less
      <4>2. w = [keys |-> v.keys, q |-> less]
        BY <1>3, <4>1
      <4>3. QueueOK(v.keys, less) /\ \A o : Contains(less.items, o) <=> Contains(v.q.items, o) /\ o # e
        BY <1>3, RemovedIs DEF less
      <4>4. k < threshold
        BY <1>1, <3>2
      <4>5. Goal(v.keys, less)
        <5>1. ASSUME NEW r \in Ranks
              PROVE  /\ Contains(less.items, r) <=> Contains(q.items, r) /\ Out(r) /\ ~ (New(r) /\ Low(r))
                     /\ v.keys[r] = IF Contains(q.items, r) /\ New(r) /\ High(r) THEN f.pos - sa[r] ELSE keys[r]
          <6>1. CASE r = e
            BY <2>2, <2>3, <3>0, <4>3, <4>4, <6>1
          <6>2. CASE r # e
            BY <1>3, <2>4, <4>3, <6>2
          <6> QED
            BY <6>1, <6>2
        <5> QED
          BY <1>3, <4>3, <5>1
      <4> HIDE DEF Goal
      <4>6. Shortened(keys, q, f, k, w)
        BY <1>6, <4>2, <4>5
      <4> QED
        BY <4>6 DEF w
    <3> QED
      BY <3>1, <3>2
  <2> QED
    BY <2>5, <2>6
<1> HIDE DEF w
<1>9. Shortened(keys, q, f, k, w)
  BY <1>7, <1>8 DEF w
<1> QED
  BY <1>9 DEF w

Queues == [items : Seq(Nat), index : [1 .. Cap -> Int]]

LEMMA CorrectIs ==
  ASSUME Basics, Listed, Cap \in Nat, NEW keys \in [Ranks -> Nat], NEW q, QueueOK(keys, q),
         NEW f, f \in FactorRec, f.pos + f.len < n, f.len <= Cap
  PROVE  Shortened(keys, q, f, f.len, Correct(keys, q, f))
<1> DEFINE m == f.len
           Loop1(L) == L = [k \in 0 .. m |-> IF k = 0 THEN q ELSE Removed(keys, L[k - 1], isa[f.pos + k - 1])]
           R0 == CHOOSE L : Loop1(L)
           Start == [keys |-> keys, q |-> R0[m]]
           Loop2(L) == L = [k \in 0 .. m |-> IF k = 0 THEN Start ELSE ShortenedBy(L[k - 1], f, k)]
           C0 == CHOOSE L : Loop2(L)
           W1 == [k \in 0 .. m |-> {v \in Queues : Overlapped(keys, q, f, k, v)}]
           W2 == [k \in 0 .. m |-> {v \in [keys : [Ranks -> Nat], q : Queues] : Shortened(keys, q, f, k, v)}]
           G1 == [k \in 1 .. m |-> [v \in Queues |-> Removed(keys, v, isa[f.pos + k - 1])]]
           G2 == [k \in 1 .. m |-> [v \in [keys : [Ranks -> Nat], q : Queues] |-> ShortenedBy(v, f, k)]]
<1>1. Correct(keys, q, f) = C0[m]
  BY Zenon DEF Correct, ShortenedBy
<1>2. m \in Nat /\ f.pos \in Nat
  BY DEF FactorRec
<1>3. \A k, v : Overlapped(keys, q, f, k, v) => v \in Queues
  BY DEF Overlapped, QueueOK, Queues
<1>4. \A k, v : Shortened(keys, q, f, k, v) => v \in [keys : [Ranks -> Nat], q : Queues]
  <2> SUFFICES ASSUME NEW k, NEW v, Shortened(keys, q, f, k, v)
               PROVE  v \in [keys : [Ranks -> Nat], q : Queues]
    OBVIOUS
  <2>1. v = [keys |-> v.keys, q |-> v.q] /\ v.keys \in [Ranks -> Nat] /\ v.q \in Queues
    BY DEF Shortened, QueueOK, Queues
  <2> QED
    BY <2>1
<1>5. Overlapped(keys, q, f, 0, q)
  <2>1. \A r \in Ranks : sa[r] \notin f.pos .. f.pos + 0 - 1
    <3> DEFINE a == f.pos
    <3>1. a \in Nat
      BY <1>2
    <3> HIDE DEF a
    <3>2. \A x : x \notin a .. a + 0 - 1
      BY <3>1
    <3> QED
      BY <3>2 DEF a
  <2> QED
    BY <2>1 DEF Overlapped
<1> HIDE DEF m
<1>6. \A k \in 1 .. m : \A v \in W1[k - 1] : Removed(keys, v, isa[f.pos + k - 1]) \in W1[k] /\ v \in Queues
  <2> SUFFICES ASSUME NEW k \in 1 .. m, NEW v \in W1[k - 1]
               PROVE  Removed(keys, v, isa[f.pos + k - 1]) \in W1[k] /\ v \in Queues
    OBVIOUS
  <2>1. k - 1 \in 0 .. m /\ k \in 0 .. m
    BY <1>2
  <2>2. v \in Queues /\ Overlapped(keys, q, f, k - 1, v)
    BY <2>1
  <2>3. Overlapped(keys, q, f, k, Removed(keys, v, isa[f.pos + k - 1]))
    BY <2>2, OverlapStep DEF m
  <2> QED
    BY <1>3, <2>1, <2>2, <2>3
<1>7. q \in W1[0] /\ \A v \in W1[m] : v \in Queues /\ Overlapped(keys, q, f, m, v)
  BY <1>2, <1>3, <1>5
<1>8. R0[m] \in W1[m]
  <2>1. \A L : Loop1(L) => L[m] \in W1[m]
    <3> SUFFICES ASSUME NEW L, Loop1(L) PROVE L[m] \in W1[m]
      OBVIOUS
    <3>1. L[0] = q /\ \A k \in 1 .. m : L[k] = Removed(keys, L[k - 1], isa[f.pos + k - 1])
      BY <1>2
    <3> HIDE DEF Loop1, W1
    <3>2. L[0] \in W1[0] /\ \A k \in 1 .. m : L[k - 1] \in W1[k - 1] => L[k] \in W1[k]
      BY <1>6, <1>7, <3>1
    <3>3. \A k \in 0 .. m : L[k] \in W1[k]
      BY <1>2, <3>2, LoopKeeps
    <3> QED
      BY <1>2, <3>3
  <2>2. \E L : Loop1(L)
    <3>0. \A k \in 1 .. m : \A v \in Queues : G1[k][v] = Removed(keys, v, isa[f.pos + k - 1])
      OBVIOUS
    <3> HIDE DEF W1, G1, Loop1
    <3>1. \A k \in 1 .. m : \A v \in W1[k - 1] : G1[k][v] \in W1[k]
      BY <1>6, <3>0
    <3>2. PICK L : Trace(m, q, G1, W1, L)
      BY <1>2, <1>7, <3>1, LoopGoes
    <3>3. ASSUME NEW k \in 1 .. m PROVE L[k] = Removed(keys, L[k - 1], isa[f.pos + k - 1])
      <4>1. k - 1 \in 0 .. m
        BY <1>2
      <4>2. L[k - 1] \in W1[k - 1] /\ L[k] = G1[k][L[k - 1]]
        BY <3>2, <4>1 DEF Trace
      <4> QED
        BY <1>6, <3>0, <4>2
    <3>4. ASSUME NEW k \in 0 .. m
          PROVE  L[k] = IF k = 0 THEN q ELSE Removed(keys, L[k - 1], isa[f.pos + k - 1])
      <4>1. k = 0 \/ k \in 1 .. m
        BY <1>2
      <4> QED
        BY <3>2, <3>3, <4>1 DEF Trace
    <3>5. L = [k \in 0 .. m |-> L[k]]
      BY <3>2 DEF Trace
    <3>6. Loop1(L)
      BY <3>4, <3>5 DEF Loop1
    <3> QED
      BY <3>6
  <2> HIDE DEF Loop1, W1
  <2> QED
    BY <2>1, <2>2
<1>9. Overlapped(keys, q, f, m, R0[m])
  BY <1>7, <1>8
<1> HIDE DEF R0
<1>10. Shortened(keys, q, f, 0, Start)
  <2>1. \A r \in Ranks : ~ Reaches(keys, f, 0, r)
    BY DEF Reaches
  <2>2. /\ Start.keys = keys /\ Start.q = R0[m] /\ Start = [keys |-> Start.keys, q |-> Start.q]
        /\ QueueOK(keys, R0[m])
    BY <1>9 DEF Overlapped
  <2>3. \A r \in Ranks : Contains(R0[m].items, r) <=> Contains(q.items, r) /\ sa[r] \notin Span(f)
    BY <1>9 DEF Overlapped, Span, m
  <2> HIDE DEF Start
  <2> QED
    BY <2>1, <2>2, <2>3 DEF Shortened
<1> HIDE DEF Start
<1>11. \A k \in 1 .. m : \A v \in W2[k - 1] :
         ShortenedBy(v, f, k) \in W2[k] /\ v \in [keys : [Ranks -> Nat], q : Queues]
  <2> SUFFICES ASSUME NEW k \in 1 .. m, NEW v \in W2[k - 1]
               PROVE  ShortenedBy(v, f, k) \in W2[k] /\ v \in [keys : [Ranks -> Nat], q : Queues]
    OBVIOUS
  <2>1. k - 1 \in 0 .. m /\ k \in 0 .. m
    BY <1>2
  <2>2. v \in [keys : [Ranks -> Nat], q : Queues] /\ Shortened(keys, q, f, k - 1, v)
    BY <2>1
  <2>3. Shortened(keys, q, f, k, ShortenedBy(v, f, k))
    BY <2>2, ShortenStep DEF m
  <2> QED
    BY <1>4, <2>1, <2>2, <2>3
<1>12. Start \in W2[0] /\ \A v \in W2[m] : Shortened(keys, q, f, m, v)
  BY <1>2, <1>4, <1>10
<1>13. C0[m] \in W2[m]
  <2>1. \A L : Loop2(L) => L[m] \in W2[m]
    <3> SUFFICES ASSUME NEW L, Loop2(L) PROVE L[m] \in W2[m]
      OBVIOUS
    <3>1. L[0] = Start /\ \A k \in 1 .. m : L[k] = ShortenedBy(L[k - 1], f, k)
      BY <1>2
    <3> HIDE DEF Loop2, W2
    <3>2. L[0] \in W2[0] /\ \A k \in 1 .. m : L[k - 1] \in W2[k - 1] => L[k] \in W2[k]
      BY <1>11, <1>12, <3>1
    <3>3. \A k \in 0 .. m : L[k] \in W2[k]
      BY <1>2, <3>2, LoopKeeps
    <3> QED
      BY <1>2, <3>3
  <2>2. \E L : Loop2(L)
    <3>0. \A k \in 1 .. m : \A v \in [keys : [Ranks -> Nat], q : Queues] : G2[k][v] = ShortenedBy(v, f, k)
      OBVIOUS
    <3> HIDE DEF W2, G2, Loop2
    <3>1. \A k \in 1 .. m : \A v \in W2[k - 1] : G2[k][v] \in W2[k]
      BY <1>11, <3>0
    <3>2. PICK L : Trace(m, Start, G2, W2, L)
      BY <1>2, <1>12, <3>1, LoopGoes
    <3>3. ASSUME NEW k \in 1 .. m PROVE L[k] = ShortenedBy(L[k - 1], f, k)
      <4>1. k - 1 \in 0 .. m
        BY <1>2
      <4>2. L[k - 1] \in W2[k - 1] /\ L[k] = G2[k][L[k - 1]]
        BY <3>2, <4>1 DEF Trace
      <4> QED
        BY <1>11, <3>0, <4>2
    <3>4. ASSUME NEW k \in 0 .. m
          PROVE  L[k] = IF k = 0 THEN Start ELSE ShortenedBy(L[k - 1], f, k)
      <4>1. k = 0 \/ k \in 1 .. m
        BY <1>2
      <4> QED
        BY <3>2, <3>3, <4>1 DEF Trace
    <3>5. L = [k \in 0 .. m |-> L[k]]
      BY <3>2 DEF Trace
    <3>6. Loop2(L)
      BY <3>4, <3>5 DEF Loop2
    <3> QED
      BY <3>6
  <2> HIDE DEF Loop2, W2
  <2> QED
    BY <2>1, <2>2
<1>14. Shortened(keys, q, f, m, C0[m])
  BY <1>12, <1>13
<1> HIDE DEF C0
<1> QED
  BY <1>1, <1>14 DEF m

-----------------------------------------------------------------------------
(* What is left of the matches                                             *)

\* Of m symbols from p, the l before the first that is covered are left.
Left(m, cov, p, l) ==
  /\ l \in 0 .. m /\ \A x \in p .. p + l - 1 : x \notin cov
  /\ l = m \/ p + l \in cov

LEMMA LeftIs ==
  ASSUME NEW m \in Nat, NEW cov, NEW p \in Nat,
         NEW free, free = {l \in 0 .. m : (p .. p + l - 1) \cap cov = {}}
  PROVE  Left(m, cov, p, CHOOSE l \in free : \A o \in free : o <= l)
<1>1. free \subseteq Nat /\ 0 \in free /\ \A l \in free : l <= m
  OBVIOUS
<1> DEFINE Best(l) == \A o \in free : o <= l
           b == CHOOSE l \in free : Best(l)
<1>2. \E l \in free : Best(l)
  <2> HIDE DEF Best
  <2>1. free # {}
    BY <1>1
  <2>2. \E x \in free : \A y \in free : y <= x
    BY <1>1, <2>1, GreatestNumber
  <2> QED
    BY <2>2 DEF Best
<1>3. b \in free /\ Best(b)
  BY Zenon, <1>2
<1> HIDE DEF b
<1>4. b \in 0 .. m /\ \A x \in p .. p + b - 1 : x \notin cov
  BY <1>3
<1>5. ASSUME b # m PROVE p + b \in cov
  <2>1. b \in Nat /\ b + 1 \in 0 .. m /\ b + 1 \notin free
    BY <1>3, <1>4, <1>5
  <2>2. PICK x \in p .. p + (b + 1) - 1 : x \in cov
    BY <2>1
  <2>3. x = p + b
    BY <1>4, <2>1, <2>2
  <2> QED
    BY <2>2, <2>3
<1>6. Left(m, cov, p, b)
  BY <1>4, <1>5 DEF Left
<1> QED
  BY <1>6 DEF b

LEMMA LeftOnly ==
  ASSUME NEW m \in Nat, NEW cov, NEW p \in Nat, NEW l, Left(m, cov, p, l), NEW o, Left(m, cov, p, o)
  PROVE  l = o
<1>1. l \in 0 .. m /\ o \in 0 .. m
  BY DEF Left
<1>2. ASSUME l < o PROVE FALSE
  <2>1. p + l \in p .. p + o - 1
    BY <1>1, <1>2
  <2>2. p + l \in cov
    BY <1>1, <1>2 DEF Left
  <2> QED
    BY <2>1, <2>2 DEF Left
<1>3. ASSUME o < l PROVE FALSE
  <2>1. p + o \in p .. p + l - 1
    BY <1>1, <1>3
  <2>2. p + o \in cov
    BY <1>1, <1>3 DEF Left
  <2> QED
    BY <2>1, <2>2 DEF Left
<1> QED
  BY <1>1, <1>2, <1>3

\* The b positions from a are covered as well.
LEMMA LeftAfter ==
  ASSUME NEW m \in Nat, NEW cov, NEW p \in Nat, NEW l, Left(m, cov, p, l),
         NEW a \in Nat, NEW b \in Nat, b > 0, NEW more, more = cov \cup a .. a + b - 1
  PROVE  Left(m, more, p, IF p \in a .. a + b - 1 THEN 0
                          ELSE IF p < a /\ p + l > a THEN a - p ELSE l)
<1>1. l \in 0 .. m /\ (\A x \in p .. p + l - 1 : x \notin cov) /\ (l = m \/ p + l \in cov)
  BY DEF Left
<1>2. CASE p \in a .. a + b - 1
  <2>1. p + 0 \in more /\ 0 \in 0 .. m /\ \A x \in p .. p + 0 - 1 : x \notin more
    BY <1>2
  <2> QED
    BY <1>2, <2>1 DEF Left
<1>3. CASE p \notin a .. a + b - 1 /\ p < a /\ p + l > a
  <2>1. a - p \in 0 .. m /\ p + (a - p) = a /\ a \in more
    BY <1>1, <1>3
  <2>2. \A x \in p .. p + (a - p) - 1 : x \in p .. p + l - 1 /\ x \notin a .. a + b - 1
    BY <1>1, <1>3
  <2>3. \A x \in p .. p + (a - p) - 1 : x \notin more
    BY <1>1, <2>2
  <2> QED
    BY <1>3, <2>1, <2>3 DEF Left
<1>4. CASE p \notin a .. a + b - 1 /\ ~ (p < a /\ p + l > a)
  <2>1. \A x \in p .. p + l - 1 : x \notin a .. a + b - 1
    BY <1>1, <1>4
  <2>2. \A x \in p .. p + l - 1 : x \notin more
    BY <1>1, <2>1
  <2>3. (IF p \in a .. a + b - 1 THEN 0 ELSE IF p < a /\ p + l > a THEN a - p ELSE l) = l
    BY <1>4
  <2> QED
    BY <1>1, <2>2, <2>3 DEF Left
<1> QED
  BY <1>2, <1>3, <1>4

Rest == [p \in Ranks |-> Remaining(p)]

RestFits ==
  /\ Rest[n - 1] = 0 /\ \A p \in 0 .. n - 2 : Left(plcp[p], Covered, p, Rest[p])
  /\ Rest \in [Ranks -> Nat] /\ \A p \in Ranks : Rest[p] = Remaining(p)

LEMMA RestIs == Basics => RestFits
<1> SUFFICES ASSUME Basics PROVE RestFits
  OBVIOUS
<1>1. n \in Nat /\ n > 0
  BY BasicFacts
<1>2. n - 1 \in Ranks /\ \A p \in Ranks : p = n - 1 \/ (p \in 0 .. n - 2 /\ p # n - 1)
  BY <1>1 DEF Ranks
<1>3. Rest[n - 1] = 0
  <2>1. Remaining(n - 1) = 0
    BY DEF Remaining
  <2> QED
    BY <1>2, <2>1 DEF Rest
<1>4. ASSUME NEW p \in 0 .. n - 2 PROVE Left(plcp[p], Covered, p, Rest[p])
  <2>1. plcp[p] \in Nat /\ p \in Nat /\ p # n - 1 /\ p \in Ranks
    BY <1>1, KeyOf
  <2> DEFINE free == {l \in 0 .. plcp[p] : (p .. p + l - 1) \cap Covered = {}}
  <2>2. Remaining(p) = CHOOSE l \in free : \A o \in free : o <= l
    BY <2>1 DEF Remaining
  <2>3. Left(plcp[p], Covered, p, CHOOSE l \in free : \A o \in free : o <= l)
    BY <2>1, LeftIs
  <2>4. Rest[p] = Remaining(p)
    BY <2>1 DEF Rest
  <2> HIDE DEF free
  <2> QED
    BY <2>2, <2>3, <2>4
<1>5. ASSUME NEW p \in Ranks PROVE Rest[p] \in Nat
  <2>1. CASE p = n - 1
    BY <1>3, <2>1
  <2>2. CASE p \in 0 .. n - 2
    <3>1. Rest[p] \in 0 .. plcp[p] /\ plcp[p] \in Nat
      BY <1>4, <2>2, KeyOf DEF Left
    <3> QED
      BY <3>1
  <2> QED
    BY <1>2, <2>1, <2>2
<1>6. Rest = [p \in Ranks |-> Rest[p]] /\ \A p \in Ranks : Rest[p] = Remaining(p)
  BY DEF Rest
<1>7. Rest \in [Ranks -> Nat]
  BY <1>5, <1>6
<1> QED
  BY <1>3, <1>4, <1>6, <1>7 DEF RestFits

LEMMA CoveredGrows ==
  ASSUME NEW f, factors \in Seq(FactorRec), f \in FactorRec, factors' = Append(factors, f)
  PROVE  Covered' = Covered \cup Span(f)
<1> DEFINE M == Len(factors)
<1>1. /\ Len(factors') = M + 1 /\ M \in Nat /\ factors'[M + 1] = f
      /\ \A k \in 1 .. M : factors'[k] = factors[k]
  OBVIOUS
<1>2. \A k \in 1 .. M + 1 : k = M + 1 \/ k \in 1 .. M
  BY <1>1
<1>3. \A k \in 1 .. M : k \in 1 .. M + 1
  BY <1>1
<1>4. M + 1 \in 1 .. M + 1
  BY <1>1
<1>5. Covered' = UNION {Span(factors'[k]) : k \in 1 .. M + 1}
  BY <1>1 DEF Covered, Span
<1> HIDE DEF M
<1>6. ASSUME NEW x, x \in Covered' PROVE x \in Covered \cup Span(f)
  <2>1. PICK k \in 1 .. M + 1 : x \in Span(factors'[k])
    BY <1>5, <1>6
  <2> QED
    BY <1>1, <1>2, <2>1 DEF Covered, M
<1>7. ASSUME NEW x, x \in Covered PROVE x \in Covered'
  <2>1. PICK k \in 1 .. M : x \in Span(factors[k])
    BY <1>7 DEF Covered, M
  <2> QED
    BY <1>1, <1>3, <1>5, <2>1
<1>8. ASSUME NEW x, x \in Span(f) PROVE x \in Covered'
  BY <1>1, <1>4, <1>5, <1>8
<1> QED
  BY <1>6, <1>7, <1>8

\* A factor shortens what it reaches.
LEMMA RestAfter ==
  ASSUME Basics, FactorsGood, UNCHANGED <<text, strategy, threshold, index>>,
         NEW f, f \in FactorRec, f.len > 0, factors' = Append(factors, f)
  PROVE  /\ Rest'[n - 1] = 0
         /\ \A p \in 0 .. n - 2 :
              Rest'[p] = IF p \in Span(f) THEN 0
                         ELSE IF p < f.pos /\ p + Rest[p] > f.pos THEN f.pos - p ELSE Rest[p]
<1>1. Basics' /\ n' = n /\ plcp' = plcp
  BY BasicsKept DEF index
<1>2. RestFits /\ RestFits'
  <2>1. Basics' => RestFits'
    BY RestIs, PTL
  <2> QED
    BY <1>1, <2>1, RestIs
<1>3. Covered' = Covered \cup Span(f)
  BY CoveredGrows DEF FactorsGood, SoundRefs
<1>4. Rest'[n - 1] = 0
  BY <1>1, <1>2 DEF RestFits
<1>5. ASSUME NEW p \in 0 .. n - 2
      PROVE  Rest'[p] = IF p \in Span(f) THEN 0
                        ELSE IF p < f.pos /\ p + Rest[p] > f.pos THEN f.pos - p ELSE Rest[p]
  <2> DEFINE y == IF p \in Span(f) THEN 0
                  ELSE IF p < f.pos /\ p + Rest[p] > f.pos THEN f.pos - p ELSE Rest[p]
  <2>1. Left(plcp[p], Covered, p, Rest[p]) /\ Left(plcp[p], Covered', p, Rest'[p])
    BY <1>1, <1>2 DEF RestFits
  <2>2. f.pos \in Nat /\ f.len \in Nat /\ plcp[p] \in Nat /\ p \in Nat
    BY KeyOf DEF FactorRec
  <2>3. Left(plcp[p], Covered', p, y)
    BY <1>3, <2>1, <2>2, LeftAfter DEF Span
  <2> HIDE DEF y
  <2>4. Rest'[p] = y
    BY <2>1, <2>2, <2>3, LeftOnly
  <2> QED
    BY <2>4 DEF y
<1> QED
  BY <1>4, <1>5

LEMMA RanksAre ==
  ASSUME Basics
  PROVE  /\ sa[0] = n - 1 /\ 0 \in Ranks /\ n - 1 \in Ranks
         /\ \A r \in 1 .. n - 1 : r \in Ranks /\ sa[r] \in 0 .. n - 2 /\ isa[sa[r]] = r
         /\ \A r \in Ranks : r = 0 \/ r \in 1 .. n - 1
         /\ \A r, p \in Ranks : isa[p] = r <=> sa[r] = p
         /\ \A r \in Ranks : sa[r] \in Ranks
<1>1. /\ n \in Nat /\ n > 0 /\ Ended(text) /\ Ordered(text, sa, isa) /\ Ranks = Positions(text)
      /\ sa \in [Ranks -> Ranks] /\ isa \in [Ranks -> Ranks]
  BY BasicFacts
<1>2. isa[n - 1] = 0
  BY <1>1, LastLeast DEF n
<1>3. \A r, p \in Ranks : isa[p] = r <=> sa[r] = p
  BY <1>1 DEF Ordered
<1>4. 0 \in Ranks /\ n - 1 \in Ranks /\ \A r \in 1 .. n - 1 : r \in Ranks /\ r # 0
  BY <1>1 DEF Ranks
<1>5. ASSUME NEW r \in 1 .. n - 1 PROVE sa[r] \in 0 .. n - 2 /\ isa[sa[r]] = r
  <2> DEFINE p == sa[r]
  <2>1. p \in Ranks /\ p # n - 1 /\ isa[p] = r
    BY <1>1, <1>2, <1>3, <1>4
  <2> HIDE DEF p
  <2>2. p \in 0 .. n - 2
    BY <1>1, <2>1 DEF Ranks
  <2> QED
    BY <2>1, <2>2 DEF p
<1>6. \A r \in Ranks : r = 0 \/ r \in 1 .. n - 1
  BY <1>1 DEF Ranks
<1> QED
  BY <1>1, <1>2, <1>3, <1>4, <1>5, <1>6

LEMMA CapIs ==
  ASSUME Basics PROVE Cap \in Nat /\ LCPFromPLCP(sa, plcp) \in [Ranks -> 0 .. Cap]
<1> DEFINE keys == LCPFromPLCP(sa, plcp)
           V == {keys[r] : r \in DOMAIN keys}
           Best(m) == \A r \in DOMAIN keys : keys[r] <= m
<1>1. /\ n \in Nat /\ n > 0 /\ sa \in [Ranks -> Ranks]
      /\ keys = [r \in Ranks |-> IF r = 0 THEN 0 ELSE plcp[sa[r]]]
  BY BasicFacts DEF LCPFromPLCP
<1>2. \A r \in Ranks : keys[r] \in 0 .. n
  <2> SUFFICES ASSUME NEW r \in Ranks PROVE keys[r] \in 0 .. n
    OBVIOUS
  <2>1. CASE r = 0
    BY <1>1, <2>1
  <2>2. CASE r # 0
    <3>1. sa[r] \in 0 .. n - 2 /\ sa[r] \in Nat
      BY <2>2, RanksAre
    <3>2. plcp[sa[r]] \in Nat /\ sa[r] + plcp[sa[r]] < n
      BY <3>1, KeyOf
    <3>3. keys[r] = plcp[sa[r]]
      BY <1>1, <2>2
    <3> QED
      BY <1>1, <3>1, <3>2, <3>3
  <2> QED
    BY <2>1, <2>2
<1>3. V \subseteq Nat /\ V # {} /\ \A v \in V : v <= n
  <2>1. 0 \in Ranks
    BY RanksAre
  <2>2. DOMAIN keys = Ranks
    BY <1>1
  <2> HIDE DEF keys
  <2> QED
    BY <1>1, <1>2, <2>1, <2>2
<1>4. \E m \in V : Best(m)
  <2>1. PICK m \in V : \A y \in V : y <= m
    <3> HIDE DEF V
    <3> QED
      BY <1>1, <1>3, GreatestNumber
  <2> HIDE DEF keys
  <2> QED
    BY <2>1
<1>5. Cap \in V /\ Best(Cap)
  <2>1. Cap = CHOOSE m \in V : Best(m)
    BY DEF Cap, MaxLCP
  <2> HIDE DEF V, Best
  <2> QED
    BY <1>4, <2>1
<1>6. Cap \in Nat
  BY <1>3, <1>5
<1>7. DOMAIN keys = Ranks /\ keys = [r \in Ranks |-> keys[r]]
  BY <1>1
<1>8. \A r \in Ranks : keys[r] \in 0 .. Cap
  <2>1. \A r \in Ranks : keys[r] \in Nat /\ keys[r] <= Cap
    <3> HIDE DEF keys
    <3> QED
      BY <1>2, <1>5, <1>7
  <2> HIDE DEF keys
  <2> QED
    BY <1>6, <2>1
<1> HIDE DEF keys
<1>9. keys \in [Ranks -> 0 .. Cap]
  BY <1>7, <1>8
<1> QED
  BY <1>6, <1>9 DEF keys

-----------------------------------------------------------------------------
(* max_lcp and bheap                                                       *)

\* The queue is exactly what is left.
QueueExact ==
  Listed /\ phase = "factorize" =>
    /\ lcp \in [Ranks -> 0 .. Cap] /\ QueueOK(lcp, queue)
    /\ \A r \in Ranks :
         /\ Contains(queue.items, r) <=> Rest[sa[r]] >= threshold
         /\ Contains(queue.items, r) => lcp[r] = Rest[sa[r]]

\* What TakeMax takes.
Taken == FactorOf(Top(lcp, queue))

LEMMA TakenIs ==
  ASSUME Basics, FactorsGood, QueueExact, phase = "factorize", Listed, queue.items # <<>>
  PROVE  /\ SoundRef(text, Ways, threshold, Taken)
         /\ \A k \in 1 .. Len(factors) : Span(factors[k]) \cap Span(Taken) = {}
         /\ \A p \in Ranks : Rest[p] <= Taken.len
         /\ Taken.len <= Cap
<1> DEFINE m == Top(lcp, queue)
           p == sa[m]
           l == lcp[m]
           f == Taken
<1>1. /\ lcp \in [Ranks -> 0 .. Cap] /\ QueueOK(lcp, queue) /\ Cap \in Nat /\ n \in Nat
      /\ threshold \in Nat /\ threshold > 0
      /\ \A r \in Ranks : /\ Contains(queue.items, r) <=> Rest[sa[r]] >= threshold
                          /\ Contains(queue.items, r) => lcp[r] = Rest[sa[r]]
  BY CapIs, BasicFacts DEF QueueExact
<1>2. Contains(queue.items, m) /\ \A o : Contains(queue.items, o) => lcp[o] <= l
  BY <1>1, TopIs
<1>3. m \in 1 .. n - 1 /\ m \in Ranks
  BY <1>1, <1>2, MembersAre
<1> HIDE DEF m
<1>4. p \in 0 .. n - 2 /\ isa[p] = m /\ p \in Ranks
  BY <1>3, RanksAre
<1>5. l = Rest[p] /\ l \in Nat /\ l >= threshold /\ l <= Cap
  BY <1>1, <1>2, <1>3
<1>6. Left(plcp[p], Covered, p, l) /\ plcp[p] \in Nat
  BY <1>4, <1>5, RestIs, KeyOf DEF RestFits
<1>7. f = Factor(p, sa[isa[p] - 1], l) /\ f.pos = p /\ f.len = l
  BY <1>4 DEF Taken, FactorOf, Factor, m
<1>8. SoundRef(text, Ways, threshold, f)
  <2>1. l <= plcp[p] /\ threshold <= l
    BY <1>1, <1>5, <1>6 DEF Left
  <2>2. strategy # "lzss_lcp"
    BY DEF Listed
  <2> HIDE DEF p, l
  <2>3. SoundRef(text, Ways, threshold, Factor(p, sa[isa[p] - 1], l))
    BY <1>4, <1>5, <2>1, <2>2, PieceSound
  <2> QED
    BY <1>7, <2>3
<1>9. ASSUME NEW k \in 1 .. Len(factors) PROVE Span(factors[k]) \cap Span(f) = {}
  <2>1. Span(factors[k]) \subseteq Covered
    BY DEF Covered
  <2>2. \A x \in Span(f) : x \notin Covered
    BY <1>6, <1>7 DEF Left, Span
  <2> QED
    BY <2>1, <2>2
<1>10. ASSUME NEW x \in Ranks PROVE Rest[x] <= f.len
  <2> DEFINE r == isa[x]
  <2>1. r \in Ranks /\ sa[r] = x
    <3>1. isa[x] \in Ranks
      BY BasicFacts
    <3> QED
      BY <3>1, RanksAre
  <2> HIDE DEF r
  <2>2. Rest[x] \in Nat
    BY RestIs DEF RestFits
  <2>3. CASE Contains(queue.items, r)
    BY <1>1, <1>2, <1>7, <2>1, <2>3
  <2>4. CASE ~ Contains(queue.items, r)
    <3>1. ~ (Rest[x] >= threshold)
      BY <1>1, <2>1, <2>4
    <3> HIDE DEF l, f
    <3> QED
      BY <1>1, <1>5, <1>7, <2>2, <3>1
  <2> QED
    BY <2>3, <2>4
<1>11. f.len <= Cap
  BY <1>5, <1>7
<1> QED
  BY <1>8, <1>9, <1>10, <1>11

LEMMA TakeMaxKeeps ==
  ASSUME Basics, FactorsGood, QueueExact, Listed, TakeMax
  PROVE  FactorsGood' /\ QueueExact' /\ \A r \in Ranks : lcp'[r] <= lcp[r]
<1> DEFINE f == Taken
           c == Correct(lcp, queue, f)
<1>1. /\ phase = "factorize" /\ queue.items # <<>>
      /\ factors' = Append(factors, f) /\ lcp' = c.keys /\ queue' = c.q
      /\ UNCHANGED <<text, strategy, threshold, index>>
  BY DEF TakeMax, Taken
<1>2. /\ SoundRef(text, Ways, threshold, f)
      /\ \A k \in 1 .. Len(factors) : Span(factors[k]) \cap Span(f) = {}
      /\ \A p \in Ranks : Rest[p] <= f.len
      /\ f.len <= Cap
  BY <1>1, TakenIs
<1>3. FactorsGood'
  BY <1>1, <1>2, FactorsGrow
<1>4. /\ lcp \in [Ranks -> 0 .. Cap] /\ QueueOK(lcp, queue) /\ Cap \in Nat /\ n \in Nat
      /\ threshold \in Nat /\ threshold > 0
      /\ \A r \in Ranks : /\ Contains(queue.items, r) <=> Rest[sa[r]] >= threshold
                          /\ Contains(queue.items, r) => lcp[r] = Rest[sa[r]]
  BY <1>1, CapIs, BasicFacts DEF QueueExact
<1>5. f \in FactorRec /\ f.pos \in Nat /\ f.len \in Nat /\ f.pos + f.len < n /\ f.len > 0
  <2>1. f \in FactorRec /\ f.pos + f.len < n /\ f.len >= threshold
    BY <1>2 DEF SoundRef, n
  <2>2. f.len \in Nat /\ f.pos \in Nat
    BY <2>1 DEF FactorRec
  <2> QED
    BY <1>4, <2>1, <2>2
<1>6. lcp \in [Ranks -> Nat]
  BY <1>4
<1> HIDE DEF f
<1>7. Shortened(lcp, queue, f, f.len, c)
  <2>1. QueueOK(lcp, queue) /\ Cap \in Nat
    BY <1>4
  <2>2. f \in FactorRec /\ f.pos + f.len < n /\ f.len <= Cap
    BY <1>2, <1>5 DEF f
  <2>3. Shortened(lcp, queue, f, f.len, Correct(lcp, queue, f))
    BY <1>6, <2>1, <2>2, CorrectIs
  <2> QED
    BY <2>3 DEF f
<1> HIDE DEF c
<1>8. /\ Rest'[n - 1] = 0
      /\ \A p \in 0 .. n - 2 :
           Rest'[p] = IF p \in Span(f) THEN 0
                      ELSE IF p < f.pos /\ p + Rest[p] > f.pos THEN f.pos - p ELSE Rest[p]
  BY <1>1, <1>5, RestAfter
<1>9. QueueOK(c.keys, c.q) /\ c.keys \in [Ranks -> Nat]
      /\ \A r \in Ranks :
           /\ Contains(c.q.items, r) <=> /\ Contains(queue.items, r) /\ sa[r] \notin Span(f)
                                         /\ ~ (Reaches(lcp, f, f.len, r) /\ f.pos - sa[r] < threshold)
           /\ c.keys[r] = IF Contains(queue.items, r) /\ Reaches(lcp, f, f.len, r) /\ f.pos - sa[r] >= threshold
                          THEN f.pos - sa[r] ELSE lcp[r]
  BY <1>7 DEF Shortened
<1>10. Rest[n - 1] = 0 /\ Rest \in [Ranks -> Nat]
  BY RestIs DEF RestFits
<1>11. ASSUME NEW r \in Ranks
       PROVE  /\ Contains(c.q.items, r) <=> Rest'[sa[r]] >= threshold
              /\ Contains(c.q.items, r) => c.keys[r] = Rest'[sa[r]]
              /\ c.keys[r] \in 0 .. Cap /\ c.keys[r] <= lcp[r]
  <2> DEFINE p == sa[r]
             a == f.pos
             b == f.len
             x == Rest[p]
             y == Rest'[p]
             k == lcp[r]
             in == p \in Span(f)
             reach == Reaches(lcp, f, b, r)
             Q == Contains(queue.items, r)
             z == c.keys[r]
             P == Contains(c.q.items, r)
  <2>1. p \in Ranks /\ p \in Nat
    BY RanksAre DEF Ranks
  <2>2. x \in Nat /\ x <= b /\ k \in Nat /\ k <= Cap
    BY <1>2, <1>4, <1>10, <2>1
  <2>3. (Q <=> x >= threshold) /\ (Q => k = x)
    BY <1>4
  <2>4. /\ P <=> Q /\ ~ in /\ ~ (reach /\ a - p < threshold)
        /\ z = IF Q /\ reach /\ a - p >= threshold THEN a - p ELSE k
    BY <1>9
  <2>5. in <=> p \in a .. a + b - 1
    BY DEF Span
  <2>6. reach <=> a - p \in 1 .. b /\ k > a - p
    BY DEF Reaches
  <2>7. \/ x = 0 /\ y = 0
        \/ y = IF in THEN 0 ELSE IF p < a /\ p + x > a THEN a - p ELSE x
    <3>1. p = n - 1 \/ p \in 0 .. n - 2
      BY <1>4, <2>1 DEF Ranks
    <3>2. CASE p = n - 1
      BY <1>8, <1>10, <3>2
    <3>3. CASE p \in 0 .. n - 2
      BY <1>8, <3>3
    <3> QED
      BY <3>1, <3>2, <3>3
  <2>8. a \in Nat /\ b \in Nat /\ threshold \in Nat /\ threshold > 0 /\ Cap \in Nat
    BY <1>4, <1>5
  <2> HIDE DEF p, a, b, x, y, k, in, reach, Q, z, P
  <2>9. ASSUME Q PROVE reach <=> p < a /\ p + x > a
    BY <2>1, <2>2, <2>3, <2>6, <2>8, <2>9
  <2>10. P <=> y >= threshold
    <3>1. CASE ~ Q
      <4>1. x < threshold
        BY <2>2, <2>3, <2>8, <3>1
      <4>2. p < a /\ p + x > a => a - p < x
        BY <2>1, <2>2, <2>8
      <4>3. y < threshold
        BY <2>1, <2>2, <2>7, <2>8, <4>1, <4>2
      <4>4. ~ (y >= threshold)
        BY <2>1, <2>2, <2>7, <2>8, <4>3
      <4> QED
        BY <2>4, <3>1, <4>4
    <3>2. CASE Q /\ in
      <4>1. y = 0
        BY <2>7, <3>2
      <4> QED
        BY <2>4, <2>8, <3>2, <4>1
    <3>3. CASE Q /\ ~ in
      <4>1. x >= threshold
        BY <2>3, <3>3
      <4>2. y = IF p < a /\ p + x > a THEN a - p ELSE x
        BY <2>2, <2>7, <2>8, <3>3, <4>1
      <4>3. CASE reach
        <5>1. y = a - p
          BY <2>9, <3>3, <4>2, <4>3
        <5> QED
          BY <2>1, <2>4, <2>8, <3>3, <4>3, <5>1
      <4>4. CASE ~ reach
        <5>1. y = x
          BY <2>9, <3>3, <4>2, <4>4
        <5> QED
          BY <2>4, <3>3, <4>1, <4>4, <5>1
      <4> QED
        BY <4>3, <4>4
    <3> QED
      BY <3>1, <3>2, <3>3
  <2>11. ASSUME P PROVE z = y
    <3>1. Q /\ ~ in /\ ~ (reach /\ a - p < threshold) /\ k = x /\ x >= threshold
      BY <2>3, <2>4, <2>11
    <3>2. y = IF p < a /\ p + x > a THEN a - p ELSE x
      BY <2>2, <2>7, <2>8, <3>1
    <3>3. CASE reach
      <4>1. a - p >= threshold
        BY <2>1, <2>8, <3>1, <3>3
      <4> QED
        BY <2>4, <2>9, <3>1, <3>2, <3>3, <4>1
    <3>4. CASE ~ reach
      BY <2>4, <2>9, <3>1, <3>2, <3>4
    <3> QED
      BY <3>3, <3>4
  <2>12. z \in 0 .. Cap /\ z <= k
    BY <2>1, <2>2, <2>4, <2>6, <2>8
  <2> QED
    BY <2>10, <2>11, <2>12 DEF P, y, z, p, k
<1>12. /\ n' = n /\ Ranks' = Ranks /\ Cap' = Cap /\ threshold' = threshold /\ strategy' = strategy /\ sa' = sa
  BY <1>1, BasicsKept DEF Cap, index
<1>13. c.keys \in [Ranks -> 0 .. Cap]
  BY <1>9, <1>11
<1>14. \A r \in Ranks : /\ Contains(queue'.items, r) <=> Rest'[sa'[r]] >= threshold'
                        /\ Contains(queue'.items, r) => lcp'[r] = Rest'[sa'[r]]
  BY <1>1, <1>11, <1>12
<1>15. QueueOK(lcp, queue)'
  <2>1. QueueOK(lcp', queue')
    BY <1>1, <1>9
  <2> QED
    BY <1>12, <2>1 DEF QueueOK
<1>16. QueueExact'
  <2>1. lcp' \in [Ranks' -> 0 .. Cap']
    BY <1>1, <1>12, <1>13
  <2>2. \A r \in Ranks' : /\ Contains(queue'.items, r) <=> Rest'[sa'[r]] >= threshold'
                          /\ Contains(queue'.items, r) => lcp'[r] = Rest'[sa'[r]]
    BY <1>12, <1>14
  <2> QED
    BY <1>15, <2>1, <2>2 DEF QueueExact
<1> QED
  BY <1>1, <1>3, <1>11, <1>16

LEMMA RestFirst ==
  ASSUME Basics, factors = <<>>
  PROVE  \A r \in Ranks : Rest[sa[r]] = LCPFromPLCP(sa, plcp)[r]
<1>1. Covered = {}
  BY DEF Covered
<1>2. RestFits
  BY RestIs
<1> SUFFICES ASSUME NEW r \in Ranks PROVE Rest[sa[r]] = LCPFromPLCP(sa, plcp)[r]
  OBVIOUS
<1>3. LCPFromPLCP(sa, plcp)[r] = IF r = 0 THEN 0 ELSE plcp[sa[r]]
  BY BasicFacts DEF LCPFromPLCP
<1>4. CASE r = 0
  BY <1>2, <1>3, <1>4, RanksAre DEF RestFits
<1>5. CASE r # 0
  <2> DEFINE p == sa[r]
  <2>1. p \in 0 .. n - 2
    BY <1>5, RanksAre
  <2>2. plcp[p] \in Nat /\ p \in Nat
    BY <2>1, KeyOf
  <2>3. Left(plcp[p], Covered, p, Rest[p])
    BY <1>2, <2>1 DEF RestFits
  <2>4. Left(plcp[p], Covered, p, plcp[p])
    BY <1>1, <2>2 DEF Left
  <2> HIDE DEF p
  <2>5. Rest[p] = plcp[p]
    BY <2>2, <2>3, <2>4, LeftOnly
  <2> QED
    BY <1>3, <1>5, <2>5 DEF p
<1> QED
  BY <1>4, <1>5

\* The entries of the first k ranks are in the queue v.
FilledTo(keys, k, v) ==
  QueueOK(keys, v) /\ \A o : Contains(v.items, o) <=> o \in 1 .. k /\ keys[o] >= threshold

FilledBy(keys, k, v) == IF keys[k] >= threshold THEN Inserted(keys, v, k) ELSE v

LEMMA FillStep ==
  ASSUME Basics, Listed, Cap \in Nat, NEW keys \in [Ranks -> 0 .. Cap], NEW k \in 1 .. n - 1,
         NEW v, FilledTo(keys, k - 1, v)
  PROVE  FilledTo(keys, k, FilledBy(keys, k, v))
<1>1. n \in Nat /\ threshold \in Nat /\ threshold > 0 /\ k \in Nat
  BY BasicFacts
<1>2. QueueOK(keys, v) /\ \A o : Contains(v.items, o) <=> o \in 1 .. k - 1 /\ keys[o] >= threshold
  BY DEF FilledTo
<1>3. \A o : o \in 1 .. k <=> (o \in 1 .. k - 1 \/ o = k)
  BY <1>1
<1>4. k \in Ranks /\ keys[k] \in 0 .. Cap
  BY <1>1 DEF Ranks
<1>5. CASE keys[k] >= threshold
  <2> DEFINE w == Inserted(keys, v, k)
  <2>1. keys[k] \in 1 .. Cap
    BY <1>1, <1>4, <1>5
  <2>2. ~ Contains(v.items, k)
    BY <1>1, <1>2
  <2>3. QueueOK(keys, w) /\ \A o : Contains(w.items, o) <=> Contains(v.items, o) \/ o = k
    BY <1>1, <1>2, <2>1, <2>2, InsertedIs
  <2>4. FilledBy(keys, k, v) = w
    BY <1>5 DEF FilledBy
  <2> HIDE DEF w
  <2> QED
    BY <1>2, <1>3, <1>5, <2>3, <2>4 DEF FilledTo
<1>6. CASE ~ (keys[k] >= threshold)
  BY <1>2, <1>3, <1>6 DEF FilledBy, FilledTo
<1> QED
  BY <1>5, <1>6

LEMMA EmptyIs ==
  ASSUME Basics, Listed, Cap \in Nat, NEW keys, MaxLCP(keys) = Cap
  PROVE  FilledTo(keys, 0, EmptyQueue(keys))
<1> DEFINE e == EmptyQueue(keys)
<1>1. /\ e.items = <<>> /\ e.index = [v \in 1 .. Cap |-> NoItem]
      /\ e = [items |-> e.items, index |-> e.index]
  BY DEF EmptyQueue
<1> HIDE DEF e
<1>2. NoItem \in Int
  BY DEF NoItem
<1>3. Len(e.items) = 0 /\ e.items \in Seq(Nat) /\ e.index \in [1 .. Cap -> Int]
      /\ \A v \in 1 .. Cap : e.index[v] = NoItem
  BY <1>1, <1>2
<1>4. e \in [items : Seq(Nat), index : [1 .. Cap -> Int]]
  BY <1>1, <1>3
<1>5. QueueOK(keys, e)
  BY <1>3, <1>4 DEF QueueOK, ListOK, Injective
<1>6. \A o : ~ Contains(e.items, o)
  BY <1>3 DEF Contains
<1>7. \A o : o \notin 1 .. 0
  OBVIOUS
<1>8. FilledTo(keys, 0, e)
  BY <1>5, <1>6, <1>7 DEF FilledTo
<1> QED
  BY <1>8 DEF e

LEMMA QueueOfIs ==
  ASSUME Basics, Listed, Cap \in Nat, NEW keys \in [Ranks -> 0 .. Cap], MaxLCP(keys) = Cap
  PROVE  FilledTo(keys, n - 1, QueueOf(keys))
<1> DEFINE m == n - 1
           Start == EmptyQueue(keys)
           Loop(L) == L = [k \in Ranks |-> IF k = 0 THEN Start ELSE FilledBy(keys, k, L[k - 1])]
           L0 == CHOOSE L : Loop(L)
           W == [k \in 0 .. m |-> {v \in Queues : FilledTo(keys, k, v)}]
           G == [k \in 1 .. m |-> [v \in Queues |-> FilledBy(keys, k, v)]]
<1>1. QueueOf(keys) = L0[m]
  BY Zenon DEF QueueOf, FilledBy
<1>2. m \in Nat /\ Ranks = 0 .. m
  BY BasicFacts DEF Ranks
<1>3. \A k, v : FilledTo(keys, k, v) => v \in Queues
  BY DEF FilledTo, QueueOK, Queues
<1>4. FilledTo(keys, 0, Start)
  BY EmptyIs
<1>5. \A k \in 1 .. m : \A v \in Queues : FilledTo(keys, k - 1, v) => FilledTo(keys, k, FilledBy(keys, k, v))
  BY FillStep
<1> HIDE DEF m, Start
<1>6. \A k \in 1 .. m : \A v \in W[k - 1] : FilledBy(keys, k, v) \in W[k] /\ v \in Queues
  <2> SUFFICES ASSUME NEW k \in 1 .. m, NEW v \in W[k - 1]
               PROVE  FilledBy(keys, k, v) \in W[k] /\ v \in Queues
    OBVIOUS
  <2>1. k - 1 \in 0 .. m /\ k \in 0 .. m
    BY <1>2
  <2>2. v \in Queues /\ FilledTo(keys, k - 1, v)
    BY <2>1
  <2>3. FilledTo(keys, k, FilledBy(keys, k, v))
    BY <1>5, <2>2
  <2> QED
    BY <1>3, <2>1, <2>2, <2>3
<1>7. Start \in W[0] /\ \A v \in W[m] : FilledTo(keys, m, v)
  BY <1>2, <1>3, <1>4
<1>8. L0[m] \in W[m]
  <2>1. \A L : Loop(L) => L[m] \in W[m]
    <3> SUFFICES ASSUME NEW L, Loop(L) PROVE L[m] \in W[m]
      OBVIOUS
    <3>1. L[0] = Start /\ \A k \in 1 .. m : L[k] = FilledBy(keys, k, L[k - 1])
      BY <1>2
    <3> HIDE DEF Loop, W
    <3>2. L[0] \in W[0] /\ \A k \in 1 .. m : L[k - 1] \in W[k - 1] => L[k] \in W[k]
      BY <1>6, <1>7, <3>1
    <3>3. \A k \in 0 .. m : L[k] \in W[k]
      BY <1>2, <3>2, LoopKeeps
    <3> QED
      BY <1>2, <3>3
  <2>2. \E L : Loop(L)
    <3>0. \A k \in 1 .. m : \A v \in Queues : G[k][v] = FilledBy(keys, k, v)
      OBVIOUS
    <3> HIDE DEF W, G, Loop
    <3>1. \A k \in 1 .. m : \A v \in W[k - 1] : G[k][v] \in W[k]
      BY <1>6, <3>0
    <3>2. PICK L : Trace(m, Start, G, W, L)
      BY <1>2, <1>7, <3>1, LoopGoes
    <3>3. ASSUME NEW k \in 1 .. m PROVE L[k] = FilledBy(keys, k, L[k - 1])
      <4>1. k - 1 \in 0 .. m
        BY <1>2
      <4>2. L[k - 1] \in W[k - 1] /\ L[k] = G[k][L[k - 1]]
        BY <3>2, <4>1 DEF Trace
      <4> QED
        BY <1>6, <3>0, <4>2
    <3>4. ASSUME NEW k \in 0 .. m PROVE L[k] = IF k = 0 THEN Start ELSE FilledBy(keys, k, L[k - 1])
      <4>1. k = 0 \/ k \in 1 .. m
        BY <1>2
      <4> QED
        BY <3>2, <3>3, <4>1 DEF Trace
    <3>5. L = [k \in 0 .. m |-> L[k]]
      BY <3>2 DEF Trace
    <3>6. Loop(L)
      BY <1>2, <3>4, <3>5 DEF Loop
    <3> QED
      BY <3>6
  <2> HIDE DEF Loop, W
  <2> QED
    BY <2>1, <2>2
<1>9. FilledTo(keys, m, L0[m])
  BY <1>7, <1>8
<1> HIDE DEF L0
<1> QED
  BY <1>1, <1>9 DEF m

LEMMA QueueFilled ==
  ASSUME Basics, factors = <<>>, lcp = LCPFromPLCP(sa, plcp), Listed => queue = QueueOf(lcp)
  PROVE  QueueExact
<1> SUFFICES ASSUME Listed
             PROVE  /\ lcp \in [Ranks -> 0 .. Cap] /\ QueueOK(lcp, queue)
                    /\ \A r \in Ranks :
                         /\ Contains(queue.items, r) <=> Rest[sa[r]] >= threshold
                         /\ Contains(queue.items, r) => lcp[r] = Rest[sa[r]]
  BY DEF QueueExact
<1>1. lcp \in [Ranks -> 0 .. Cap] /\ Cap \in Nat /\ MaxLCP(lcp) = Cap
  BY CapIs DEF Cap
<1>2. FilledTo(lcp, n - 1, queue)
  BY <1>1, QueueOfIs
<1>3. \A r \in Ranks : Rest[sa[r]] = lcp[r] /\ (r = 0 \/ r \in 1 .. n - 1)
  BY RestFirst, RanksAre
<1>4. lcp[0] = 0 /\ ~ (0 >= threshold)
  <2>1. sa[0] = n - 1 /\ 0 \in Ranks
    BY RanksAre
  <2> QED
    BY <1>3, <2>1, RestIs, BasicFacts DEF RestFits
<1>5. QueueOK(lcp, queue)
  BY <1>2 DEF FilledTo
<1>6. ASSUME NEW r \in Ranks
      PROVE  /\ Contains(queue.items, r) <=> Rest[sa[r]] >= threshold
             /\ Contains(queue.items, r) => lcp[r] = Rest[sa[r]]
  BY <1>2, <1>3, <1>4 DEF FilledTo
<1> QED
  BY <1>1, <1>5, <1>6

-----------------------------------------------------------------------------
(* arrays                                                                  *)

Arrays == [cand : [1 .. Cap -> Seq(1 .. n - 1)], level : 0 .. Cap, next : Nat \ {0}]

\* Entry r, whose key is `key`, is still to be looked at.
Waits(q, key, r) ==
  \E v \in key .. q.level : \E k \in 1 .. Len(q.cand[v]) :
    q.cand[v][k] = r /\ (v = q.level => k >= q.next)

\* Every key is what is left, and an entry waits where its key files it, or above.
ArraysExact ==
  strategy = "arrays" /\ phase = "factorize" =>
    /\ lcp \in [Ranks -> 0 .. Cap] /\ queue \in Arrays
    /\ \A r \in Ranks : lcp[r] = Rest[sa[r]] /\ (lcp[r] >= threshold => Waits(queue, lcp[r], r))

\* w has the candidates cand, and m with its key unless that is too low.
MoreOf(cand, m, key, w) ==
  /\ w \in [1 .. Cap -> Seq(1 .. n - 1)]
  /\ \A v \in 1 .. Cap : \A k \in 1 .. Len(cand[v]) : k \in 1 .. Len(w[v]) /\ w[v][k] = cand[v][k]
  /\ \A v \in 1 .. Cap : v # key => w[v] = cand[v]
  /\ key >= threshold => key \in 1 .. Cap /\ \E k \in 1 .. Len(w[key]) : w[key][k] = m

LEMMA PushedIs ==
  ASSUME Cap \in Nat, NEW cand \in [1 .. Cap -> Seq(1 .. n - 1)], NEW m \in 1 .. n - 1,
         NEW key \in 0 .. Cap, threshold \in Nat, threshold > 0
  PROVE  MoreOf(cand, m, key, Pushed(cand, m, key))
<1> DEFINE w == Pushed(cand, m, key)
<1>1. CASE key < threshold
  <2>1. w = cand /\ ~ (key >= threshold)
    BY <1>1 DEF Pushed
  <2> HIDE DEF w
  <2> QED
    BY <2>1 DEF w, MoreOf
<1>2. CASE ~ (key < threshold)
  <2> DEFINE s == cand[key]
             t == Append(s, m)
  <2>1. key \in 1 .. Cap /\ w = [cand EXCEPT ![key] = t]
    BY <1>2 DEF Pushed
  <2>2. s \in Seq(1 .. n - 1)
    BY <2>1
  <2>3. /\ t \in Seq(1 .. n - 1) /\ Len(t) = Len(s) + 1 /\ Len(s) \in Nat /\ t[Len(s) + 1] = m
        /\ \A k \in 1 .. Len(s) : t[k] = s[k] /\ k \in 1 .. Len(t)
    BY <2>2
  <2> HIDE DEF w, t
  <2>4. /\ w \in [1 .. Cap -> Seq(1 .. n - 1)] /\ w[key] = t
        /\ \A v \in 1 .. Cap : v # key => w[v] = cand[v]
    BY <2>1, <2>3
  <2>5. Len(s) + 1 \in 1 .. Len(w[key]) /\ w[key][Len(s) + 1] = m
    BY <2>3, <2>4
  <2>6. ASSUME NEW v \in 1 .. Cap, NEW k \in 1 .. Len(cand[v])
        PROVE  k \in 1 .. Len(w[v]) /\ w[v][k] = cand[v][k]
    BY <2>3, <2>4
  <2> QED
    BY <2>1, <2>4, <2>5, <2>6 DEF w, MoreOf
<1> QED
  BY <1>1, <1>2

LEMMA ArraysKeep ==
  ASSUME Basics, FactorsGood, ArraysExact, ArraysStep
  PROVE  FactorsGood' /\ ArraysExact'
<1> DEFINE level == queue.level
           next == queue.next
           cand == queue.cand
           m == cand[level][next]
           f == FactorOf(m)
<1>1. /\ phase = "factorize" /\ strategy = "arrays" /\ level >= threshold
      /\ UNCHANGED <<text, strategy, threshold, index, phase>>
  BY DEF ArraysStep
<1>2. /\ Cap \in Nat /\ n \in Nat /\ threshold \in Nat /\ threshold > 0
      /\ lcp \in [Ranks -> 0 .. Cap] /\ queue \in Arrays
      /\ \A r \in Ranks : lcp[r] = Rest[sa[r]] /\ (lcp[r] >= threshold => Waits(queue, lcp[r], r))
  BY <1>1, CapIs, BasicFacts DEF ArraysExact
<1>3. /\ level \in 1 .. Cap /\ next \in Nat /\ next > 0 /\ cand \in [1 .. Cap -> Seq(1 .. n - 1)]
      /\ cand[level] \in Seq(1 .. n - 1) /\ Len(cand[level]) \in Nat
  <2>1. level \in 0 .. Cap /\ next \in Nat \ {0} /\ cand \in [1 .. Cap -> Seq(1 .. n - 1)]
    BY <1>2 DEF Arrays
  <2>2. level \in 1 .. Cap
    BY <1>1, <1>2, <2>1
  <2>3. cand[level] \in Seq(1 .. n - 1)
    BY <2>1, <2>2
  <2>4. Len(cand[level]) \in Nat
    BY <2>3
  <2> HIDE DEF level, next, cand
  <2>5. next \in Nat /\ next > 0
    BY <2>1
  <2> QED
    BY <2>1, <2>2, <2>3, <2>4, <2>5
<1>4. /\ n' = n /\ Ranks' = Ranks /\ Cap' = Cap /\ threshold' = threshold /\ sa' = sa /\ Basics'
  BY <1>1, BasicsKept DEF Cap, index
<1> DEFINE Goal ==
      /\ lcp' \in [Ranks -> 0 .. Cap] /\ queue' \in Arrays
      /\ \A r \in Ranks : lcp'[r] = Rest'[sa[r]] /\ (lcp'[r] >= threshold => Waits(queue', lcp'[r], r))
<1>5. ASSUME Goal PROVE ArraysExact'
  <2>1. Arrays' = Arrays
    BY <1>4 DEF Arrays
  <2>2. \A r : Waits(queue, lcp[r], r)' <=> Waits(queue', lcp'[r], r)
    BY DEF Waits
  <2> QED
    BY <1>4, <1>5, <2>1, <2>2 DEF ArraysExact
<1>6. ASSUME NEW r \in Ranks, lcp[r] >= threshold
      PROVE  \E v \in lcp[r] .. level : \E k \in 1 .. Len(cand[v]) :
               cand[v][k] = r /\ (v = level => k >= next)
  BY <1>2, <1>6 DEF Waits
<1>7. \A r \in Ranks : lcp[r] \in 0 .. Cap
  BY <1>2
<1>8. UNCHANGED factors => Rest' = Rest /\ FactorsGood'
  <2>1. UNCHANGED factors => Covered' = Covered
    BY DEF Covered, Span
  <2>2. Covered' = Covered => Rest' = Rest
    BY <1>1, <1>4 DEF Rest, Remaining, index
  <2> QED
    BY <1>1, <2>1, <2>2, FactorsKept
<1> HIDE DEF Goal
<1>10. CASE next > Len(cand[level])
  <2>1. queue' = [queue EXCEPT !.level = @ - 1, !.next = 1] /\ UNCHANGED <<lcp, factors>>
    BY <1>10 DEF ArraysStep
  <2>2. queue' \in Arrays /\ queue'.level = level - 1 /\ queue'.next = 1 /\ queue'.cand = cand
    <3>1. queue = [cand |-> cand, level |-> level, next |-> next]
      BY <1>2 DEF Arrays
    <3> HIDE DEF cand, level, next
    <3>2. queue' = [cand |-> cand, level |-> level - 1, next |-> 1]
      BY <2>1, <3>1
    <3> QED
      BY <1>2, <1>3, <3>2 DEF Arrays
  <2>3. ASSUME NEW r \in Ranks, lcp[r] >= threshold PROVE Waits(queue', lcp[r], r)
    <3>1. PICK v \in lcp[r] .. level : \E k \in 1 .. Len(cand[v]) :
               cand[v][k] = r /\ (v = level => k >= next)
      BY <1>6, <2>3
    <3>2. PICK k \in 1 .. Len(cand[v]) : cand[v][k] = r /\ (v = level => k >= next)
      BY <3>1
    <3> HIDE DEF cand, level, next
    <3>3. v # level
      BY <1>3, <1>10, <3>2
    <3>4. v \in lcp[r] .. level - 1 /\ k >= 1
      BY <1>2, <1>3, <1>7, <3>3
    <3> QED
      BY <2>2, <3>2, <3>4 DEF Waits
  <2> HIDE DEF cand, level, next
  <2>4. Goal
    BY <1>2, <1>8, <2>1, <2>2, <2>3 DEF Goal
  <2> QED
    BY <1>5, <1>8, <2>1, <2>4
<1>11. CASE ~ (next > Len(cand[level]))
  <2>1. m \in 1 .. n - 1 /\ m \in Ranks /\ next \in 1 .. Len(cand[level])
    <3>1. next \in 1 .. Len(cand[level])
      <4> HIDE DEF cand, level, next
      <4> QED
        BY <1>3, <1>11
    <3>2. m \in 1 .. n - 1
      <4> DEFINE c == cand[level]
      <4>1. c \in Seq(1 .. n - 1) /\ next \in 1 .. Len(c)
        BY <1>3, <3>1
      <4> HIDE DEF c, next
      <4>2. c[next] \in 1 .. n - 1
        BY <4>1, ElementOfSeq, Zenon
      <4> QED
        BY <4>2 DEF c
    <3> QED
      BY <1>2, <3>1, <3>2 DEF Ranks
  <2>2. CASE lcp[m] < level
    <3> DEFINE w == Pushed(cand, m, lcp[m])
    <3>1. /\ queue' = [queue EXCEPT !.next = @ + 1, !.cand = w]
          /\ UNCHANGED <<lcp, factors>>
      BY <1>11, <2>2 DEF ArraysStep
    <3> HIDE DEF m
    <3>2. /\ w \in [1 .. Cap -> Seq(1 .. n - 1)]
          /\ \A v \in 1 .. Cap : \A k \in 1 .. Len(cand[v]) : k \in 1 .. Len(w[v]) /\ w[v][k] = cand[v][k]
          /\ \A v \in 1 .. Cap : v # lcp[m] => w[v] = cand[v]
          /\ lcp[m] >= threshold => lcp[m] \in 1 .. Cap /\ \E k \in 1 .. Len(w[lcp[m]]) : w[lcp[m]][k] = m
      <4>1. lcp[m] \in 0 .. Cap /\ m \in 1 .. n - 1
        BY <1>7, <2>1
      <4> HIDE DEF cand, level, next
      <4> DEFINE key == lcp[m]
      <4> HIDE DEF key
      <4>2. key \in 0 .. Cap
        BY <4>1 DEF key
      <4>3. MoreOf(cand, m, key, Pushed(cand, m, key))
        BY <1>2, <1>3, <4>1, <4>2, PushedIs
      <4>4. MoreOf(cand, m, lcp[m], w)
        BY <4>3 DEF key, w
      <4> HIDE DEF w
      <4> QED
        BY <4>4 DEF MoreOf
    <3> HIDE DEF w
    <3>3. queue' \in Arrays /\ queue'.level = level /\ queue'.next = next + 1 /\ queue'.cand = w
      <4>1. queue = [cand |-> cand, level |-> level, next |-> next]
        BY <1>2 DEF Arrays
      <4> HIDE DEF cand, level, next
      <4>2. queue' = [cand |-> w, level |-> level, next |-> next + 1]
        BY <3>1, <4>1
      <4> QED
        BY <1>2, <1>3, <3>2, <4>2, SMTT(30) DEF Arrays
    <3>4. cand[level][next] = m
      BY DEF m
    <3> HIDE DEF cand, level, next
    <3>5. ASSUME NEW r \in Ranks, lcp[r] >= threshold PROVE Waits(queue', lcp[r], r)
      <4>1. CASE r = m
        <5>1. PICK k \in 1 .. Len(w[lcp[m]]) : w[lcp[m]][k] = m
          BY <3>2, <3>5, <4>1
        <5>2. lcp[m] \in lcp[m] .. level /\ lcp[m] # level
          BY <1>3, <1>7, <2>1, <2>2
        <5> QED
          BY <3>3, <4>1, <5>1, <5>2 DEF Waits
      <4>2. CASE r # m
        <5>1. PICK v \in lcp[r] .. level : \E k \in 1 .. Len(cand[v]) :
                 cand[v][k] = r /\ (v = level => k >= next)
          BY <1>6, <3>5
        <5>2. PICK k \in 1 .. Len(cand[v]) : cand[v][k] = r /\ (v = level => k >= next)
          BY <5>1
        <5>3. v \in 1 .. Cap
          BY <1>2, <1>3, <1>7, <3>5
        <5>4. v = level => k >= next + 1
          <6>1. v = level => k # next
            BY <3>4, <4>2, <5>2
          <6>2. Len(cand[v]) \in Nat
            BY <1>3, <5>3
          <6> QED
            BY <1>3, <5>2, <6>1, <6>2
        <5>5. k \in 1 .. Len(w[v]) /\ w[v][k] = r
          BY <3>2, <5>2, <5>3
        <5> QED
          BY <3>3, <5>4, <5>5 DEF Waits
      <4> QED
        BY <4>1, <4>2
    <3>6. Goal
      BY <1>2, <1>8, <3>1, <3>3, <3>5 DEF Goal
    <3> QED
      BY <1>5, <1>8, <3>1, <3>6
  <2>3. CASE ~ (lcp[m] < level)
    <3> DEFINE now(r) == IF sa[r] \in Span(f) THEN 0
                         ELSE IF f.pos - sa[r] \in 1 .. f.len
                              THEN IF f.pos - sa[r] < lcp[r] THEN f.pos - sa[r] ELSE lcp[r]
                              ELSE lcp[r]
    <3>1. /\ factors' = Append(factors, f) /\ lcp' = [r \in Ranks |-> now(r)]
          /\ queue' = [queue EXCEPT !.next = @ + 1]
      BY <1>11, <2>3 DEF ArraysStep
    <3>2. cand[level][next] = m /\ f = Factor(sa[m], sa[m - 1], lcp[m])
      BY DEF FactorOf
    <3> HIDE DEF m, f, now
    <3>3. queue' \in Arrays /\ queue'.level = level /\ queue'.next = next + 1 /\ queue'.cand = cand
      <4>1. queue = [cand |-> cand, level |-> level, next |-> next]
        BY <1>2 DEF Arrays
      <4> HIDE DEF cand, level, next
      <4>2. queue' = [cand |-> cand, level |-> level, next |-> next + 1]
        BY <3>1, <4>1
      <4> QED
        BY <1>2, <1>3, <4>2 DEF Arrays
    <3> HIDE DEF cand, level, next
    <3>4. \A r \in Ranks : lcp[r] <= level
      <4> SUFFICES ASSUME NEW r \in Ranks PROVE lcp[r] <= level
        OBVIOUS
      <4>1. CASE lcp[r] >= threshold
        <5>1. \E v \in lcp[r] .. level : TRUE
          BY <1>6, <4>1
        <5> QED
          BY <1>3, <1>7, <5>1
      <4>2. CASE ~ (lcp[r] >= threshold)
        <5>1. lcp[r] \in Nat
          BY <1>7
        <5> QED
          BY <1>1, <1>2, <1>3, <4>2, <5>1
      <4> QED
        BY <4>1, <4>2
    <3> DEFINE p0 == sa[m]
               l0 == lcp[m]
    <3>5. l0 = level /\ l0 \in Nat
      <4>1. l0 \in Nat /\ l0 <= level
        BY <1>7, <2>1, <3>4
      <4> HIDE DEF l0
      <4>2. ~ (l0 < level)
        BY <2>3 DEF l0
      <4> QED
        BY <1>3, <4>1, <4>2
    <3>6. /\ p0 \in 0 .. n - 2 /\ isa[p0] = m /\ l0 = Rest[p0]
          /\ f = Factor(p0, sa[isa[p0] - 1], l0) /\ f.pos = p0 /\ f.len = l0
      <4>1. p0 \in 0 .. n - 2 /\ isa[p0] = m /\ l0 = Rest[p0]
        BY <1>2, <2>1, RanksAre
      <4> QED
        BY <3>2, <4>1 DEF Factor
    <3>7. Left(plcp[p0], Covered, p0, l0) /\ plcp[p0] \in Nat
      <4> HIDE DEF p0, l0
      <4> QED
        BY <3>6, RestIs, KeyOf DEF RestFits
    <3> HIDE DEF p0, l0
    <3>8. SoundRef(text, Ways, threshold, f)
      <4>1. l0 <= plcp[p0] /\ threshold <= l0 /\ strategy # "lzss_lcp"
        BY <1>1, <1>2, <1>3, <3>5, <3>7 DEF Left
      <4>2. SoundRef(text, Ways, threshold, Factor(p0, sa[isa[p0] - 1], l0))
        BY <3>5, <3>6, <4>1, PieceSound
      <4> QED
        BY <3>6, <4>2
    <3>9. ASSUME NEW k \in 1 .. Len(factors) PROVE Span(factors[k]) \cap Span(f) = {}
      <4>1. Span(factors[k]) \subseteq Covered
        BY DEF Covered
      <4>2. \A x \in Span(f) : x \notin Covered
        BY <3>6, <3>7 DEF Left, Span
      <4> QED
        BY <4>1, <4>2
    <3>10. FactorsGood'
      BY <1>1, <3>1, <3>8, <3>9, FactorsGrow
    <3>11. f \in FactorRec /\ f.pos \in Nat /\ f.len \in Nat /\ f.len > 0
      <4>1. f \in FactorRec
        BY <3>8 DEF SoundRef
      <4> QED
        BY <1>3, <3>5, <3>6, <4>1 DEF FactorRec
    <3>12. /\ Rest'[n - 1] = 0
           /\ \A p \in 0 .. n - 2 :
                Rest'[p] = IF p \in Span(f) THEN 0
                           ELSE IF p < f.pos /\ p + Rest[p] > f.pos THEN f.pos - p ELSE Rest[p]
      BY <1>1, <3>1, <3>11, RestAfter
    <3>13. Rest[n - 1] = 0
      BY RestIs DEF RestFits
    <3>14. ASSUME NEW r \in Ranks PROVE now(r) = Rest'[sa[r]] /\ now(r) \in 0 .. lcp[r]
      <4> DEFINE p == sa[r]
                 a == f.pos
                 b == f.len
                 x == lcp[r]
                 in == p \in Span(f)
                 y == Rest'[p]
      <4>1. p \in Ranks /\ p \in Nat /\ x = Rest[p] /\ x \in Nat /\ x <= b
        BY <1>2, <1>7, <3>4, <3>5, <3>6, RanksAre DEF Ranks
      <4>2. \/ p = n - 1 /\ x = 0 /\ y = 0
            \/ y = IF in THEN 0 ELSE IF p < a /\ p + x > a THEN a - p ELSE x
        <5>1. p = n - 1 \/ p \in 0 .. n - 2
          <6> HIDE DEF p, x
          <6> QED
            BY <1>2, <4>1 DEF Ranks
        <5>2. CASE p = n - 1
          BY <3>12, <3>13, <4>1, <5>2
        <5>3. CASE p \in 0 .. n - 2
          BY <3>12, <4>1, <5>3
        <5> QED
          BY <5>1, <5>2, <5>3
      <4>3. now(r) = IF in THEN 0
                     ELSE IF a - p \in 1 .. b THEN IF a - p < x THEN a - p ELSE x ELSE x
        BY DEF now
      <4>4. a \in Nat /\ b \in Nat
        BY <3>11
      <4> DEFINE z == now(r)
      <4> HIDE DEF p, a, b, x, in, y, z
      <4>5. z = IF in THEN 0
                ELSE IF a - p \in 1 .. b THEN IF a - p < x THEN a - p ELSE x ELSE x
        BY <4>3 DEF z
      <4>6. z = y /\ z \in 0 .. x
        BY <4>1, <4>2, <4>4, <4>5
      <4> QED
        BY <4>6 DEF z, y, x, p
    <3>15. ASSUME NEW r \in Ranks, now(r) >= threshold PROVE Waits(queue', now(r), r)
      <4>1. now(r) \in 0 .. lcp[r] /\ lcp[r] \in 0 .. Cap
        BY <1>7, <3>14
      <4> DEFINE z == now(r)
                 x == lcp[r]
      <4> HIDE DEF z, x
      <4>2. x >= threshold /\ z \in Nat /\ x \in Nat /\ z <= x /\ z >= threshold
        BY <1>2, <3>15, <4>1 DEF z, x
      <4>3. r # m
        <5>1. p0 \in Span(f)
          BY <3>6, <3>11, <3>5, <1>3 DEF Span
        <5>2. r = m => z = 0
          BY <5>1 DEF now, p0, z
        <5> QED
          BY <1>2, <4>2, <5>2
      <4>4. PICK v \in x .. level : \E k \in 1 .. Len(cand[v]) :
               cand[v][k] = r /\ (v = level => k >= next)
        BY <1>6, <4>2 DEF x
      <4>5. PICK k \in 1 .. Len(cand[v]) : cand[v][k] = r /\ (v = level => k >= next)
        BY <4>4
      <4>6. v \in 1 .. Cap /\ v \in z .. level
        BY <1>2, <1>3, <4>2
      <4>7. v = level => k >= next + 1
        <5>1. v = level => k # next
          BY <3>2, <4>3, <4>5
        <5>2. Len(cand[v]) \in Nat
          BY <1>3, <4>6
        <5> QED
          BY <1>3, <4>5, <5>1, <5>2
      <4>8. Waits(queue', z, r)
        BY <3>3, <4>5, <4>6, <4>7 DEF Waits
      <4> QED
        BY <4>8 DEF z
    <3>16. \A r \in Ranks : lcp'[r] = now(r)
      BY <3>1
    <3>17. lcp' \in [Ranks -> 0 .. Cap]
      <4>1. \A r \in Ranks : now(r) \in 0 .. Cap
        <5> SUFFICES ASSUME NEW r \in Ranks PROVE now(r) \in 0 .. Cap
          OBVIOUS
        <5>1. now(r) \in 0 .. lcp[r] /\ lcp[r] \in 0 .. Cap
          BY <1>7, <3>14
        <5> QED
          BY <1>2, <5>1
      <4> QED
        BY <3>1, <4>1
    <3>18. Goal
      BY <3>3, <3>14, <3>15, <3>16, <3>17 DEF Goal
    <3> QED
      BY <1>5, <3>10, <3>18
  <2> QED
    BY <2>2, <2>3
<1> QED
  BY <1>10, <1>11

\* The candidates among the first k ranks are in c.
CandidatesTo(keys, k, c) ==
  /\ c \in [1 .. Cap -> Seq(1 .. n - 1)]
  /\ \A r \in 1 .. k : keys[r] >= threshold => \E j \in 1 .. Len(c[keys[r]]) : c[keys[r]][j] = r

LEMMA CandidateStep ==
  ASSUME Basics, Cap \in Nat, NEW keys \in [Ranks -> 0 .. Cap], NEW k \in 1 .. n - 1,
         NEW c, CandidatesTo(keys, k - 1, c)
  PROVE  CandidatesTo(keys, k, Pushed(c, k, keys[k]))
<1> DEFINE w == Pushed(c, k, keys[k])
<1>1. n \in Nat /\ threshold \in Nat /\ threshold > 0 /\ k \in Nat
  BY BasicFacts
<1>2. c \in [1 .. Cap -> Seq(1 .. n - 1)]
  BY DEF CandidatesTo
<1>3. \A r \in 1 .. k : r \in Ranks /\ (r \in 1 .. k - 1 \/ r = k)
  BY <1>1 DEF Ranks
<1>4. keys[k] \in 0 .. Cap
  <2>1. k \in 1 .. k
    BY <1>1
  <2> QED
    BY <1>3, <2>1
<1>5. MoreOf(c, k, keys[k], w)
  <2> DEFINE key == keys[k]
  <2>1. key \in 0 .. Cap
    BY <1>4
  <2> HIDE DEF key
  <2>2. MoreOf(c, k, key, Pushed(c, k, key))
    BY <1>1, <1>2, <2>1, PushedIs
  <2> QED
    BY <2>2 DEF key
<1> HIDE DEF w
<1>6. ASSUME NEW r \in 1 .. k, keys[r] >= threshold
      PROVE  \E j \in 1 .. Len(w[keys[r]]) : w[keys[r]][j] = r
  <2>1. CASE r = k
    BY <1>5, <1>6, <2>1 DEF MoreOf
  <2>2. CASE r # k
    <3>1. PICK j \in 1 .. Len(c[keys[r]]) : c[keys[r]][j] = r
      BY <1>3, <1>6, <2>2 DEF CandidatesTo
    <3>2. keys[r] \in 1 .. Cap
      <4> DEFINE x == keys[r]
      <4>1. x \in 0 .. Cap /\ x >= threshold
        BY <1>3, <1>6
      <4> HIDE DEF x
      <4>2. x \in 1 .. Cap
        BY <1>1, <4>1
      <4> QED
        BY <4>2 DEF x
    <3> QED
      BY <1>5, <3>1, <3>2 DEF MoreOf
  <2> QED
    BY <2>1, <2>2
<1>7. CandidatesTo(keys, k, w)
  BY <1>5, <1>6 DEF CandidatesTo, MoreOf
<1> QED
  BY <1>7 DEF w

LEMMA ArraysOfIs ==
  ASSUME Basics, Cap \in Nat, NEW keys \in [Ranks -> 0 .. Cap], MaxLCP(keys) = Cap
  PROVE  /\ ArraysOf(keys) = [cand |-> ArraysOf(keys).cand, level |-> Cap, next |-> 1]
         /\ CandidatesTo(keys, n - 1, ArraysOf(keys).cand)
<1> DEFINE m == n - 1
           Start == [v \in 1 .. MaxLCP(keys) |-> <<>>]
           Loop(L) == L = [k \in Ranks |-> IF k = 0 THEN Start ELSE Pushed(L[k - 1], k, keys[k])]
           L0 == CHOOSE L : Loop(L)
           S == [1 .. Cap -> Seq(1 .. n - 1)]
           W == [k \in 0 .. m |-> {v \in S : CandidatesTo(keys, k, v)}]
           G == [k \in 1 .. m |-> [v \in S |-> Pushed(v, k, keys[k])]]
<1>1. ArraysOf(keys) = [cand |-> L0[m], level |-> MaxLCP(keys), next |-> 1]
  BY Zenon DEF ArraysOf
<1>2. m \in Nat /\ Ranks = 0 .. m
  BY BasicFacts DEF Ranks
<1>3. \A k, v : CandidatesTo(keys, k, v) => v \in S
  BY DEF CandidatesTo
<1>4. CandidatesTo(keys, 0, Start)
  <2>1. Start \in S
    <3>1. Start = [v \in 1 .. Cap |-> <<>>]
      OBVIOUS
    <3>2. <<>> \in Seq(1 .. n - 1)
      OBVIOUS
    <3> QED
      BY <3>1, <3>2
  <2>2. \A r : r \notin 1 .. 0
    OBVIOUS
  <2> QED
    BY <2>1, <2>2 DEF CandidatesTo
<1>5. \A k \in 1 .. m : \A v \in S : CandidatesTo(keys, k - 1, v) => CandidatesTo(keys, k, Pushed(v, k, keys[k]))
  BY CandidateStep
<1> HIDE DEF m, Start, S
<1>6. \A k \in 1 .. m : \A v \in W[k - 1] : Pushed(v, k, keys[k]) \in W[k] /\ v \in S
  <2> SUFFICES ASSUME NEW k \in 1 .. m, NEW v \in W[k - 1]
               PROVE  Pushed(v, k, keys[k]) \in W[k] /\ v \in S
    OBVIOUS
  <2>1. k - 1 \in 0 .. m /\ k \in 0 .. m
    BY <1>2
  <2>2. v \in S /\ CandidatesTo(keys, k - 1, v)
    BY <2>1
  <2>3. CandidatesTo(keys, k, Pushed(v, k, keys[k]))
    BY <1>5, <2>2
  <2> QED
    BY <1>3, <2>1, <2>2, <2>3
<1>7. Start \in W[0] /\ \A v \in W[m] : CandidatesTo(keys, m, v)
  BY <1>2, <1>3, <1>4
<1>8. L0[m] \in W[m]
  <2>1. \A L : Loop(L) => L[m] \in W[m]
    <3> SUFFICES ASSUME NEW L, Loop(L) PROVE L[m] \in W[m]
      OBVIOUS
    <3>1. L[0] = Start /\ \A k \in 1 .. m : L[k] = Pushed(L[k - 1], k, keys[k])
      BY <1>2
    <3> HIDE DEF Loop, W
    <3>2. L[0] \in W[0] /\ \A k \in 1 .. m : L[k - 1] \in W[k - 1] => L[k] \in W[k]
      BY <1>6, <1>7, <3>1
    <3>3. \A k \in 0 .. m : L[k] \in W[k]
      BY <1>2, <3>2, LoopKeeps
    <3> QED
      BY <1>2, <3>3
  <2>2. \E L : Loop(L)
    <3>0. \A k \in 1 .. m : \A v \in S : G[k][v] = Pushed(v, k, keys[k])
      OBVIOUS
    <3> HIDE DEF W, G, Loop
    <3>1. \A k \in 1 .. m : \A v \in W[k - 1] : G[k][v] \in W[k]
      BY <1>6, <3>0
    <3>2. PICK L : Trace(m, Start, G, W, L)
      BY <1>2, <1>7, <3>1, LoopGoes
    <3>3. ASSUME NEW k \in 1 .. m PROVE L[k] = Pushed(L[k - 1], k, keys[k])
      <4>1. k - 1 \in 0 .. m
        BY <1>2
      <4>2. L[k - 1] \in W[k - 1] /\ L[k] = G[k][L[k - 1]]
        BY <3>2, <4>1 DEF Trace
      <4> QED
        BY <1>6, <3>0, <4>2
    <3>4. ASSUME NEW k \in 0 .. m PROVE L[k] = IF k = 0 THEN Start ELSE Pushed(L[k - 1], k, keys[k])
      <4>1. k = 0 \/ k \in 1 .. m
        BY <1>2
      <4> QED
        BY <3>2, <3>3, <4>1 DEF Trace
    <3>5. L = [k \in 0 .. m |-> L[k]]
      BY <3>2 DEF Trace
    <3>6. Loop(L)
      BY <1>2, <3>4, <3>5 DEF Loop
    <3> QED
      BY <3>6
  <2> HIDE DEF Loop, W
  <2> QED
    BY <2>1, <2>2
<1>9. CandidatesTo(keys, m, L0[m])
  BY <1>7, <1>8
<1> HIDE DEF L0
<1> QED
  BY <1>1, <1>9 DEF m

LEMMA ArraysFilled ==
  ASSUME Basics, factors = <<>>, lcp = LCPFromPLCP(sa, plcp),
         strategy = "arrays" => queue = ArraysOf(lcp)
  PROVE  ArraysExact
<1> SUFFICES ASSUME strategy = "arrays"
             PROVE  /\ lcp \in [Ranks -> 0 .. Cap] /\ queue \in Arrays
                    /\ \A r \in Ranks : lcp[r] = Rest[sa[r]] /\ (lcp[r] >= threshold => Waits(queue, lcp[r], r))
  BY DEF ArraysExact
<1>1. lcp \in [Ranks -> 0 .. Cap] /\ Cap \in Nat /\ MaxLCP(lcp) = Cap
  BY CapIs DEF Cap
<1> DEFINE c == ArraysOf(lcp).cand
<1>2. queue = [cand |-> c, level |-> Cap, next |-> 1] /\ CandidatesTo(lcp, n - 1, c)
  BY <1>1, ArraysOfIs
<1> HIDE DEF c
<1>3. queue \in Arrays /\ queue.cand = c /\ queue.level = Cap /\ queue.next = 1
  BY <1>1, <1>2 DEF CandidatesTo, Arrays
<1>4. \A r \in Ranks : Rest[sa[r]] = lcp[r] /\ (r = 0 \/ r \in 1 .. n - 1)
  BY RestFirst, RanksAre
<1>5. lcp[0] = 0 /\ ~ (0 >= threshold)
  <2>1. sa[0] = n - 1 /\ 0 \in Ranks
    BY RanksAre
  <2> QED
    BY <1>4, <2>1, RestIs, BasicFacts DEF RestFits
<1>6. ASSUME NEW r \in Ranks, lcp[r] >= threshold PROVE Waits(queue, lcp[r], r)
  <2>1. r \in 1 .. n - 1
    BY <1>4, <1>5, <1>6
  <2>2. PICK j \in 1 .. Len(c[lcp[r]]) : c[lcp[r]][j] = r
    BY <1>2, <1>6, <2>1 DEF CandidatesTo
  <2>3. lcp[r] \in lcp[r] .. Cap
    BY <1>1
  <2>4. j >= 1
    OBVIOUS
  <2> QED
    BY <1>3, <2>2, <2>3, <2>4 DEF Waits
<1> QED
  BY <1>1, <1>3, <1>4, <1>6

-----------------------------------------------------------------------------
(* The choice is greedy.                                                   *)

LEMMA LongestIs ==
  ASSUME Basics, NEW l, \A p \in Ranks : Rest[p] <= l PROVE LongestLeft(l)
BY RestIs DEF RestFits, LongestLeft

LEMMA TakeMaxGreedy ==
  ASSUME Basics, FactorsGood, QueueExact, Listed, TakeMax
  PROVE  LongestLeft(factors'[Len(factors')].len)
<1>1. /\ phase = "factorize" /\ queue.items # <<>>
      /\ factors' = Append(factors, Taken)
  BY DEF TakeMax, Taken
<1>2. /\ SoundRef(text, Ways, threshold, Taken)
      /\ \A k \in 1 .. Len(factors) : Span(factors[k]) \cap Span(Taken) = {}
      /\ \A p \in Ranks : Rest[p] <= Taken.len
  BY <1>1, TakenIs
<1>3. factors'[Len(factors')] = Taken
  BY <1>1, <1>2, OneMore
<1> QED
  BY <1>2, <1>3, LongestIs

\* What waits in the arrays is not longer than the key that is worked on.
LEMMA LevelIs ==
  ASSUME Basics, ArraysExact, strategy = "arrays", phase = "factorize"
  PROVE  /\ \A r \in Ranks : Rest[sa[r]] \in Nat /\ lcp[r] = Rest[sa[r]]
         /\ queue.level \in Nat
         /\ \A r \in Ranks : Rest[sa[r]] >= threshold => Rest[sa[r]] <= queue.level
<1>1. /\ Cap \in Nat /\ threshold \in Nat /\ lcp \in [Ranks -> 0 .. Cap] /\ queue \in Arrays
      /\ \A r \in Ranks : lcp[r] = Rest[sa[r]] /\ (lcp[r] >= threshold => Waits(queue, lcp[r], r))
  BY CapIs, BasicFacts DEF ArraysExact
<1>2. queue.level \in Nat
  BY <1>1 DEF Arrays
<1>3. \A r \in Ranks : lcp[r] \in Nat
  BY <1>1
<1>4. ASSUME NEW r \in Ranks, lcp[r] >= threshold PROVE lcp[r] <= queue.level
  <2>1. Waits(queue, lcp[r], r)
    BY <1>1, <1>4
  <2>2. PICK v \in lcp[r] .. queue.level : TRUE
    BY <2>1 DEF Waits
  <2> QED
    BY <1>2, <1>3, <2>2
<1> QED
  BY <1>1, <1>2, <1>3, <1>4

LEMMA RestOfRanks ==
  ASSUME Basics, NEW l, \A r \in Ranks : Rest[sa[r]] <= l
  PROVE  LongestLeft(l)
<1>1. ASSUME NEW p \in Ranks PROVE Rest[p] <= l
  <2>1. isa[p] \in Ranks
    BY BasicFacts
  <2>2. sa[isa[p]] = p
    BY <2>1, RanksAre
  <2> QED
    BY <2>1, <2>2
<1> QED
  BY <1>1, LongestIs

LEMMA ArraysGreedy ==
  ASSUME Basics, FactorsGood, ArraysExact, ArraysStep, Len(factors') > Len(factors)
  PROVE  LongestLeft(factors'[Len(factors')].len)
<1> DEFINE level == queue.level
           next == queue.next
           cand == queue.cand
           m == cand[level][next]
           f == FactorOf(m)
<1>1. /\ phase = "factorize" /\ strategy = "arrays" /\ level >= threshold
  BY DEF ArraysStep
<1>2. factors \in Seq(FactorRec) /\ Len(factors) \in Nat /\ threshold \in Nat
  BY BasicFacts DEF FactorsGood, SoundRefs
<1>3. ~ (next > Len(cand[level])) /\ ~ (lcp[m] < level) /\ factors' = Append(factors, f)
  <2>1. factors' # factors
    BY <1>2
  <2> QED
    BY <2>1 DEF ArraysStep
<1>4. factors'[Len(factors')] = f
  BY <1>2, <1>3
<1>5. f.len = lcp[m]
  BY DEF FactorOf, Factor
<1>6. /\ \A r \in Ranks : Rest[sa[r]] \in Nat /\ lcp[r] = Rest[sa[r]]
      /\ level \in Nat
      /\ \A r \in Ranks : Rest[sa[r]] >= threshold => Rest[sa[r]] <= level
  BY <1>1, LevelIs
<1>7. m \in Ranks
  <2>1. queue \in Arrays /\ n \in Nat /\ Cap \in Nat /\ threshold > 0
    BY <1>1, BasicFacts, CapIs DEF ArraysExact
  <2>2. level \in 0 .. Cap /\ next \in Nat \ {0} /\ cand \in [1 .. Cap -> Seq(1 .. n - 1)]
    BY <2>1 DEF Arrays
  <2> DEFINE c == cand[level]
  <2>3. c \in Seq(1 .. n - 1) /\ Len(c) \in Nat
    <3>1. level \in 1 .. Cap
      <4> HIDE DEF level
      <4> QED
        BY <1>1, <1>2, <2>1, <2>2
    <3> HIDE DEF level, next, cand
    <3>2. c \in Seq(1 .. n - 1)
      BY <2>2, <3>1
    <3> HIDE DEF c
    <3> QED
      BY <3>2
  <2> HIDE DEF level, next, cand, c
  <2>4. next \in 1 .. Len(c)
    BY <1>3, <2>2, <2>3 DEF c
  <2>5. c[next] \in 1 .. n - 1
    BY <2>3, <2>4, ElementOfSeq, Zenon
  <2>6. m \in 1 .. n - 1
    BY <2>5 DEF c
  <2> HIDE DEF m
  <2> QED
    BY <2>1, <2>6 DEF Ranks
<1> DEFINE x == lcp[m]
<1>8. ~ (x < level) /\ x \in Nat
  BY <1>3, <1>6, <1>7
<1> HIDE DEF level, x, m, f
<1>9. ASSUME NEW r \in Ranks PROVE Rest[sa[r]] <= x
  <2> DEFINE y == Rest[sa[r]]
  <2>1. y \in Nat /\ (y >= threshold => y <= level)
    BY <1>6
  <2> HIDE DEF y
  <2>2. y <= x
    BY <1>1, <1>2, <1>6, <1>8, <2>1
  <2> QED
    BY <2>2 DEF y
<1>10. LongestLeft(x)
  BY <1>9, RestOfRanks
<1> QED
  BY <1>4, <1>5, <1>10 DEF x

LEMMA EncodeGreedy ==
  ASSUME Basics, FactorsGood, QueueExact, ArraysExact, Encode, Greedy
  PROVE  Len(factors') = Len(factors) /\ LongestLeft(threshold - 1)
<1>1. phase = "factorize" /\ Factorized
  BY DEF Encode, Factorized
<1>2. Len(factors') = Len(factors)
  <2> DEFINE gs == Sorted(factors)
  <2>1. factors' = gs \/ factors' = Flattened(gs)
    BY DEF Encode
  <2>2. Len(gs) = Len(factors)
    BY SortedIs DEF FactorsGood, SoundRefs
  <2>3. Len(Flattened(gs)) = Len(gs)
    <3>1. Ways = isa
      BY WaysIs DEF Greedy
    <3>2. SoundRefs(text, isa, threshold, gs)
      BY <3>1, EncodedGood
    <3>3. Ended(text) /\ Ordered(text, sa, isa)
      BY BasicFacts
    <3> HIDE DEF gs
    <3>4. SamePlaces(gs, Flattened(gs))
      BY <3>2, <3>3, FlattenedIs
    <3> QED
      BY <3>4 DEF SamePlaces
  <2> QED
    BY <2>1, <2>2, <2>3
<1>3. threshold \in Nat /\ threshold > 0
  BY BasicFacts
<1>4. ASSUME NEW r \in Ranks PROVE Rest[sa[r]] \in Nat /\ ~ (Rest[sa[r]] >= threshold)
  <2>1. CASE strategy = "arrays"
    <3> DEFINE y == Rest[sa[r]]
               level == queue.level
    <3>1. level < threshold
      BY <1>1, <2>1 DEF Factorized, Queued
    <3>2. y \in Nat /\ level \in Nat /\ (y >= threshold => y <= level)
      BY <1>1, <2>1, LevelIs
    <3> HIDE DEF y, level
    <3>3. ~ (y >= threshold)
      BY <1>3, <3>1, <3>2
    <3> QED
      BY <3>2, <3>3 DEF y
  <2>2. CASE strategy # "arrays"
    <3>1. Listed /\ Queued
      BY <2>2 DEF Greedy, Listed, Queued
    <3>2. queue.items = <<>>
      BY <1>1, <3>1 DEF Factorized
    <3>3. ~ Contains(queue.items, r)
      BY <3>2 DEF Contains
    <3>4. ~ (Rest[sa[r]] >= threshold)
      BY <1>1, <3>1, <3>3 DEF QueueExact
    <3>5. sa[r] \in Ranks
      BY RanksAre
    <3> QED
      BY <3>4, <3>5, RestIs DEF RestFits
  <2> QED
    BY <2>1, <2>2
<1>5. ASSUME NEW r \in Ranks PROVE Rest[sa[r]] <= threshold - 1
  <2> DEFINE y == Rest[sa[r]]
  <2>1. y \in Nat /\ ~ (y >= threshold)
    BY <1>4
  <2> HIDE DEF y
  <2>2. y <= threshold - 1
    BY <1>3, <2>1
  <2> QED
    BY <2>2 DEF y
<1> QED
  BY <1>2, <1>5, RestOfRanks

-----------------------------------------------------------------------------
(* plcp                                                                    *)

\* Matches shrink by at most one per position.
LEMMA MatchesShrink ==
  ASSUME Basics, NEW p \in 0 .. n - 2, NEW d \in Nat, p + d <= n - 2
  PROVE  plcp[p] - d <= plcp[p + d]
<1> DEFINE T == {e \in Nat : p + e <= n - 2 => plcp[p] - e <= plcp[p + e]}
<1>1. n \in Nat /\ p \in Nat
  BY BasicFacts
<1>2. 0 \in T
  <2>1. plcp[p] \in Nat /\ p + 0 = p
    BY <1>1, KeyOf
  <2> QED
    BY <1>1, <2>1
<1>3. ASSUME NEW e \in Nat, e \in T PROVE e + 1 \in T
  <2> SUFFICES ASSUME p + (e + 1) <= n - 2 PROVE plcp[p] - (e + 1) <= plcp[p + (e + 1)]
    BY DEF T
  <2> DEFINE q == p + e
  <2>1. q \in 0 .. n - 3 /\ q \in 0 .. n - 2 /\ q + 1 \in 0 .. n - 2 /\ p + (e + 1) = q + 1
    BY <1>1
  <2>2. plcp[p] - e <= plcp[q]
    BY <1>1, <1>3
  <2> HIDE DEF q
  <2> DEFINE x == plcp[q]
             y == plcp[q + 1]
             z == plcp[p]
  <2>3. Match(text, q, Phi(sa, isa, q), x) /\ Match(text, q + 1, Phi(sa, isa, q + 1), y)
    BY <2>1 DEF Basics, Indexed, n
  <2>4. x - 1 <= y
    <3>1. q \in 0 .. Len(text) - 3 /\ Ended(text) /\ Ordered(text, sa, isa)
      BY <2>1, BasicFacts DEF n
    <3> HIDE DEF x, y
    <3> QED
      BY <2>3, <3>1, MatchesShrinkByOne
  <2>5. x \in Nat /\ y \in Nat /\ z \in Nat
    BY <2>1, KeyOf
  <2>6. z - e <= x
    BY <2>2
  <2> HIDE DEF x, y, z
  <2>7. z - (e + 1) <= y
    BY <2>4, <2>5, <2>6
  <2> QED
    BY <2>1, <2>7 DEF y, z
<1> HIDE DEF T
<1>4. Nat \subseteq T
  BY <1>2, <1>3, AllNumbers
<1> QED
  BY <1>4 DEF T

PeakRec == [pos : Nat, len : Nat]
Stop(p) == p.pos + p.len

\* What a peak stands for is left, and ends by `end`.
PeakFine(p, cov, end) ==
  /\ p.len >= threshold /\ p.pos \in 0 .. n - 2 /\ p.len <= plcp[p.pos]
  /\ p.pos < i /\ Stop(p) <= end
  /\ \A x \in p.pos .. Stop(p) - 1 : x \notin cov

\* p is before q and does not end behind it.
Precedes(p, q) ==
  p.pos < q.pos /\ (Stop(p) < Stop(q) \/ (Stop(p) = Stop(q) /\ Stop(p) < i))

PeaksFine(peaks, cov, end) ==
  /\ peaks \in Seq(PeakRec)
  /\ \A k \in Alive(peaks) : PeakFine(peaks[k], cov, end)
  /\ \A k, o \in Alive(peaks) : k < o => Precedes(peaks[k], peaks[o])

\* The peaks that are alive start in the order of the text, none ends before
\* the one in front of it, and what they stand for is off the factors.
PeaksGood ==
  strategy = "plcp" /\ phase = "factorize" =>
    /\ queue \in [peaks : Seq(PeakRec), last : PeakRec]
    /\ queue.last.pos <= i
    /\ PeaksFine(queue.peaks, Covered, Stop(queue.last))
    /\ \A k \in 1 .. Len(factors) : factors[k].pos + factors[k].len <= i

LEMMA AliveIs ==
  ASSUME NEW peaks, peaks \in Seq(PeakRec)
  PROVE  \A k : k \in Alive(peaks) <=> k \in 1 .. Len(peaks) /\ peaks[k].len > 0
BY DEF Alive

LEMMA SearchKeeps ==
  ASSUME Basics, FactorsGood, CursorGood, PeaksGood, PeaksSearch
  PROVE  FactorsGood' /\ CursorGood' /\ PeaksGood'
<1> DEFINE ps == queue.peaks
           last == queue.last
           new == Peak(i, plcp[i])
           more == Append(ps, new)
<1>1. /\ phase = "factorize" /\ strategy = "plcp" /\ i + 1 < n /\ ~ Behind /\ i' = i + 1
      /\ UNCHANGED <<text, strategy, threshold, index, lcp, factors, phase>>
      /\ queue' = IF plcp[i] >= threshold /\ (Alive(ps) = {} \/ plcp[i] > last.len)
                  THEN [peaks |-> more, last |-> new] ELSE queue
  BY DEF PeaksSearch
<1>2. FactorsGood' /\ CursorGood'
  BY <1>1, CursorMoves, FactorsKept
<1>3. /\ queue \in [peaks : Seq(PeakRec), last : PeakRec]
      /\ last.pos <= i
      /\ PeaksFine(ps, Covered, Stop(last))
      /\ \A k \in 1 .. Len(factors) : factors[k].pos + factors[k].len <= i
  BY <1>1 DEF PeaksGood
<1>4. ps \in Seq(PeakRec) /\ last \in PeakRec /\ last.pos \in Nat /\ last.len \in Nat
  BY <1>3 DEF PeakRec
<1>5. i \in Nat /\ i \in 0 .. n - 2 /\ n \in Nat /\ plcp[i] \in Nat /\ i + plcp[i] < n
      /\ threshold \in Nat /\ threshold > 0
  BY <1>1, BasicFacts, KeyOf DEF CursorGood, Ranks
<1>6. /\ Covered' = Covered /\ n' = n /\ plcp' = plcp /\ threshold' = threshold
  BY <1>1, BasicsKept DEF Covered, Span, index
<1> DEFINE Later(p, q) ==
      p.pos < q.pos /\ (Stop(p) < Stop(q) \/ (Stop(p) = Stop(q) /\ Stop(p) < i + 1))
           Fine(p, end) ==
      /\ p.len >= threshold /\ p.pos \in 0 .. n - 2 /\ p.len <= plcp[p.pos]
      /\ p.pos < i + 1 /\ Stop(p) <= end
      /\ \A x \in p.pos .. Stop(p) - 1 : x \notin Covered
<1>7. /\ \A p, q : Precedes(p, q)' <=> Later(p, q)
      /\ \A p, end : PeakFine(p, Covered, end)' <=> Fine(p, end)
  BY <1>1, <1>6 DEF Precedes, PeakFine, Stop
<1>8. ASSUME NEW k \in 1 .. Len(factors) PROVE factors[k].pos + factors[k].len <= i + 1
  <2> DEFINE e == factors[k].pos + factors[k].len
  <2>1. e \in Nat /\ e <= i
    BY <1>3, SMTT(30) DEF FactorsGood, SoundRefs, SoundRef, FactorRec
  <2> HIDE DEF e
  <2>2. e <= i + 1
    BY <1>5, <2>1
  <2> QED
    BY <2>2 DEF e
<1>9. ASSUME NEW k \in Alive(ps)
      PROVE  /\ ps[k].pos \in Nat /\ ps[k].len \in Nat /\ ps[k].pos < i
             /\ Stop(ps[k]) \in Nat /\ Stop(ps[k]) <= Stop(last)
             /\ Fine(ps[k], Stop(last))
  <2> DEFINE p == ps[k]
  <2>1. p \in PeakRec /\ PeakFine(p, Covered, Stop(last))
    BY <1>3, <1>4, AliveIs DEF PeaksFine
  <2> HIDE DEF p
  <2>2. p.pos \in Nat /\ p.len \in Nat /\ p.pos < i /\ Stop(p) <= Stop(last)
    BY <2>1 DEF PeakRec, PeakFine
  <2>3. Stop(p) \in Nat
    BY <2>2 DEF Stop
  <2>4. p.pos < i + 1
    BY <1>5, <2>2
  <2>5. Fine(p, Stop(last))
    BY <2>1, <2>4 DEF PeakFine
  <2> QED
    BY <2>2, <2>3, <2>5 DEF p
<1>10. ASSUME NEW k \in Alive(ps), NEW o \in Alive(ps), k < o PROVE Later(ps[k], ps[o])
  <2>1. Precedes(ps[k], ps[o])
    BY <1>3, <1>10 DEF PeaksFine
  <2> DEFINE a == Stop(ps[k])
  <2>2. a \in Nat
    BY <1>9
  <2> HIDE DEF a
  <2>3. a < i => a < i + 1
    BY <1>5, <2>2
  <2> QED
    BY <2>1, <2>3 DEF Precedes, a
<1> HIDE DEF Later, Fine
<1>11. ASSUME NEW qs, NEW b, qs \in Seq(PeakRec), b \in PeakRec, b.pos <= i,
              queue' = [peaks |-> qs, last |-> b],
              \A k \in Alive(qs) : Fine(qs[k], Stop(b)),
              \A k, o \in Alive(qs) : k < o => Later(qs[k], qs[o])
       PROVE  PeaksGood'
  <2>1. b.pos <= i + 1
    <3>1. b.pos \in Nat
      BY <1>11 DEF PeakRec
    <3> QED
      BY <1>5, <1>11, <3>1
  <2>2. PeaksFine(qs, Covered, Stop(b))'
    BY <1>7, <1>11 DEF PeaksFine, Alive, Stop
  <2>3. /\ queue' \in [peaks : Seq(PeakRec), last : PeakRec]
        /\ queue'.peaks = qs /\ queue'.last = b
    BY <1>11
  <2>4. PeaksFine(queue.peaks, Covered, Stop(queue.last))'
    BY <2>2, <2>3 DEF PeaksFine, Alive, Stop
  <2>5. \A k \in 1 .. Len(factors') : factors'[k].pos + factors'[k].len <= i'
    BY <1>1, <1>8
  <2>6. queue'.last.pos <= i'
    BY <1>1, <2>1, <2>3
  <2> QED
    BY <2>3, <2>4, <2>5, <2>6 DEF PeaksGood, PeakRec
<1>12. CASE plcp[i] >= threshold /\ (Alive(ps) = {} \/ plcp[i] > last.len)
  <2>1. new \in PeakRec /\ new.pos = i /\ new.len = plcp[i] /\ Stop(new) = i + plcp[i]
    BY <1>5 DEF Peak, PeakRec, Stop
  <2> DEFINE m == Len(ps)
  <2> HIDE DEF new
  <2>2. /\ more \in Seq(PeakRec) /\ m \in Nat /\ Len(more) = m + 1 /\ more[m + 1] = new
        /\ \A k \in 1 .. m : more[k] = ps[k]
    BY <1>4, <2>1
  <2> HIDE DEF more
  <2>3. ASSUME NEW k \in Alive(more) PROVE k = m + 1 \/ (k \in Alive(ps) /\ more[k] = ps[k] /\ k < m + 1)
    <3>1. k \in 1 .. m + 1 /\ more[k].len > 0
      BY <2>2, AliveIs
    <3>2. k = m + 1 \/ (k \in 1 .. m /\ k < m + 1)
      BY <2>2, <3>1
    <3>3. k \in 1 .. m => more[k] = ps[k]
      BY <2>2
    <3> QED
      BY <1>4, <3>1, <3>2, <3>3, AliveIs
  <2>4. Fine(new, Stop(new))
    <3>1. ASSUME NEW x \in i .. Stop(new) - 1, x \in Covered PROVE FALSE
      <4>1. PICK k \in 1 .. Len(factors) : x \in Span(factors[k])
        BY <3>1 DEF Covered
      <4> DEFINE f == factors[k]
      <4>2. f.pos \in Nat /\ f.len \in Nat /\ f.pos + f.len <= i /\ x \in f.pos .. f.pos + f.len - 1
        BY <1>3, <4>1 DEF FactorsGood, SoundRefs, SoundRef, FactorRec, Span
      <4> HIDE DEF f
      <4> QED
        BY <1>5, <2>1, <4>2
    <3>2. i < i + 1 /\ i + plcp[i] <= i + plcp[i]
      BY <1>5
    <3> QED
      BY <1>5, <1>12, <2>1, <3>1, <3>2 DEF Fine
  <2>5. ASSUME NEW k \in Alive(ps) PROVE Stop(ps[k]) < Stop(new)
    <3>1. plcp[i] > last.len
      BY <1>12
    <3>2. Stop(last) < Stop(new) /\ Stop(last) \in Nat /\ Stop(new) \in Nat
      <4> DEFINE l == plcp[i]
                 g == last.len
                 h == last.pos
      <4>1. l > g /\ h <= i /\ h \in Nat /\ g \in Nat /\ l \in Nat
        BY <1>3, <1>4, <1>5, <3>1
      <4>2. Stop(last) = h + g
        BY DEF Stop
      <4>3. Stop(new) = i + l
        BY <2>1
      <4> HIDE DEF l, g, h
      <4>4. h + g < i + l /\ h + g \in Nat /\ i + l \in Nat
        BY <1>5, <4>1
      <4> QED
        BY <4>2, <4>3, <4>4
    <3> DEFINE a == Stop(ps[k])
               b == Stop(last)
               c == Stop(new)
    <3>3. a <= b /\ a \in Nat /\ b < c
      BY <1>9, <3>2
    <3>4. b \in Nat /\ c \in Nat
      BY <3>2
    <3> HIDE DEF a, b, c
    <3>5. a < c
      BY <3>3, <3>4
    <3> QED
      BY <3>5 DEF a, c
  <2>6. ASSUME NEW k \in Alive(more) PROVE Fine(more[k], Stop(new))
    <3>1. CASE k = m + 1
      BY <2>2, <2>4, <3>1
    <3>2. CASE k \in Alive(ps) /\ more[k] = ps[k]
      <4>1. Fine(ps[k], Stop(last)) /\ Stop(ps[k]) < Stop(new) /\ Stop(ps[k]) \in Nat
        BY <1>9, <2>5, <3>2
      <4>2. Stop(ps[k]) <= Stop(new)
        <5> DEFINE a == Stop(ps[k])
                   c == Stop(new)
        <5>1. a < c /\ a \in Nat /\ c \in Nat
          BY <1>5, <2>1, <4>1
        <5> HIDE DEF a, c
        <5>2. a <= c
          BY <5>1
        <5> QED
          BY <5>2 DEF a, c
      <4> QED
        BY <3>2, <4>1, <4>2 DEF Fine
    <3> QED
      BY <2>3, <3>1, <3>2
  <2>7. ASSUME NEW k \in Alive(more), NEW o \in Alive(more), k < o PROVE Later(more[k], more[o])
    <3>1. k \in 1 .. m + 1 /\ o \in 1 .. m + 1
      BY <2>2, AliveIs
    <3>2. k # m + 1
      BY <2>2, <2>7, <3>1
    <3>3. k \in Alive(ps) /\ more[k] = ps[k]
      BY <2>3, <3>2
    <3>4. CASE o = m + 1
      <4>1. more[o] = new /\ ps[k].pos < i
        BY <1>9, <2>2, <3>3, <3>4
      <4> QED
        BY <2>1, <2>5, <3>3, <4>1 DEF Later
    <3>5. CASE o \in Alive(ps) /\ more[o] = ps[o]
      BY <1>10, <2>7, <3>3, <3>5
    <3> QED
      BY <2>3, <3>4, <3>5
  <2>8. queue' = [peaks |-> more, last |-> new]
    BY <1>1, <1>12
  <2>9. new.pos <= i
    BY <1>5, <2>1
  <2>10. PeaksGood'
    BY <1>11, <2>1, <2>2, <2>6, <2>7, <2>8, <2>9
  <2> QED
    BY <1>2, <2>10
<1>13. CASE ~ (plcp[i] >= threshold /\ (Alive(ps) = {} \/ plcp[i] > last.len))
  <2>1. queue' = [peaks |-> ps, last |-> last]
    BY <1>1, <1>3, <1>13
  <2> HIDE DEF ps, last
  <2>2. PeaksGood'
    BY <1>3, <1>4, <1>9, <1>10, <1>11, <2>1
  <2> QED
    BY <1>2, <2>2
<1> QED
  BY <1>12, <1>13

\* What RightErased and the factor of peak t leave to its right.
ErasedRight(peaks, t, cov, end, less) ==
  /\ less \in Seq(PeakRec) /\ Len(less) = Len(peaks)
  /\ \A k \in Alive(less) : k # t
  /\ \A k \in Alive(less) : k < t => k \in Alive(peaks) /\ less[k] = peaks[k]
  /\ \A k \in Alive(peaks) : k < t => k \in Alive(less)
  /\ \A k \in Alive(less) : k > t => PeakFine(less[k], cov, end) /\ Stop(peaks[t]) <= less[k].pos
  /\ \A k, o \in Alive(less) : t < k /\ k < o => Precedes(less[k], less[o])

\* Peak t is done with, and the others stay what they are or are erased.
LEMMA SomeErased ==
  ASSUME NEW peaks, peaks \in Seq(PeakRec), NEW t \in 1 .. Len(peaks), NEW gone,
         NEW less, less = [k \in DOMAIN peaks |-> IF k \in gone THEN Peak(peaks[k].pos, 0) ELSE peaks[k]]
  PROVE  /\ less \in Seq(PeakRec) /\ Len(less) = Len(peaks)
         /\ \A k \in 1 .. Len(peaks) : k \notin gone => less[k] = peaks[k]
         /\ \A k \in gone : k \notin Alive(less)
<1> DEFINE m == Len(peaks)
<1>1. m \in Nat /\ DOMAIN peaks = 1 .. m
  BY DEF PeakRec
<1>2. \A k \in 1 .. m : peaks[k] \in PeakRec /\ Peak(peaks[k].pos, 0) \in PeakRec
  <2> SUFFICES ASSUME NEW k \in 1 .. m PROVE peaks[k] \in PeakRec /\ Peak(peaks[k].pos, 0) \in PeakRec
    OBVIOUS
  <2>1. peaks[k] \in PeakRec
    BY ElementOfSeq, Zenon
  <2> QED
    BY <2>1 DEF PeakRec, Peak
<1> HIDE DEF m
<1>3. \A k \in 1 .. m : less[k] \in PeakRec
  BY <1>1, <1>2
<1>4. less \in [1 .. m -> PeakRec]
  BY <1>1, <1>3
<1>5. less \in Seq(PeakRec) /\ Len(less) = m
  BY <1>1, <1>4, IsASeq, LenProperties DEF m
<1>6. ASSUME NEW k \in gone, k \in Alive(less) PROVE FALSE
  <2>1. k \in 1 .. m /\ less[k].len > 0
    BY <1>5, <1>6, AliveIs
  <2>2. less[k] = Peak(peaks[k].pos, 0)
    BY <1>1, <1>6, <2>1
  <2> QED
    BY <2>1, <2>2 DEF Peak
<1> QED
  BY <1>1, <1>5, <1>6 DEF m

\* Peak t is taken.
Without(peaks, t, less) == less = [peaks EXCEPT ![t].len = 0]

LEMMA OneDone ==
  ASSUME NEW peaks, peaks \in Seq(PeakRec), NEW t \in 1 .. Len(peaks), NEW less, Without(peaks, t, less)
  PROVE  /\ less \in Seq(PeakRec) /\ Len(less) = Len(peaks)
         /\ \A k \in Alive(less) : k # t /\ k \in Alive(peaks) /\ less[k] = peaks[k]
         /\ \A k \in Alive(peaks) : k # t => k \in Alive(less)
<1> DEFINE m == Len(peaks)
           p == [peaks[t] EXCEPT !.len = 0]
<1>1. m \in Nat /\ DOMAIN peaks = 1 .. m
  BY DEF PeakRec
<1>2. p \in PeakRec /\ p.len = 0
  <2>1. peaks[t] \in PeakRec
    BY ElementOfSeq, Zenon
  <2> QED
    BY <2>1 DEF PeakRec
<1>3. less = [peaks EXCEPT ![t] = p]
  BY DEF Without
<1> HIDE DEF p, m
<1>4. less \in Seq(PeakRec) /\ Len(less) = m /\ less[t] = p /\ \A k \in 1 .. m : k # t => less[k] = peaks[k]
  BY <1>1, <1>2, <1>3 DEF m
<1>5. ASSUME NEW k \in Alive(less) PROVE k # t /\ k \in Alive(peaks) /\ less[k] = peaks[k]
  <2>1. k \in 1 .. m /\ less[k].len > 0
    BY <1>4, AliveIs
  <2>2. k # t
    BY <1>2, <1>4, <2>1
  <2> QED
    BY <1>4, <2>1, <2>2, AliveIs DEF m
<1>6. ASSUME NEW k \in Alive(peaks), k # t PROVE k \in Alive(less)
  <2>1. k \in 1 .. m /\ peaks[k].len > 0
    BY AliveIs DEF m
  <2> QED
    BY <1>4, <1>6, <2>1, AliveIs
<1> QED
  BY <1>4, <1>5, <1>6 DEF m

LEMMA RightIs ==
  ASSUME Basics, i \in Nat, NEW peaks, NEW cov, NEW end \in Nat, end <= i, PeaksFine(peaks, cov, end),
         NEW t \in Alive(peaks)
  PROVE  ErasedRight(peaks, t, cov, end, [RightErased(peaks, t) EXCEPT ![t].len = 0])
<1> DEFINE m == Len(peaks)
           b == Stop(peaks[t])
           right == {k \in Alive(peaks) : k > t /\ b < i}
           reached == {k \in right : peaks[k].pos < b}
           S == {0} \cup {peaks[k].pos + peaks[k].len - b : k \in reached}
           left == Max(S)
           erased == [k \in DOMAIN peaks |-> IF k \in reached THEN Peak(peaks[k].pos, 0) ELSE peaks[k]]
           new == Peak(b, left)
           some == RightErased(peaks, t)
           less == [some EXCEPT ![t].len = 0]
<1>1. /\ peaks \in Seq(PeakRec) /\ m \in Nat
      /\ \A k \in Alive(peaks) : PeakFine(peaks[k], cov, end)
      /\ \A k, o \in Alive(peaks) : k < o => Precedes(peaks[k], peaks[o])
      /\ \A k \in Alive(peaks) : k \in 1 .. m
  BY AliveIs DEF PeaksFine
<1>2. ASSUME NEW k \in Alive(peaks)
      PROVE  /\ peaks[k] \in PeakRec /\ peaks[k].pos \in Nat /\ peaks[k].len \in Nat
             /\ Stop(peaks[k]) \in Nat /\ Stop(peaks[k]) <= end /\ peaks[k].pos < i
  <2> DEFINE p == peaks[k]
  <2>1. p \in PeakRec /\ PeakFine(p, cov, end)
    BY <1>1, ElementOfSeq
  <2> HIDE DEF p
  <2>2. p.pos \in Nat /\ p.len \in Nat /\ Stop(p) <= end /\ p.pos < i
    BY <2>1 DEF PeakRec, PeakFine
  <2> QED
    BY <2>1, <2>2 DEF p, Stop
<1>3. b \in Nat /\ b <= end
  BY <1>2
<1>4. ASSUME NEW k \in Alive(peaks), k > t
      PROVE  k \in right /\ b < i /\ Stop(peaks[k]) - b \in Nat /\ peaks[t].pos < peaks[k].pos
  <2> DEFINE c == Stop(peaks[k])
  <2>1. peaks[t].pos < peaks[k].pos /\ (b < c \/ (b = c /\ b < i))
    BY <1>1, <1>4 DEF Precedes
  <2>2. c \in Nat /\ c <= end
    BY <1>2
  <2> HIDE DEF b, c
  <2>3. b < i /\ c - b \in Nat
    BY <1>3, <2>1, <2>2
  <2> QED
    BY <1>4, <2>1, <2>3 DEF c
<1> HIDE DEF b
<1>5. /\ S \subseteq Nat /\ left \in S /\ \A y \in S : y <= left
  <2>1. \A k \in reached : peaks[k].pos + peaks[k].len - b \in Nat /\ peaks[k].pos + peaks[k].len - b <= end
    <3> SUFFICES ASSUME NEW k \in reached
                 PROVE  peaks[k].pos + peaks[k].len - b \in Nat /\ peaks[k].pos + peaks[k].len - b <= end
      OBVIOUS
    <3>1. k \in Alive(peaks) /\ k > t
      OBVIOUS
    <3> DEFINE c == peaks[k].pos + peaks[k].len
    <3>2. c - b \in Nat /\ c \in Nat /\ c <= end
      BY <1>2, <1>4, <3>1 DEF Stop
    <3> HIDE DEF c, reached
    <3>3. c - b <= end
      BY <1>3, <3>2
    <3> DEFINE x == peaks[k].pos
               y == peaks[k].len
    <3>4. c = x + y /\ x \in Nat /\ y \in Nat
      BY <1>2, <3>1 DEF c
    <3> HIDE DEF x, y
    <3>5. x + y - b = c - b
      BY <1>3, <3>4
    <3> QED
      BY <3>2, <3>3, <3>5 DEF x, y
  <2> HIDE DEF reached
  <2>2. S \subseteq Nat /\ S # {} /\ \A y \in S : y <= end
    BY <2>1
  <2> HIDE DEF S
  <2>3. \E x \in S : \A y \in S : y <= x
    BY <2>2, GreatestNumber
  <2>4. \E x \in S : \A y \in S : x >= y
    <3>1. PICK x \in S : \A y \in S : y <= x
      BY <2>3
    <3>2. \A y \in S : x >= y
      BY <2>2, <3>1
    <3> QED
      BY <3>2
  <2>5. left \in S /\ \A y \in S : left >= y
    BY <2>4 DEF Max
  <2>6. \A y \in S : y <= left
    <3> HIDE DEF left
    <3> QED
      BY <2>2, <2>5
  <2> QED
    BY <2>2, <2>5, <2>6
<1>6. some = IF left < threshold \/ \E k \in right : peaks[k].pos = b THEN erased
             ELSE [erased EXCEPT ![t + 1] = new]
  BY Zenon DEF RightErased, b, Stop
<1>7. t \in 1 .. m /\ t \in Nat
  BY <1>1
<1>8. /\ erased \in Seq(PeakRec) /\ Len(erased) = m
      /\ \A k \in 1 .. m : k \notin reached => erased[k] = peaks[k]
      /\ \A k \in reached : k \notin Alive(erased)
  <2>1. erased = [k \in DOMAIN peaks |-> IF k \in reached THEN Peak(peaks[k].pos, 0) ELSE peaks[k]]
    OBVIOUS
  <2> HIDE DEF erased, reached
  <2> QED
    BY <1>1, <1>7, <2>1, SomeErased, SMTT(30)
<1> HIDE DEF erased
<1>9. ASSUME NEW k \in Alive(erased) PROVE k \in Alive(peaks) /\ k \notin reached /\ erased[k] = peaks[k]
  <2>1. k \in 1 .. m /\ erased[k].len > 0 /\ k \notin reached
    BY <1>8, AliveIs
  <2> HIDE DEF reached
  <2>2. erased[k] = peaks[k]
    BY <1>8, <2>1
  <2> QED
    BY <1>1, <2>1, <2>2, AliveIs
<1>10. ASSUME NEW k \in Alive(peaks), k \notin reached PROVE k \in Alive(erased)
  <2>1. k \in 1 .. m /\ peaks[k].len > 0
    BY <1>1, AliveIs
  <2> HIDE DEF reached
  <2>2. erased[k] = peaks[k]
    BY <1>8, <1>10, <2>1
  <2> QED
    BY <1>8, <2>1, <2>2, AliveIs
<1>11. ASSUME NEW k \in Alive(peaks), k > t, k \notin reached PROVE b <= peaks[k].pos
  <2>1. ~ (peaks[k].pos < b)
    BY <1>4, <1>11
  <2> DEFINE x == peaks[k].pos
  <2>2. x \in Nat /\ ~ (x < b)
    BY <1>2, <2>1
  <2> HIDE DEF x
  <2> QED
    BY <1>3, <2>2 DEF x
<1>12. ASSUME NEW k \in Alive(peaks), k < t PROVE k \notin reached
  <2>1. k \in 1 .. m
    BY <1>1
  <2> QED
    BY <1>7, <1>12, <2>1
<1> HIDE DEF S, left, new, some
\* What follows for the result, from what is in it.
<1>13. ASSUME some = erased PROVE ErasedRight(peaks, t, cov, end, less)
  <2>1. /\ less \in Seq(PeakRec) /\ Len(less) = m
        /\ \A k \in Alive(less) : k # t /\ k \in Alive(erased) /\ less[k] = erased[k]
        /\ \A k \in Alive(erased) : k # t => k \in Alive(less)
    <3>1. Without(erased, t, less) /\ t \in 1 .. Len(erased)
      BY <1>7, <1>8, <1>13 DEF Without
    <3> HIDE DEF less
    <3> QED
      BY <1>8, <3>1, OneDone
  <2> HIDE DEF less
  <2>2. \A k \in Alive(less) : k # t /\ k \in Alive(peaks) /\ less[k] = peaks[k] /\ k \notin reached
    BY <1>9, <2>1
  <2>3. \A k \in Alive(peaks) : k < t => k \in Alive(less)
    BY <1>7, <1>10, <1>12, <2>1
  <2>4. \A k \in Alive(less) : k > t => PeakFine(less[k], cov, end) /\ b <= less[k].pos
    BY <1>1, <1>11, <2>2
  <2>5. \A k, o \in Alive(less) : t < k /\ k < o => Precedes(less[k], less[o])
    BY <1>1, <2>2
  <2> QED
    BY <2>1, <2>2, <2>3, <2>4, <2>5 DEF ErasedRight, b
<1>14. ASSUME some # erased PROVE ErasedRight(peaks, t, cov, end, less)
  <2>1. ~ (left < threshold) /\ some = [erased EXCEPT ![t + 1] = new] /\ \A k \in right : peaks[k].pos # b
    BY <1>6, <1>14
  <2>2. left \in Nat /\ left >= threshold /\ left > 0 /\ threshold \in Nat
    BY <1>5, <2>1, BasicFacts
  <2>3. PICK h \in reached : left = peaks[h].pos + peaks[h].len - b
    BY <1>5, <2>2 DEF S
  <2>4. h \in Alive(peaks) /\ h > t /\ h \in 1 .. m /\ peaks[h].pos < b
    BY <1>1, <2>3
  <2> DEFINE p == peaks[h]
  <2>5. p \in PeakRec /\ PeakFine(p, cov, end) /\ p.pos \in Nat /\ p.len \in Nat
    BY <1>1, <1>2, <2>4
  <2>6. t + 1 \in 1 .. m /\ t + 1 # t
    BY <1>1, <1>7, <2>4
  <2>7. b < i
    BY <1>4, <2>4
  <2>8. left = p.pos + p.len - b /\ p.pos < b
    BY <2>3, <2>4
  <2> HIDE DEF p
  <2>9. new \in PeakRec /\ new.pos = b /\ new.len = left /\ Stop(new) = Stop(p)
    <3>1. new \in PeakRec /\ new.pos = b /\ new.len = left
      BY <1>3, <2>2 DEF new, Peak, PeakRec
    <3>2. b + left = p.pos + p.len
      BY <1>3, <2>2, <2>5, <2>8
    <3> QED
      BY <3>1, <3>2 DEF Stop
  <2> HIDE DEF new
  <2>10. PeakFine(new, cov, end)
    <3> DEFINE x == plcp[p.pos]
    <3>1. /\ p.pos \in 0 .. n - 2 /\ p.len <= x /\ Stop(p) <= end
          /\ \A y \in p.pos .. Stop(p) - 1 : y \notin cov
      BY <2>5 DEF PeakFine
    <3>2. x \in Nat /\ p.pos + x < n /\ n \in Nat
      BY <3>1, KeyOf, BasicFacts
    <3> HIDE DEF x
    <3>3. b \in 0 .. n - 2 /\ left = p.len - (b - p.pos) /\ b - p.pos \in Nat
      BY <1>3, <2>2, <2>5, <2>8, <3>1, <3>2
    <3>4. x - (b - p.pos) <= plcp[b]
      <4> DEFINE d == b - p.pos
      <4>1. d \in Nat /\ p.pos + d = b /\ p.pos + d <= n - 2
        BY <1>3, <2>5, <3>2, <3>3
      <4> HIDE DEF d
      <4>2. plcp[p.pos] - d <= plcp[p.pos + d]
        BY <3>1, <4>1, MatchesShrink
      <4> QED
        BY <4>1, <4>2 DEF d, x
    <3> DEFINE z == plcp[b]
    <3>5. z \in Nat
      BY <3>3, KeyOf
    <3> HIDE DEF z
    <3>6. left <= z
      <4>1. x - (b - p.pos) <= z
        BY <3>4 DEF z
      <4> QED
        BY <1>3, <2>5, <3>1, <3>2, <3>3, <3>5, <4>1
    <3>7. \A y \in b .. Stop(p) - 1 : y \in p.pos .. Stop(p) - 1
      <4>1. Stop(p) \in Nat
        BY <2>5 DEF Stop
      <4> QED
        BY <1>3, <2>5, <2>8, <4>1
    <3> QED
      BY <2>2, <2>7, <2>9, <3>1, <3>3, <3>6, <3>7 DEF PeakFine, z
  <2>11. /\ some \in Seq(PeakRec) /\ Len(some) = m /\ some[t + 1] = new
         /\ \A k \in 1 .. m : k # t + 1 => some[k] = erased[k]
    BY <1>1, <1>8, <2>1, <2>6, <2>9
  <2>12. /\ less \in Seq(PeakRec) /\ Len(less) = m
         /\ \A k \in Alive(less) : k # t /\ k \in Alive(some) /\ less[k] = some[k]
         /\ \A k \in Alive(some) : k # t => k \in Alive(less)
    <3>1. Without(some, t, less) /\ t \in 1 .. Len(some)
      BY <1>7, <2>11 DEF Without
    <3> HIDE DEF less
    <3> QED
      BY <2>11, <3>1, OneDone
  <2> HIDE DEF less
  <2>13. ASSUME NEW k \in Alive(less), k # t + 1
         PROVE  k # t /\ k \in Alive(peaks) /\ less[k] = peaks[k] /\ k \notin reached
    <3>1. k # t /\ k \in 1 .. m /\ some[k].len > 0 /\ less[k] = some[k]
      BY <2>11, <2>12, AliveIs
    <3>2. some[k] = erased[k] /\ k \in Alive(erased)
      BY <1>8, <2>11, <2>13, <3>1, AliveIs
    <3> QED
      BY <1>9, <3>1, <3>2
  <2>14. t + 1 \in Alive(less) => less[t + 1] = new
    BY <2>11, <2>12
  <2>15. \A k \in Alive(peaks) : k < t => k \in Alive(less)
    <3> SUFFICES ASSUME NEW k \in Alive(peaks), k < t PROVE k \in Alive(less)
      OBVIOUS
    <3>1. k \in Alive(erased) /\ k \in 1 .. m
      BY <1>1, <1>10, <1>12
    <3>2. k # t /\ k # t + 1
      BY <1>7, <3>1
    <3>3. k \in Alive(some)
      BY <1>8, <2>11, <3>1, <3>2, AliveIs
    <3> QED
      BY <2>12, <3>2, <3>3
  <2>16. ASSUME NEW k \in Alive(less), k < t PROVE k \in Alive(peaks) /\ less[k] = peaks[k]
    <3>1. k \in 1 .. m
      BY <2>12, AliveIs
    <3>2. k # t + 1
      BY <1>7, <2>16, <3>1
    <3> QED
      BY <2>13, <3>2
  <2>17. ASSUME NEW k \in Alive(less), k > t PROVE PeakFine(less[k], cov, end) /\ b <= less[k].pos
    <3>1. CASE k = t + 1
      <4>1. b <= b
        BY <1>3
      <4> QED
        BY <2>9, <2>10, <2>14, <3>1, <4>1
    <3>2. CASE k # t + 1
      BY <1>1, <1>11, <2>13, <2>17, <3>2
    <3> QED
      BY <3>1, <3>2
  <2>18. ASSUME NEW k \in Alive(less), NEW o \in Alive(less), t < k, k < o
         PROVE  Precedes(less[k], less[o])
    <3>1. k \in 1 .. m /\ o \in 1 .. m
      BY <2>12, AliveIs
    <3>2. o # t + 1 /\ o > t
      BY <1>7, <2>18, <3>1
    <3>3. o \in Alive(peaks) /\ less[o] = peaks[o] /\ o \notin reached
      BY <2>13, <3>2
    <3>4. CASE k = t + 1
      <4>1. less[k] = new
        BY <2>14, <3>4
      <4>2. b <= peaks[o].pos /\ peaks[o].pos # b /\ peaks[o].pos \in Nat
        BY <1>2, <1>4, <1>11, <2>1, <3>2, <3>3
      <4>3. b < peaks[o].pos /\ p.pos < peaks[o].pos
        <5> DEFINE y == peaks[o].pos
        <5>1. y \in Nat /\ b <= y /\ y # b
          BY <4>2
        <5> HIDE DEF y
        <5>2. b < y /\ p.pos < y
          BY <1>3, <2>5, <2>8, <5>1
        <5> QED
          BY <5>2 DEF y
      <4>4. h < o
        <5>1. ~ (o < h)
          <6>1. o < h => peaks[o].pos < p.pos
            BY <1>1, <2>4, <3>3 DEF Precedes, p
          <6> DEFINE y == peaks[o].pos
          <6>2. y \in Nat /\ p.pos < y
            BY <4>2, <4>3
          <6> HIDE DEF y
          <6>3. ~ (y < p.pos)
            BY <2>5, <6>2
          <6> QED
            BY <6>1, <6>3 DEF y
        <5>2. o # h
          BY <2>3, <3>3
        <5> QED
          BY <1>1, <2>4, <3>1, <5>1, <5>2
      <4>5. Precedes(p, peaks[o])
        BY <1>1, <2>4, <3>3, <4>4 DEF p
      <4>6. Precedes(new, peaks[o])
        BY <2>9, <4>3, <4>5 DEF Precedes
      <4> QED
        BY <3>3, <4>1, <4>6
    <3>5. CASE k # t + 1
      BY <1>1, <2>13, <2>18, <3>3, <3>5
    <3> QED
      BY <3>4, <3>5
  <2>19. \A k \in Alive(less) : k # t
    BY <2>12
  <2> QED
    BY <2>12, <2>15, <2>16, <2>17, <2>18, <2>19 DEF ErasedRight, b
<1> QED
  BY <1>13, <1>14 DEF less, some

\* What LeftShortened leaves in front of a is shortened to it or ends there.
LEMMA LeftPeaksAre ==
  ASSUME threshold \in Nat, threshold > 0, NEW less, less \in Seq(PeakRec), NEW a \in Nat
  PROVE  /\ LeftShortened(less, a) \in Seq(PeakRec) /\ Len(LeftShortened(less, a)) = Len(less)
         /\ \A k \in Alive(LeftShortened(less, a)) :
              /\ k \in Alive(less)
              /\ \/ less[k].pos >= a /\ LeftShortened(less, a)[k] = less[k]
                 \/ /\ less[k].pos < a /\ LeftShortened(less, a)[k] = less[k]
                    /\ \E c \in Alive(less) : less[c].pos < a /\ Stop(less[c]) <= a /\ c >= k
                 \/ /\ less[k].pos < a /\ Stop(less[k]) > a
                    /\ LeftShortened(less, a)[k] = Peak(less[k].pos, a - less[k].pos)
                    /\ a - less[k].pos >= threshold
                    /\ \A c \in Alive(less) : less[c].pos < a /\ Stop(less[c]) <= a => ~ (c >= k)
<1> DEFINE m == Len(less)
           left == {k \in Alive(less) : less[k].pos < a}
           clear == {k \in left : less[k].pos + less[k].len <= a}
           rest(k) == a - less[k].pos
           now(k) == Peak(less[k].pos, IF rest(k) < threshold THEN 0 ELSE rest(k))
           more == LeftShortened(less, a)
<1>1. m \in Nat /\ DOMAIN less = 1 .. m
  BY DEF PeakRec
<1>2. more = [k \in 1 .. m |-> IF k \notin left \/ \E c \in clear : c >= k THEN less[k] ELSE now(k)]
  BY <1>1 DEF LeftShortened
<1>3. ASSUME NEW k \in 1 .. m PROVE less[k] \in PeakRec /\ less[k].pos \in Nat /\ less[k].len \in Nat
  <2>1. less[k] \in PeakRec
    BY <1>3, ElementOfSeq, Zenon
  <2> QED
    BY <2>1 DEF PeakRec
<1>4. \A k : k \in Alive(less) <=> k \in 1 .. m /\ less[k].len > 0
  BY AliveIs
<1> HIDE DEF m, more
<1>5. ASSUME NEW k \in left
      PROVE now(k) \in PeakRec /\ now(k).len = (IF rest(k) < threshold THEN 0 ELSE rest(k))
  <2> DEFINE x == less[k].pos
  <2>1. x \in Nat /\ x < a
    BY <1>3, <1>4
  <2>2. now(k) = Peak(x, IF a - x < threshold THEN 0 ELSE a - x) /\ rest(k) = a - x
    OBVIOUS
  <2> HIDE DEF x, now, rest
  <2>3. a - x \in Nat
    BY <2>1
  <2> QED
    BY <2>1, <2>2, <2>3 DEF Peak, PeakRec
<1>6. more \in Seq(PeakRec) /\ Len(more) = m
  <2> HIDE DEF now, clear
  <2>1. \A k \in 1 .. m : (IF k \notin left \/ \E c \in clear : c >= k THEN less[k] ELSE now(k)) \in PeakRec
    BY <1>3, <1>5
  <2>2. more \in [1 .. m -> PeakRec]
    BY <1>2, <2>1
  <2> QED
    BY <1>1, <2>2, IsASeq, LenProperties
<1>7. ASSUME NEW k \in Alive(more)
      PROVE  /\ k \in Alive(less)
             /\ \/ less[k].pos >= a /\ more[k] = less[k]
                \/ /\ less[k].pos < a /\ more[k] = less[k]
                   /\ \E c \in Alive(less) : less[c].pos < a /\ Stop(less[c]) <= a /\ c >= k
                \/ /\ less[k].pos < a /\ Stop(less[k]) > a
                   /\ more[k] = Peak(less[k].pos, a - less[k].pos)
                   /\ a - less[k].pos >= threshold
                   /\ \A c \in Alive(less) : less[c].pos < a /\ Stop(less[c]) <= a => ~ (c >= k)
  <2>1. k \in 1 .. m /\ more[k].len > 0
    BY <1>6, AliveIs
  <2>2. less[k].pos \in Nat /\ less[k].len \in Nat
    BY <1>3, <2>1
  <2>3. \A c : c \in clear <=> c \in Alive(less) /\ less[c].pos < a /\ Stop(less[c]) <= a
    BY DEF Stop
  <2>4. CASE k \notin left
    <3>1. more[k] = less[k]
      BY <1>2, <2>1, <2>4
    <3>2. k \in Alive(less)
      BY <1>4, <2>1, <3>1
    <3>3. less[k].pos >= a
      <4>1. ~ (less[k].pos < a)
        BY <2>4, <3>2
      <4> DEFINE x == less[k].pos
      <4> HIDE DEF x
      <4>2. x >= a
        BY <2>2, <4>1 DEF x
      <4> QED
        BY <4>2 DEF x
    <3> QED
      BY <3>1, <3>2, <3>3
  <2>5. CASE k \in left /\ \E c \in clear : c >= k
    <3>1. more[k] = less[k] /\ k \in Alive(less) /\ less[k].pos < a
      BY <1>2, <2>1, <2>5
    <3>2. PICK c \in clear : c >= k
      BY <2>5
    <3> HIDE DEF left, clear
    <3> QED
      BY <2>3, <3>1, <3>2
  <2>6. CASE k \in left /\ ~ \E c \in clear : c >= k
    <3>1. more[k] = now(k) /\ k \in Alive(less) /\ less[k].pos < a
      BY <1>2, <2>1, <2>6
    <3>2. now(k).len = IF rest(k) < threshold THEN 0 ELSE rest(k)
      BY <1>5, <2>6
    <3>3. ~ (rest(k) < threshold)
      BY <2>1, <3>1, <3>2
    <3> DEFINE x == less[k].pos
    <3>4. a - x >= threshold
      <4>1. ~ (a - x < threshold)
        BY <3>3
      <4>2. x \in Nat
        BY <2>2
      <4> HIDE DEF x
      <4> QED
        BY <4>1, <4>2
    <3>5. now(k) = Peak(x, a - x)
      BY <3>3
    <3>6. \A c \in Alive(less) : less[c].pos < a /\ Stop(less[c]) <= a => ~ (c >= k)
      <4> HIDE DEF left, clear
      <4> QED
        BY <2>3, <2>6
    <3>7. Stop(less[k]) > a
      <4>1. ~ (Stop(less[k]) <= a)
        <5>1. k >= k
          BY <2>1, <1>1
        <5> QED
          BY <3>1, <3>6, <5>1
      <4> DEFINE y == Stop(less[k])
      <4>2. y \in Nat
        BY <2>2 DEF Stop
      <4> HIDE DEF y
      <4>3. y > a
        BY <4>1, <4>2 DEF y
      <4> QED
        BY <4>3 DEF y
    <3> QED
      BY <3>1, <3>4, <3>5, <3>6, <3>7
  <2> QED
    BY <2>4, <2>5, <2>6
<1> QED
  BY <1>6, <1>7 DEF more, m

LEMMA LeftIsFine ==
  ASSUME Basics, i \in Nat, NEW peaks, NEW cov, NEW end \in Nat, end <= i, PeaksFine(peaks, cov, end),
         NEW t \in Alive(peaks), NEW less, ErasedRight(peaks, t, cov, end, less)
  PROVE  PeaksFine(LeftShortened(less, peaks[t].pos),
                   cov \cup peaks[t].pos .. Stop(peaks[t]) - 1, end)
<1> DEFINE m == Len(peaks)
           a == peaks[t].pos
           b == Stop(peaks[t])
           more == LeftShortened(less, a)
           both == cov \cup a .. b - 1
<1>1. /\ peaks \in Seq(PeakRec) /\ m \in Nat
      /\ \A k \in Alive(peaks) : PeakFine(peaks[k], cov, end)
      /\ \A k, o \in Alive(peaks) : k < o => Precedes(peaks[k], peaks[o])
      /\ \A k \in Alive(peaks) : k \in 1 .. m
  BY AliveIs DEF PeaksFine
<1>2. /\ less \in Seq(PeakRec) /\ Len(less) = m
      /\ \A k \in Alive(less) : k # t /\ k \in 1 .. m
      /\ \A k \in Alive(less) : k < t => k \in Alive(peaks) /\ less[k] = peaks[k]
      /\ \A k \in Alive(less) : k > t => PeakFine(less[k], cov, end) /\ b <= less[k].pos
      /\ \A k, o \in Alive(less) : t < k /\ k < o => Precedes(less[k], less[o])
  BY AliveIs DEF ErasedRight
<1>3. /\ a \in Nat /\ b \in Nat /\ a < b /\ b <= end /\ a < i /\ t \in 1 .. m
      /\ threshold \in Nat /\ threshold > 0 /\ n \in Nat
  <2> DEFINE p == peaks[t]
  <2>1. p \in PeakRec /\ PeakFine(p, cov, end)
    BY <1>1, ElementOfSeq
  <2>2. threshold \in Nat /\ threshold > 0 /\ n \in Nat
    BY BasicFacts
  <2> HIDE DEF p
  <2>3. p.pos \in Nat /\ p.len \in Nat /\ p.len >= threshold /\ Stop(p) <= end /\ p.pos < i
    BY <2>1 DEF PeakRec, PeakFine
  <2>4. Stop(p) \in Nat /\ p.pos < Stop(p)
    BY <2>2, <2>3 DEF Stop
  <2> QED
    BY <1>1, <2>2, <2>3, <2>4 DEF p
<1>4. ASSUME NEW k \in Alive(less)
      PROVE  /\ less[k] \in PeakRec /\ less[k].pos \in Nat /\ less[k].len \in Nat
             /\ PeakFine(less[k], cov, end)
             /\ k < t => less[k].pos < a
             /\ k > t => ~ (less[k].pos < a)
             /\ k < t \/ k > t
  <2>1. less[k] \in PeakRec
    BY <1>2, <1>4, ElementOfSeq
  <2>2. k # t /\ k \in 1 .. m
    BY <1>2
  <2>3. k < t \/ k > t
    BY <1>3, <2>2
  <2>4. less[k].pos \in Nat /\ less[k].len \in Nat
    BY <2>1 DEF PeakRec
  <2>5. k < t => less[k].pos < a /\ PeakFine(less[k], cov, end)
    BY <1>1, <1>2 DEF Precedes
  <2>6. ASSUME k > t PROVE ~ (less[k].pos < a)
    <3> DEFINE x == less[k].pos
    <3>1. b <= x /\ x \in Nat
      BY <1>2, <2>4, <2>6
    <3> HIDE DEF x, a, b
    <3>2. ~ (x < a)
      BY <1>3, <3>1
    <3> QED
      BY <3>2 DEF x
  <2> HIDE DEF a
  <2> QED
    BY <1>2, <2>1, <2>3, <2>4, <2>5, <2>6
<1> HIDE DEF a, b
<1>5. /\ more \in Seq(PeakRec) /\ Len(more) = m
      /\ \A k \in Alive(more) :
           /\ k \in Alive(less)
           /\ \/ less[k].pos >= a /\ more[k] = less[k]
              \/ /\ less[k].pos < a /\ more[k] = less[k]
                 /\ \E c \in Alive(less) : less[c].pos < a /\ Stop(less[c]) <= a /\ c >= k
              \/ /\ less[k].pos < a /\ Stop(less[k]) > a
                 /\ more[k] = Peak(less[k].pos, a - less[k].pos)
                 /\ a - less[k].pos >= threshold
                 /\ \A c \in Alive(less) : less[c].pos < a /\ Stop(less[c]) <= a => ~ (c >= k)
  BY <1>2, <1>3, LeftPeaksAre
<1> HIDE DEF more
<1> DEFINE Clear(k) == more[k] = less[k]
                       /\ \E c \in Alive(less) : less[c].pos < a /\ Stop(less[c]) <= a /\ c >= k
           Cut(k) == /\ Stop(less[k]) > a /\ more[k] = Peak(less[k].pos, a - less[k].pos)
                     /\ a - less[k].pos >= threshold
                     /\ \A c \in Alive(less) : less[c].pos < a /\ Stop(less[c]) <= a => ~ (c >= k)
<1>6. ASSUME NEW k \in Alive(more)
      PROVE  /\ k \in Alive(less)
             /\ \/ k > t /\ more[k] = less[k]
                \/ k < t /\ (Clear(k) \/ Cut(k))
  <2>1. k \in Alive(less) /\ (k < t => less[k].pos < a) /\ (k < t \/ k > t) /\ less[k].pos \in Nat
        /\ (k > t => ~ (less[k].pos < a))
    BY <1>4, <1>5
  <2>2. less[k].pos >= a => ~ (less[k].pos < a)
    <3> DEFINE x == less[k].pos
    <3> HIDE DEF x
    <3>1. x \in Nat
      BY <2>1 DEF x
    <3>2. x >= a => ~ (x < a)
      BY <1>3, <3>1
    <3> QED
      BY <3>2 DEF x
  <2> DEFINE x == less[k].pos
             s == Stop(less[k])
             q == more[k]
             l == less[k]
             E == \E c \in Alive(less) : less[c].pos < a /\ Stop(less[c]) <= a /\ c >= k
             U == \A c \in Alive(less) : less[c].pos < a /\ Stop(less[c]) <= a => ~ (c >= k)
  <2>3. \/ x >= a /\ q = l
        \/ x < a /\ q = l /\ E
        \/ x < a /\ s > a /\ q = Peak(x, a - x) /\ a - x >= threshold /\ U
    BY <1>5
  <2>4. /\ Clear(k) <=> q = l /\ E
        /\ Cut(k) <=> s > a /\ q = Peak(x, a - x) /\ a - x >= threshold /\ U
    OBVIOUS
  <2>5. (k < t => x < a) /\ (k < t \/ k > t) /\ (x >= a => ~ (x < a)) /\ (k > t => ~ (x < a))
    BY <2>1, <2>2
  <2> HIDE DEF x, s, E, U, Clear, Cut
  <2>6. (k > t /\ q = l) \/ (k < t /\ (Clear(k) \/ Cut(k)))
    BY <2>3, <2>4, <2>5
  <2> QED
    BY <2>1, <2>6
<1> HIDE DEF Clear, Cut
\* A peak in front of a is not longer than it was, and ends by a.
<1>7. ASSUME NEW k \in Alive(more), k < t
      PROVE  /\ more[k].pos = peaks[k].pos /\ more[k].len \in Nat
             /\ more[k].len >= threshold /\ more[k].len <= peaks[k].len
             /\ Stop(more[k]) <= a /\ Stop(more[k]) \in Nat
             /\ Clear(k) => more[k] = peaks[k]
             /\ Cut(k) => Stop(more[k]) = a
             /\ k \in Alive(peaks) /\ less[k] = peaks[k]
             /\ peaks[k].pos \in Nat /\ peaks[k].len \in Nat /\ peaks[k].pos < a
  <2>0. k \in Alive(less)
    BY <1>6
  <2>1. k \in Alive(peaks) /\ less[k] = peaks[k]
    BY <1>2, <1>7, <2>0
  <2> DEFINE p == peaks[k]
  <2>2. p.pos \in Nat /\ p.len \in Nat /\ p.pos < a /\ p.len >= threshold
    <3>1. less[k].pos \in Nat /\ less[k].len \in Nat /\ less[k].pos < a /\ PeakFine(less[k], cov, end)
      BY <1>4, <1>7, <2>0
    <3> QED
      BY <2>1, <3>1 DEF PeakFine
  <2>3. Clear(k) \/ Cut(k)
    <3>1. ~ (k > t)
      <4>1. k \in 1 .. m
        BY <1>2, <2>0
      <4> QED
        BY <1>3, <1>7, <4>1
    <3> QED
      BY <1>6, <3>1
  <2>4. Clear(k) => more[k] = p
    BY <2>1 DEF Clear
  <2>5. ASSUME Clear(k) PROVE Stop(p) <= a
    <3>1. PICK c \in Alive(less) : less[c].pos < a /\ Stop(less[c]) <= a /\ c >= k
      BY <2>5 DEF Clear
    <3>2. c < t
      BY <1>4, <3>1
    <3>3. c \in Alive(peaks) /\ less[c] = peaks[c] /\ c \in 1 .. m /\ k \in 1 .. m
      BY <1>2, <2>0, <3>1, <3>2
    <3>4. CASE c = k
      BY <2>1, <3>1, <3>4
    <3>5. CASE c # k
      <4>1. k < c
        BY <3>1, <3>3, <3>5, <1>1
      <4>2. Precedes(p, peaks[c])
        BY <1>1, <2>1, <3>3, <4>1
      <4> DEFINE x == Stop(p)
                 y == Stop(peaks[c])
      <4>3. x < y \/ x = y
        BY <4>2 DEF Precedes
      <4>4. y <= a /\ x \in Nat
        BY <2>2, <3>1, <3>3 DEF Stop
      <4>5. y \in Nat
        <5>1. less[c].pos \in Nat /\ less[c].len \in Nat
          BY <1>4, <3>1
        <5>2. Stop(less[c]) \in Nat
          BY <5>1 DEF Stop
        <5> QED
          BY <3>3, <5>2
      <4> HIDE DEF x, y
      <4>6. x <= a
        BY <1>3, <4>3, <4>4, <4>5
      <4> QED
        BY <4>6 DEF x
    <3> QED
      BY <3>4, <3>5
  <2>6. Cut(k) => Stop(p) > a /\ more[k] = Peak(p.pos, a - p.pos) /\ a - p.pos >= threshold
    BY <2>1 DEF Cut
  <2> HIDE DEF p
  <2>7. p.len <= p.len /\ Stop(p) \in Nat
    BY <2>2 DEF Stop
  <2>8. CASE Clear(k) /\ ~ Cut(k)
    BY <2>1, <2>2, <2>4, <2>5, <2>7, <2>8 DEF p
  <2>9. CASE Cut(k)
    <3> DEFINE q == more[k]
    <3>1. q.pos = p.pos /\ q.len = a - p.pos /\ a - p.pos >= threshold /\ p.pos + p.len > a
      BY <2>6, <2>9 DEF Peak, Stop
    <3> HIDE DEF q
    <3>2. q.len \in Nat /\ q.len >= threshold /\ q.len <= p.len /\ Stop(q) = a
      BY <1>3, <2>2, <3>1 DEF Stop
    <3>3. Stop(q) <= a /\ Stop(q) \in Nat
      BY <1>3, <3>2
    <3> QED
      BY <2>1, <2>2, <2>4, <3>1, <3>2, <3>3 DEF p, q
  <2> QED
    BY <2>3, <2>8, <2>9
<1>8. ASSUME NEW k \in Alive(more) PROVE PeakFine(more[k], both, end)
  <2>0. k \in Alive(less) /\ (k < t \/ k > t)
    BY <1>4, <1>6
  <2>1. CASE k < t
    <3> DEFINE p == peaks[k]
               q == more[k]
    <3>1. /\ q.pos = p.pos /\ q.len \in Nat /\ q.len >= threshold /\ q.len <= p.len
          /\ Stop(q) <= a /\ Stop(q) \in Nat
          /\ p.pos \in Nat /\ p.len \in Nat /\ p.pos < a
      BY <1>7, <2>1
    <3>2. PeakFine(p, cov, end)
      BY <1>1, <1>7, <2>1
    <3> HIDE DEF p, q
    <3> DEFINE z == plcp[p.pos]
    <3>3. /\ p.pos \in 0 .. n - 2 /\ p.len <= z /\ p.pos < i /\ Stop(p) <= end
          /\ \A x \in p.pos .. Stop(p) - 1 : x \notin cov
      BY <3>2 DEF PeakFine
    <3>4. z \in Nat
      BY <3>3, KeyOf
    <3> HIDE DEF z
    <3>5. q.len <= z /\ Stop(q) <= end
      BY <1>3, <3>1, <3>3, <3>4
    <3>6. Stop(q) <= Stop(p) /\ Stop(p) \in Nat
      BY <3>1 DEF Stop
    <3>7. \A x \in q.pos .. Stop(q) - 1 : x \in p.pos .. Stop(p) - 1 /\ x \notin a .. b - 1
      BY <1>3, <3>1, <3>6
    <3>8. PeakFine(q, both, end)
      BY <3>1, <3>3, <3>5, <3>7 DEF PeakFine, z
    <3> QED
      BY <3>8 DEF q
  <2>2. CASE k > t
    <3> DEFINE q == more[k]
    <3>1. q = less[k]
      <4>1. ~ (k < t)
        <5>1. k \in 1 .. m
          BY <1>2, <2>0
        <5> QED
          BY <1>3, <2>2, <5>1
      <4> QED
        BY <1>6, <4>1
    <3>2. PeakFine(q, cov, end) /\ b <= q.pos /\ q.pos \in Nat /\ q.len \in Nat
      BY <1>2, <1>4, <2>0, <2>2, <3>1
    <3> HIDE DEF q
    <3>3. Stop(q) \in Nat
      BY <3>2 DEF Stop
    <3>4. \A x \in q.pos .. Stop(q) - 1 : x \notin a .. b - 1
      BY <1>3, <3>2, <3>3
    <3>5. PeakFine(q, both, end)
      BY <3>2, <3>4 DEF PeakFine
    <3> QED
      BY <3>5 DEF q
  <2> QED
    BY <2>0, <2>1, <2>2
<1>9. ASSUME NEW k \in Alive(more), NEW o \in Alive(more), k < o PROVE Precedes(more[k], more[o])
  <2>0. /\ k \in Alive(less) /\ o \in Alive(less) /\ k \in 1 .. m /\ o \in 1 .. m
        /\ (k < t \/ k > t) /\ (o < t \/ o > t)
    BY <1>2, <1>4, <1>6
  <2>1. CASE k > t
    <3>1. o > t /\ ~ (k < t) /\ ~ (o < t)
      BY <1>3, <1>9, <2>0, <2>1
    <3>2. more[k] = less[k] /\ more[o] = less[o]
      BY <1>6, <3>1
    <3> QED
      BY <1>2, <1>9, <2>0, <2>1, <3>2
  <2>2. CASE k < t /\ o > t
    <3> DEFINE q == more[k]
               r == more[o]
    <3>1. q.pos = peaks[k].pos /\ peaks[k].pos \in Nat /\ peaks[k].pos < a /\ Stop(q) <= a /\ Stop(q) \in Nat
      BY <1>7, <2>2
    <3>2. ~ (o < t)
      BY <1>3, <2>0, <2>2
    <3>3. r = less[o]
      BY <1>6, <3>2
    <3>4. r.pos \in Nat /\ b <= r.pos /\ r.len \in Nat /\ r.len >= threshold
      BY <1>2, <1>4, <2>0, <2>2, <3>3 DEF PeakFine
    <3> HIDE DEF q, r
    <3>5. Stop(r) \in Nat /\ r.pos < Stop(r)
      BY <1>3, <3>4, SMTT(30) DEF Stop
    <3> DEFINE x == peaks[k].pos
    <3> HIDE DEF x
    <3>6. q.pos = x /\ x \in Nat /\ x < a
      BY <3>1 DEF x
    <3>7. q.pos < r.pos /\ Stop(q) < Stop(r)
      BY <1>3, <3>1, <3>4, <3>5, <3>6
    <3>8. Precedes(q, r)
      BY <3>7 DEF Precedes
    <3> QED
      BY <3>8 DEF q, r
  <2>3. CASE k < t /\ o < t
    <3>1. k \in Alive(peaks) /\ o \in Alive(peaks) /\ Precedes(peaks[k], peaks[o])
      BY <1>1, <1>7, <1>9, <2>3
    <3>2. more[k].pos < more[o].pos
      BY <1>7, <2>3, <3>1 DEF Precedes
    <3>3. CASE Cut(o)
      <4> DEFINE x == Stop(more[k])
      <4>1. Stop(more[o]) = a /\ x <= a /\ x \in Nat
        BY <1>7, <2>3, <3>3
      <4> HIDE DEF x
      <4>2. x < a \/ (x = a /\ x < i)
        BY <1>3, <4>1
      <4> QED
        BY <3>2, <4>1, <4>2 DEF Precedes, x
    <3>4. CASE ~ Cut(o)
      <4>1. ~ (o > t)
        BY <1>3, <2>0, <2>3
      <4>2. Clear(o)
        BY <1>6, <3>4, <4>1
      <4>3. PICK c \in Alive(less) : less[c].pos < a /\ Stop(less[c]) <= a /\ c >= o
        BY <4>2 DEF Clear
      <4>4. c >= k
        <5>1. c \in 1 .. m
          BY <1>2, <4>3
        <5> QED
          BY <1>1, <1>9, <2>0, <4>3, <5>1
      <4>5. ~ Cut(k)
        BY <4>3, <4>4 DEF Cut
      <4>6. ~ (k > t)
        BY <1>3, <2>0, <2>3
      <4>7. Clear(k)
        BY <1>6, <4>5, <4>6
      <4>8. more[k] = peaks[k] /\ more[o] = peaks[o]
        BY <1>7, <2>3, <4>2, <4>7
      <4> QED
        BY <3>1, <4>8
    <3> QED
      BY <3>3, <3>4
  <2> QED
    BY <2>0, <2>1, <2>2, <2>3
<1>10. PeaksFine(more, both, end)
  <2> HIDE DEF both
  <2> QED
    BY <1>5, <1>8, <1>9 DEF PeaksFine
<1> QED
  BY <1>10 DEF more, both, a, b

LEMMA PeakTaken ==
  ASSUME Basics, FactorsGood, CursorGood, PeaksGood, TakePeak
  PROVE  FactorsGood' /\ CursorGood' /\ PeaksGood'
<1> DEFINE ps == queue.peaks
           last == queue.last
           end == Stop(last)
<1>1. /\ phase = "factorize" /\ strategy = "plcp" /\ Behind
      /\ UNCHANGED <<text, strategy, threshold, index, lcp, i, phase>>
  BY DEF TakePeak
<1>2. PICK t \in Alive(ps) :
        LET p == ps[t]
            erased == [RightErased(ps, t) EXCEPT ![t].len = 0]
            next == LeftShortened(erased, p.pos)
        IN  /\ factors' = Append(factors, Factor(p.pos, sa[isa[p.pos] - 1], p.len))
            /\ queue' = [queue EXCEPT !.peaks = IF Alive(next) = {} THEN <<>> ELSE next]
  BY DEF TakePeak
<1> DEFINE p == ps[t]
           less == [RightErased(ps, t) EXCEPT ![t].len = 0]
           next == LeftShortened(less, p.pos)
           qs == IF Alive(next) = {} THEN <<>> ELSE next
           f == Factor(p.pos, sa[isa[p.pos] - 1], p.len)
           both == Covered \cup p.pos .. Stop(p) - 1
<1>3. /\ factors' = Append(factors, f) /\ queue' = [queue EXCEPT !.peaks = qs]
  BY <1>2
<1>4. /\ queue \in [peaks : Seq(PeakRec), last : PeakRec]
      /\ last.pos <= i
      /\ PeaksFine(ps, Covered, end)
      /\ \A k \in 1 .. Len(factors) : factors[k].pos + factors[k].len <= i
  BY <1>1 DEF PeaksGood
<1>5. last \in PeakRec /\ last.pos \in Nat /\ last.len \in Nat /\ end \in Nat /\ i \in Nat /\ n \in Nat
      /\ threshold \in Nat /\ threshold > 0 /\ ps \in Seq(PeakRec)
  BY <1>4, BasicFacts DEF PeakRec, Stop, CursorGood, Ranks
<1>6. end <= i
  <2> DEFINE x == last.pos
             y == last.len
  <2>1. i - x >= y /\ x \in Nat /\ y \in Nat /\ x <= i
    BY <1>1, <1>4, <1>5 DEF Behind
  <2>2. end = x + y
    BY DEF Stop
  <2> HIDE DEF x, y, end
  <2> QED
    BY <1>5, <2>1, <2>2
<1> HIDE DEF end
<1>7. ErasedRight(ps, t, Covered, end, less)
  BY <1>4, <1>5, <1>6, RightIs
<1> HIDE DEF less
<1>8. PeaksFine(next, both, end)
  BY <1>4, <1>5, <1>6, <1>7, LeftIsFine
<1> HIDE DEF next
<1>9. PeaksFine(qs, both, end)
  <2>1. CASE Alive(next) = {}
    <3>1. qs = <<>> /\ Alive(<<>>) = {}
      BY <2>1 DEF Alive
    <3> HIDE DEF qs, both
    <3>2. <<>> \in Seq(PeakRec)
      OBVIOUS
    <3> QED
      BY <3>1, <3>2 DEF PeaksFine
  <2>2. CASE Alive(next) # {}
    BY <1>8, <2>2
  <2> QED
    BY <2>1, <2>2
<1> HIDE DEF qs
<1>10. PeakFine(p, Covered, end)
  BY <1>4 DEF PeaksFine
<1>11. /\ p \in PeakRec /\ p.pos \in 0 .. n - 2 /\ p.len \in Nat /\ p.len >= threshold
       /\ p.len <= plcp[p.pos] /\ Stop(p) <= end
       /\ \A x \in p.pos .. Stop(p) - 1 : x \notin Covered
  <2>1. p \in PeakRec
    BY <1>5, AliveIs, ElementOfSeq
  <2> HIDE DEF p
  <2> QED
    BY <1>10, <2>1 DEF PeakFine, PeakRec
<1>12. f.pos = p.pos /\ f.len = p.len /\ Span(f) = p.pos .. Stop(p) - 1
  <2> DEFINE a == p.pos
             l == p.len
  <2>1. f.pos = a /\ f.len = l /\ Stop(p) = a + l
    BY DEF Factor, Stop
  <2>2. a \in Nat /\ l \in Nat
    BY <1>11
  <2> HIDE DEF a, l, f
  <2>3. a + l - 1 = (a + l) - 1
    BY <2>2
  <2>4. Span(f) = a .. (a + l) - 1
    BY <2>1, <2>3 DEF Span
  <2> QED
    BY <2>1, <2>4 DEF a, l
<1> HIDE DEF p
<1>13. SoundRef(text, Ways, threshold, f)
  <2>1. strategy # "lzss_lcp"
    BY <1>1
  <2> QED
    BY <1>11, <2>1, PieceSound
<1> HIDE DEF f
<1>14. ASSUME NEW k \in 1 .. Len(factors) PROVE Span(factors[k]) \cap Span(f) = {}
  <2>1. Span(factors[k]) \subseteq Covered
    BY DEF Covered
  <2> QED
    BY <1>11, <1>12, <2>1
<1>15. FactorsGood'
  BY <1>1, <1>3, <1>13, <1>14, FactorsGrow
<1>16. CursorGood'
  <2>1. Ranks' = Ranks
    BY <1>1, BasicsKept
  <2> QED
    BY <1>1, <2>1 DEF CursorGood
<1>17. Covered' = both
  <2>1. factors \in Seq(FactorRec) /\ f \in FactorRec
    BY <1>13 DEF FactorsGood, SoundRefs, SoundRef
  <2>2. Covered' = Covered \cup Span(f)
    BY <1>3, <2>1, CoveredGrows
  <2> QED
    BY <1>12, <2>2
<1>18. n' = n /\ plcp' = plcp /\ threshold' = threshold /\ i' = i
  BY <1>1, BasicsKept DEF index
<1>19. queue' = [peaks |-> qs, last |-> last]
  <2>1. queue = [peaks |-> ps, last |-> last]
    BY <1>4
  <2> HIDE DEF ps, last
  <2> QED
    BY <1>3, <2>1
<1>20. qs \in Seq(PeakRec)
  BY <1>9 DEF PeaksFine
<1>21. ASSUME NEW k \in 1 .. Len(factors') PROVE factors'[k].pos + factors'[k].len <= i
  <2>1. /\ Len(factors') = Len(factors) + 1 /\ factors'[Len(factors) + 1] = f
        /\ \A h \in 1 .. Len(factors) : factors'[h] = factors[h]
        /\ Len(factors) \in Nat
    BY <1>3, <1>13, <1>14, OneMore
  <2>2. CASE k = Len(factors) + 1
    <3>1. f.pos + f.len = Stop(p)
      BY <1>12 DEF Stop
    <3>2. Stop(p) <= i
      <4>1. Stop(p) \in Nat
        BY <1>11 DEF Stop
      <4> QED
        BY <1>5, <1>6, <1>11, <4>1
    <3> QED
      BY <2>1, <2>2, <3>1, <3>2
  <2>3. CASE k # Len(factors) + 1
    <3>1. k \in 1 .. Len(factors)
      BY <2>1, <2>3
    <3> QED
      BY <1>4, <2>1, <3>1
  <2> QED
    BY <2>2, <2>3
<1>22. PeaksGood'
  <2>1. queue'.peaks = qs /\ queue'.last = last /\ queue' \in [peaks : Seq(PeakRec), last : PeakRec]
    BY <1>5, <1>19, <1>20
  <2>2. \A q, r : Precedes(q, r)' <=> Precedes(q, r)
    BY <1>18 DEF Precedes, Stop
  <2>3. \A q : PeakFine(q, Covered, Stop(queue.last))' <=> PeakFine(q, both, end)
    <3>1. Stop(queue.last)' = end
      BY <2>1 DEF Stop, end
    <3> HIDE DEF both
    <3> QED
      BY <1>17, <1>18, <3>1 DEF PeakFine, Stop
  <2> HIDE DEF both
  <2>4. PeaksFine(queue.peaks, Covered, Stop(queue.last))'
    <3>1. /\ qs \in Seq(PeakRec)
          /\ \A k \in Alive(qs) : PeakFine(qs[k], both, end)
          /\ \A k, o \in Alive(qs) : k < o => Precedes(qs[k], qs[o])
      BY <1>9 DEF PeaksFine
    <3>2. Alive(queue.peaks)' = Alive(qs)
      BY <2>1 DEF Alive
    <3> QED
      BY <2>1, <2>2, <2>3, <3>1, <3>2 DEF PeaksFine, PeakRec
  <2>5. queue'.last.pos <= i'
    BY <1>4, <1>18, <2>1
  <2>6. \A k \in 1 .. Len(factors') : factors'[k].pos + factors'[k].len <= i'
    BY <1>18, <1>21
  <2> QED
    BY <2>1, <2>4, <2>5, <2>6 DEF PeaksGood, PeakRec
<1> QED
  BY <1>15, <1>16, <1>22

-----------------------------------------------------------------------------
(* heap                                                                    *)

\* The parent of a position.
Par(p) == (p - 1) \div 2

LEMMA ParIs ==
  ASSUME NEW p \in Nat, p > 0 PROVE Par(p) \in Nat /\ Par(p) < p
BY DEF Par

\* The way up from each position, through those in C.
Climbs(U, k, C) == U = [p \in 0 .. k |-> IF p \in C THEN {p} \cup U[Par(p)] ELSE {}]

LEMMA ClimbsRun ==
  ASSUME NEW N \in Nat, NEW C, C \subseteq Nat \ {0}
  PROVE  \E U : Climbs(U, N, C)
<1> DEFINE T == {k \in Nat : \E U : Climbs(U, k, C)}
<1>1. 0 \in T
  <2> DEFINE U == [p \in 0 .. 0 |-> {}]
  <2>1. Climbs(U, 0, C)
    <3>1. \A p \in 0 .. 0 : p \notin C
      OBVIOUS
    <3>2. U = [p \in 0 .. 0 |-> IF p \in C THEN {p} \cup U[Par(p)] ELSE {}]
      BY <3>1
    <3> HIDE DEF U
    <3> QED
      BY <3>2 DEF Climbs
  <2> QED
    BY <2>1
<1>2. ASSUME NEW k \in Nat, k \in T PROVE k + 1 \in T
  <2>1. PICK U : Climbs(U, k, C)
    BY <1>2
  <2> DEFINE V == [p \in 0 .. k + 1 |->
                     IF p = k + 1 THEN IF k + 1 \in C THEN {k + 1} \cup U[Par(k + 1)] ELSE {}
                     ELSE U[p]]
  <2>2. \A p \in 0 .. k : V[p] = U[p] /\ U[p] = (IF p \in C THEN {p} \cup U[Par(p)] ELSE {})
    <3>1. \A p \in 0 .. k : p \in 0 .. k + 1 /\ p # k + 1
      OBVIOUS
    <3>2. \A p \in 0 .. k : V[p] = U[p]
      BY <3>1
    <3> HIDE DEF V
    <3>3. \A p \in 0 .. k : U[p] = (IF p \in C THEN {p} \cup U[Par(p)] ELSE {})
      BY <2>1 DEF Climbs
    <3> QED
      BY <3>2, <3>3
  <2>3. V[k + 1] = IF k + 1 \in C THEN {k + 1} \cup U[Par(k + 1)] ELSE {}
    OBVIOUS
  <2>4. V = [p \in 0 .. k + 1 |-> V[p]]
    OBVIOUS
  <2> HIDE DEF V
  <2>5. ASSUME NEW p \in 0 .. k + 1 PROVE V[p] = IF p \in C THEN {p} \cup V[Par(p)] ELSE {}
    <3>1. p \in C => Par(p) \in 0 .. k
      <4> SUFFICES ASSUME p \in C PROVE Par(p) \in 0 .. k
        OBVIOUS
      <4>1. p \in Nat /\ p > 0 /\ p <= k + 1
        OBVIOUS
      <4> DEFINE x == Par(p)
      <4>2. x \in Nat /\ x < p
        BY <4>1, ParIs
      <4> HIDE DEF x
      <4>3. x \in 0 .. k
        BY <4>1, <4>2
      <4> QED
        BY <4>3 DEF x
    <3>2. p \in C => V[Par(p)] = U[Par(p)]
      BY <2>2, <3>1
    <3>3. p = k + 1 \/ p \in 0 .. k
      OBVIOUS
    <3> QED
      BY <2>2, <2>3, <3>2, <3>3
  <2>6. Climbs(V, k + 1, C)
    BY <2>4, <2>5 DEF Climbs
  <2> QED
    BY <2>6
<1> HIDE DEF T
<1>3. Nat \subseteq T
  BY <1>1, <1>2, AllNumbers
<1> QED
  BY <1>3 DEF T

\* A way up: each of its positions is the parent of the next one.
Climb(V, p) ==
  /\ V \subseteq 1 .. p /\ (V # {} => p \in V)
  /\ \A q, r \in V : q < r => q <= Par(r)
  /\ \A q \in V : Par(q) \in V \/ \A r \in V : Par(q) < r

LEMMA ClimbStep ==
  ASSUME NEW p \in Nat, p > 0, NEW V, Climb(V, Par(p)) PROVE Climb({p} \cup V, p)
<1> DEFINE x == Par(p)
           W == {p} \cup V
<1>1. x \in Nat /\ x < p
  BY ParIs
<1>2. /\ V \subseteq 1 .. x /\ (V # {} => x \in V)
      /\ \A q, r \in V : q < r => q <= Par(r)
      /\ \A q \in V : Par(q) \in V \/ \A r \in V : Par(q) < r
  BY DEF Climb
<1>3. \A q \in V : q \in Nat /\ q > 0 /\ q <= x /\ Par(q) \in Nat /\ Par(q) < q
  <2> SUFFICES ASSUME NEW q \in V PROVE q \in Nat /\ q > 0 /\ q <= x /\ Par(q) \in Nat /\ Par(q) < q
    OBVIOUS
  <2>1. q \in 1 .. x
    BY <1>2
  <2> HIDE DEF x
  <2>2. q \in Nat /\ q > 0 /\ q <= x
    BY <1>1, <2>1
  <2> QED
    BY <2>2, ParIs
<1> HIDE DEF x
<1>4. W \subseteq 1 .. p
  BY <1>1, <1>3
<1>5. ASSUME NEW q \in W, NEW r \in W, q < r PROVE q <= Par(r)
  <2>1. CASE r = p
    <3>1. q \in V
      BY <1>5, <2>1
    <3> QED
      BY <1>3, <2>1, <3>1 DEF x
  <2>2. CASE r # p
    <3>1. r \in V
      BY <2>2
    <3>2. q # p
      BY <1>1, <1>3, <1>5, <3>1
    <3> QED
      BY <1>2, <1>5, <3>1, <3>2
  <2> QED
    BY <2>1, <2>2
<1>6. ASSUME NEW q \in W PROVE Par(q) \in W \/ \A r \in W : Par(q) < r
  <2>1. CASE q = p
    <3>1. CASE V = {}
      BY <1>1, <2>1, <3>1 DEF x
    <3>2. CASE V # {}
      BY <1>2, <2>1, <3>2 DEF x
    <3> QED
      BY <3>1, <3>2
  <2>2. CASE q # p
    <3>1. q \in V
      BY <2>2
    <3> DEFINE y == Par(q)
    <3>2. y \in Nat /\ y < q /\ q <= x /\ q \in Nat
      BY <1>3, <3>1
    <3>3. y \in V \/ \A r \in V : y < r
      BY <1>2, <3>1
    <3> HIDE DEF y
    <3>4. y < p
      BY <1>1, <3>2
    <3>5. y \in W \/ \A r \in W : y < r
      BY <3>3, <3>4
    <3> QED
      BY <3>5 DEF y
  <2> QED
    BY <2>1, <2>2
<1>7. Climb(W, p)
  BY <1>4, <1>5, <1>6 DEF Climb
<1> QED
  BY <1>7

LEMMA ClimbsAre ==
  ASSUME NEW N \in Nat, NEW C, C \subseteq Nat \ {0}, NEW U, Climbs(U, N, C)
  PROVE  Climb(U[N], N)
<1> DEFINE T == {k \in Nat : \A p \in 0 .. N : p <= k => Climb(U[p], p)}
<1>1. \A p \in 0 .. N : U[p] = IF p \in C THEN {p} \cup U[Par(p)] ELSE {}
  BY DEF Climbs
<1>2. \A p : Climb({}, p)
  BY DEF Climb
<1>3. 0 \in T
  <2> SUFFICES ASSUME NEW p \in 0 .. N, p <= 0 PROVE Climb(U[p], p)
    OBVIOUS
  <2>1. p = 0 /\ p \notin C
    OBVIOUS
  <2>2. U[p] = {}
    BY <1>1, <2>1
  <2> QED
    BY <1>2, <2>2
<1>4. ASSUME NEW k \in Nat, k \in T PROVE k + 1 \in T
  <2> SUFFICES ASSUME NEW p \in 0 .. N, p <= k + 1 PROVE Climb(U[p], p)
    BY DEF T
  <2>1. CASE p \notin C
    BY <1>1, <1>2, <2>1
  <2>2. CASE p \in C
    <3>1. p \in Nat /\ p > 0
      BY <2>2
    <3> DEFINE x == Par(p)
    <3>2. x \in Nat /\ x < p
      BY <3>1, ParIs
    <3> HIDE DEF x, T
    <3>3. x \in 0 .. N /\ x <= k
      BY <3>1, <3>2
    <3>4. Climb(U[x], x)
      BY <1>4, <3>3 DEF T
    <3>5. Climb({p} \cup U[x], p)
      BY <3>1, <3>4, ClimbStep DEF x
    <3> QED
      BY <1>1, <2>2, <3>5 DEF x
  <2> QED
    BY <2>1, <2>2
<1> HIDE DEF T
<1>5. Nat \subseteq T
  BY <1>3, <1>4, AllNumbers
<1>6. N \in T /\ N \in 0 .. N /\ N <= N
  BY <1>5
<1> QED
  BY <1>6 DEF T

\* A heap with one more item, in whatever place.
LEMMA HeapInsertIs ==
  ASSUME NEW keys, NEW h, h \in Seq(Nat), NEW e \in Nat, Injective(h), ~ Contains(h, e)
  PROVE  /\ HeapInsert(keys, h, e) \in Seq(Nat) /\ Injective(HeapInsert(keys, h, e))
         /\ \A o : Contains(HeapInsert(keys, h, e), o) => Contains(h, o) \/ o = e
<1> DEFINE N == Len(h)
           Loop(U) == U = [p \in 0 .. N |->
                             IF p > 0 /\ keys[e] > keys[h[(p - 1) \div 2 + 1]]
                             THEN {p} \cup U[(p - 1) \div 2] ELSE {}]
           U0 == CHOOSE U : Loop(U)
           C == {p \in 1 .. N : keys[e] > keys[h[(p - 1) \div 2 + 1]]}
           moved == U0[N]
           rest == IF moved = {} THEN N
                   ELSE CHOOSE p \in {(q - 1) \div 2 : q \in moved} : p \notin moved
           w == HeapInsert(keys, h, e)
<1>1. N \in Nat
  OBVIOUS
<1>2. w = [q \in 1 .. N + 1 |-> IF q - 1 = rest THEN e
                                ELSE IF q - 1 \in moved THEN h[(q - 2) \div 2 + 1] ELSE h[q]]
  BY Zenon DEF HeapInsert
<1>3. Climb(moved, N)
  <2>1. C \subseteq Nat \ {0}
    BY <1>1
  <2>2. \A U : Loop(U) <=> Climbs(U, N, C)
    <3>1. \A p \in 0 .. N : p \in C <=> p > 0 /\ keys[e] > keys[h[(p - 1) \div 2 + 1]]
      BY <1>1
    <3> HIDE DEF C
    <3> QED
      BY <3>1 DEF Climbs, Par
  <2> HIDE DEF Loop, C, N
  <2>3. Loop(U0)
    BY <1>1, <2>1, <2>2, ClimbsRun
  <2> QED
    BY <1>1, <2>1, <2>2, <2>3, ClimbsAre
<1> HIDE DEF U0, moved, w
<1>4. /\ moved \subseteq 1 .. N /\ (moved # {} => N \in moved)
      /\ \A q, r \in moved : q < r => q <= Par(r)
      /\ \A q \in moved : Par(q) \in moved \/ \A r \in moved : Par(q) < r
  BY <1>3 DEF Climb
<1>5. \A q \in moved : q \in Nat /\ q > 0 /\ q <= N /\ Par(q) \in Nat /\ Par(q) < q
  <2> SUFFICES ASSUME NEW q \in moved PROVE q \in Nat /\ q > 0 /\ q <= N /\ Par(q) \in Nat /\ Par(q) < q
    OBVIOUS
  <2>1. q \in Nat /\ q > 0 /\ q <= N
    BY <1>1, <1>4
  <2> QED
    BY <2>1, ParIs
\* The gap is the parent of the uppermost of those that move.
<1>6. /\ rest \notin moved
      /\ moved = {} => rest = N
      /\ moved # {} => \E q \in moved : rest = Par(q)
  <2>1. CASE moved = {}
    BY <2>1
  <2>2. CASE moved # {}
    <3> DEFINE S == {(q - 1) \div 2 : q \in moved}
    <3>1. PICK q \in moved : \A r \in moved : q <= r
      <4>1. moved \subseteq Nat
        BY <1>5
      <4> QED
        BY <2>2, <4>1, LeastNumber
    <3>2. Par(q) \notin moved
      <4> DEFINE y == Par(q)
      <4>1. y \in Nat /\ y < q /\ q \in Nat
        BY <1>5
      <4> HIDE DEF y
      <4>2. y \notin moved
        BY <3>1, <4>1
      <4> QED
        BY <4>2 DEF y
    <3>3. Par(q) \in S
      BY DEF Par
    <3>4. rest = CHOOSE p \in S : p \notin moved
      BY <2>2
    <3> HIDE DEF rest, S
    <3>5. rest \in S /\ rest \notin moved
      BY <3>2, <3>3, <3>4
    <3>6. \E r \in moved : rest = Par(r)
      BY <3>5 DEF S, Par
    <3> QED
      BY <2>2, <3>5, <3>6
  <2> QED
    BY <2>1, <2>2
<1> HIDE DEF rest
<1>7. rest \in 0 .. N
  <2>1. CASE moved = {}
    BY <1>1, <1>6, <2>1
  <2>2. CASE moved # {}
    <3>1. PICK q \in moved : rest = Par(q)
      BY <1>6, <2>2
    <3>2. rest \in Nat /\ rest < q /\ q <= N /\ q \in Nat
      BY <1>5, <3>1
    <3> HIDE DEF N
    <3> QED
      BY <1>1, <3>2
  <2> QED
    BY <2>1, <2>2
\* Where the item that is now at p was.
<1> DEFINE From(p) == IF p \in moved THEN Par(p) ELSE p
<1>8. \A p \in 0 .. N : p # rest => From(p) \in 0 .. N - 1
  <2> SUFFICES ASSUME NEW p \in 0 .. N, p # rest PROVE From(p) \in 0 .. N - 1
    OBVIOUS
  <2>1. CASE p \in moved
    <3> DEFINE y == Par(p)
    <3>1. y \in Nat /\ y < p /\ p <= N /\ p \in Nat
      BY <1>5, <2>1
    <3> HIDE DEF y, N
    <3>2. y \in 0 .. N - 1
      BY <1>1, <3>1
    <3> QED
      BY <2>1, <3>2 DEF y
  <2>2. CASE p \notin moved
    <3>1. p # N
      BY <1>4, <1>6, <2>2
    <3> QED
      BY <1>1, <2>2, <3>1
  <2> QED
    BY <2>1, <2>2
<1>9. ASSUME NEW p \in moved, Par(p) \notin moved PROVE Par(p) = rest
  <2>1. PICK q \in moved : rest = Par(q)
    BY <1>6
  <2> DEFINE x == Par(p)
             y == Par(q)
  <2>2. \A r \in moved : x < r /\ y < r
    BY <1>4, <1>6, <1>9, <2>1
  <2>3. (p < q => p <= y) /\ (q < p => q <= x)
    BY <1>4
  <2>4. p \in Nat /\ q \in Nat /\ x \in Nat /\ y \in Nat
    BY <1>5
  <2>5. x < p /\ y < p /\ x < q /\ y < q
    BY <2>2
  <2> HIDE DEF x, y
  <2>6. ~ (p < q) /\ ~ (q < p)
    BY <2>3, <2>4, <2>5
  <2>7. p = q
    BY <2>4, <2>6
  <2> QED
    BY <2>1, <2>7
<1>10. ASSUME NEW p \in 0 .. N, NEW q \in 0 .. N, p # rest, q # rest, From(p) = From(q) PROVE p = q
  <2>1. CASE p \in moved /\ q \in moved
    <3> DEFINE x == Par(p)
    <3>1. x = Par(q) /\ (p < q => p <= x) /\ (q < p => q <= x) /\ x < p /\ x < q
      BY <1>4, <1>5, <1>10, <2>1
    <3>2. x \in Nat /\ p \in Nat /\ q \in Nat
      BY <1>5, <2>1
    <3> HIDE DEF x
    <3> QED
      BY <3>1, <3>2
  <2>2. CASE p \in moved /\ q \notin moved
    BY <1>9, <1>10, <2>2
  <2>3. CASE p \notin moved /\ q \in moved
    BY <1>9, <1>10, <2>3
  <2>4. CASE p \notin moved /\ q \notin moved
    BY <1>10, <2>4
  <2> QED
    BY <2>1, <2>2, <2>3, <2>4
<1> HIDE DEF From
<1>11. ASSUME NEW q \in 1 .. N + 1
       PROVE  /\ q - 1 \in 0 .. N
              /\ w[q] = IF q - 1 = rest THEN e ELSE h[From(q - 1) + 1]
              /\ q - 1 # rest => From(q - 1) + 1 \in 1 .. N
  <2>1. q - 1 \in 0 .. N /\ q - 2 = q - 1 - 1 /\ q - 1 + 1 = q
    BY <1>1
  <2>2. w[q] = IF q - 1 = rest THEN e ELSE IF q - 1 \in moved THEN h[(q - 2) \div 2 + 1] ELSE h[q]
    BY <1>2
  <2>3. w[q] = IF q - 1 = rest THEN e ELSE h[From(q - 1) + 1]
    BY <2>1, <2>2 DEF From, Par
  <2>4. q - 1 # rest => From(q - 1) \in 0 .. N - 1
    BY <1>8, <2>1
  <2>5. q - 1 # rest => From(q - 1) + 1 \in 1 .. N
    <3> DEFINE x == From(q - 1)
    <3> HIDE DEF x, N
    <3>1. q - 1 # rest => x \in 0 .. N - 1
      BY <2>4 DEF x
    <3>2. q - 1 # rest => x + 1 \in 1 .. N
      BY <1>1, <3>1
    <3> QED
      BY <3>2 DEF x
  <2> QED
    BY <2>1, <2>3, <2>5
<1>12. \A a \in 1 .. N : h[a] \in Nat /\ h[a] # e /\ Contains(h, h[a])
  BY DEF Contains
<1>13. w \in Seq(Nat) /\ Len(w) = N + 1
  <2>1. \A q \in 1 .. N + 1 : w[q] \in Nat
    BY <1>11, <1>12
  <2>2. w = [q \in 1 .. N + 1 |-> w[q]]
    BY <1>2
  <2>3. w \in [1 .. N + 1 -> Nat] /\ N + 1 \in Nat
    BY <1>1, <2>1, <2>2
  <2> HIDE DEF N
  <2> QED
    BY <2>3, IsASeq, LenProperties
<1>14. Injective(w)
  <2> SUFFICES ASSUME NEW a \in 1 .. N + 1, NEW b \in 1 .. N + 1, w[a] = w[b] PROVE a = b
    BY <1>13 DEF Injective
  <2>1. /\ a - 1 \in 0 .. N /\ b - 1 \in 0 .. N
        /\ w[a] = IF a - 1 = rest THEN e ELSE h[From(a - 1) + 1]
        /\ w[b] = IF b - 1 = rest THEN e ELSE h[From(b - 1) + 1]
        /\ a - 1 # rest => From(a - 1) + 1 \in 1 .. N
        /\ b - 1 # rest => From(b - 1) + 1 \in 1 .. N
    BY <1>11
  <2>2. a - 1 = b - 1
    <3>1. CASE a - 1 = rest \/ b - 1 = rest
      BY <1>12, <2>1, <3>1
    <3>2. CASE a - 1 # rest /\ b - 1 # rest
      <4> DEFINE x == From(a - 1)
                 y == From(b - 1)
      <4>1. h[x + 1] = h[y + 1] /\ x + 1 \in 1 .. N /\ y + 1 \in 1 .. N
        BY <2>1, <3>2
      <4>2. x + 1 = y + 1
        BY <4>1 DEF Injective
      <4>3. x \in 0 .. N - 1 /\ y \in 0 .. N - 1
        BY <1>8, <2>1, <3>2
      <4> HIDE DEF x, y, N
      <4>4. x = y
        BY <1>1, <4>2, <4>3
      <4> QED
        BY <1>10, <2>1, <3>2, <4>4 DEF x, y
    <3> QED
      BY <3>1, <3>2
  <2> QED
    BY <1>1, <2>2
<1>15. ASSUME NEW o, Contains(w, o) PROVE Contains(h, o) \/ o = e
  <2>1. PICK q \in 1 .. N + 1 : w[q] = o
    BY <1>13, <1>15 DEF Contains
  <2> QED
    BY <1>11, <1>12, <2>1
<1> QED
  BY <1>13, <1>14, <1>15 DEF w

\* The ways down to N from each position, by the next position D.
Falls(W, k, N, D) == W = [q \in k .. N |-> IF D[q] = q THEN <<q>> ELSE <<q>> \o W[D[q]]]

Falling(D, N) == \A q \in 0 .. N : D[q] = q \/ (q < D[q] /\ D[q] < N /\ D[q] \in Nat)

LEMMA FallsRun ==
  ASSUME NEW N \in Nat, NEW D, Falling(D, N)
  PROVE  \E W : Falls(W, 0, N, D)
<1> DEFINE T == {k \in Nat : k <= N => \E W : Falls(W, N - k, N, D)}
<1>1. 0 \in T
  <2> DEFINE W == [q \in N .. N |-> <<q>>]
  <2>1. \A q \in N .. N : D[q] = q
    BY DEF Falling
  <2>2. W = [q \in N .. N |-> IF D[q] = q THEN <<q>> ELSE <<q>> \o W[D[q]]]
    BY <2>1
  <2> HIDE DEF W
  <2>3. Falls(W, N, N, D)
    BY <2>2 DEF Falls
  <2>4. N - 0 = N /\ 0 \in Nat
    OBVIOUS
  <2>5. \E V : Falls(V, N - 0, N, D)
    BY <2>3, <2>4
  <2> QED
    BY <2>4, <2>5
<1>2. ASSUME NEW k \in Nat, k \in T PROVE k + 1 \in T
  <2> SUFFICES ASSUME k + 1 <= N PROVE \E W : Falls(W, N - (k + 1), N, D)
    BY DEF T
  <2> DEFINE a == N - (k + 1)
  <2>1. a \in Nat /\ N - k = a + 1 /\ k <= N /\ a < N
    OBVIOUS
  <2>2. PICK W : Falls(W, a + 1, N, D)
    BY <1>2, <2>1
  <2> HIDE DEF a
  <2> DEFINE V == [q \in a .. N |-> IF q = a THEN IF D[a] = a THEN <<a>> ELSE <<a>> \o W[D[a]]
                                    ELSE W[q]]
  <2>3. \A q \in a + 1 .. N : W[q] = IF D[q] = q THEN <<q>> ELSE <<q>> \o W[D[q]]
    <3> HIDE DEF V
    <3> QED
      BY <2>2 DEF Falls
  <2>4. \A q \in a + 1 .. N : V[q] = W[q]
    <3>1. \A q \in a + 1 .. N : q \in a .. N /\ q # a
      BY <2>1
    <3> QED
      BY <3>1
  <2>5. V[a] = IF D[a] = a THEN <<a>> ELSE <<a>> \o W[D[a]]
    <3>1. a \in a .. N
      BY <2>1
    <3> QED
      BY <3>1
  <2>6. V = [q \in a .. N |-> V[q]]
    OBVIOUS
  <2> HIDE DEF V
  <2>7. ASSUME NEW q \in a .. N PROVE V[q] = IF D[q] = q THEN <<q>> ELSE <<q>> \o V[D[q]]
    <3>1. q = a \/ q \in a + 1 .. N
      BY <2>1
    <3>2. D[q] # q => D[q] \in a + 1 .. N
      <4> SUFFICES ASSUME D[q] # q PROVE D[q] \in a + 1 .. N
        OBVIOUS
      <4>1. q \in 0 .. N
        BY <2>1
      <4> DEFINE d == D[q]
      <4>2. q < d /\ d < N /\ d \in Nat
        BY <4>1 DEF Falling
      <4> HIDE DEF d
      <4>3. d \in a + 1 .. N
        BY <2>1, <4>2
      <4> QED
        BY <4>3 DEF d
    <3>3. D[q] # q => V[D[q]] = W[D[q]]
      BY <2>4, <3>2
    <3> QED
      BY <2>3, <2>4, <2>5, <3>1, <3>3
  <2>8. Falls(V, a, N, D)
    BY <2>6, <2>7 DEF Falls
  <2> QED
    BY <2>8 DEF a
<1> HIDE DEF T
<1>3. Nat \subseteq T
  BY <1>1, <1>2, AllNumbers
<1>4. N \in T /\ N <= N /\ N - N = 0
  BY <1>3
<1> QED
  BY <1>4 DEF T

\* A way down from q.
Fall(w, q, N) ==
  /\ w \in Seq(Nat) /\ Len(w) > 0 /\ w[1] = q
  /\ \A a \in 2 .. Len(w) : w[a] < N
  /\ \A a, b \in 1 .. Len(w) : a < b => w[a] < w[b]

LEMMA FallStep ==
  ASSUME NEW N \in Nat, NEW q \in Nat, NEW d \in Nat, q < d, d < N, NEW w, Fall(w, d, N)
  PROVE  Fall(<<q>> \o w, q, N)
<1> DEFINE v == <<q>> \o w
           m == Len(w)
<1>1. /\ w \in Seq(Nat) /\ m \in Nat /\ m > 0 /\ w[1] = d
      /\ \A a \in 2 .. m : w[a] < N
      /\ \A a, b \in 1 .. m : a < b => w[a] < w[b]
  BY DEF Fall
<1>2. /\ v \in Seq(Nat) /\ Len(v) = m + 1 /\ v[1] = q /\ \A a \in 2 .. m + 1 : v[a] = w[a - 1]
  <2>1. <<q>> \in Seq(Nat) /\ Len(<<q>>) = 1 /\ <<q>>[1] = q
    OBVIOUS
  <2> DEFINE u == <<q>>
  <2> HIDE DEF u
  <2>2. /\ u \o w \in Seq(Nat) /\ Len(u \o w) = Len(u) + Len(w)
        /\ \A a \in 1 .. Len(u) + Len(w) : (u \o w)[a] = IF a <= Len(u) THEN u[a] ELSE w[a - Len(u)]
    BY <1>1, <2>1, ConcatProperties DEF u
  <2> DEFINE x == u \o w
  <2> HIDE DEF x
  <2>3. x \in Seq(Nat) /\ Len(x) = m + 1
    BY <1>1, <2>1, <2>2 DEF u, x
  <2>4. Len(u) = 1 /\ u[1] = q
    BY <2>1 DEF u
  <2>5. \A a \in 1 .. 1 + m : x[a] = IF a <= 1 THEN u[a] ELSE w[a - 1]
    BY <2>2, <2>4 DEF x
  <2> HIDE DEF m
  <2>6. x[1] = q /\ \A a \in 2 .. m + 1 : x[a] = w[a - 1]
    BY <1>1, <2>4, <2>5
  <2> QED
    BY <2>3, <2>6 DEF x, u
<1> HIDE DEF v, m
<1>3. \A a \in 1 .. m : w[a] \in Nat /\ w[a] < N /\ q < w[a]
  <2> SUFFICES ASSUME NEW a \in 1 .. m PROVE w[a] \in Nat /\ w[a] < N /\ q < w[a]
    OBVIOUS
  <2>1. w[a] \in Nat
    BY <1>1, ElementOfSeq DEF m
  <2>2. CASE a = 1
    BY <1>1, <2>2
  <2>3. CASE a # 1
    <3>1. a \in 2 .. m /\ 1 < a /\ 1 \in 1 .. m
      BY <1>1, <2>3
    <3> DEFINE x == w[a]
    <3>2. x < N /\ d < x /\ x \in Nat
      BY <1>1, <2>1, <3>1
    <3> HIDE DEF x
    <3>3. q < x
      BY <3>2
    <3> QED
      BY <3>2, <3>3 DEF x
  <2> QED
    BY <2>2, <2>3
<1>4. ASSUME NEW a \in 2 .. m + 1 PROVE v[a] < N /\ a - 1 \in 1 .. m
  <2>1. a - 1 \in 1 .. m
    BY <1>1
  <2>2. v[a] = w[a - 1]
    BY <1>2, <2>1
  <2> QED
    BY <1>3, <2>1, <2>2
<1>5. ASSUME NEW a \in 1 .. m + 1, NEW b \in 1 .. m + 1, a < b PROVE v[a] < v[b]
  <2>1. b \in 2 .. m + 1 /\ b - 1 \in 1 .. m /\ v[b] = w[b - 1]
    BY <1>1, <1>2, <1>5
  <2>2. CASE a = 1
    BY <1>2, <1>3, <2>1, <2>2
  <2>3. CASE a # 1
    <3>1. a \in 2 .. m + 1 /\ a - 1 \in 1 .. m /\ a - 1 < b - 1
      BY <1>1, <1>5, <2>3
    <3> QED
      BY <1>1, <1>2, <2>1, <3>1
  <2> QED
    BY <2>2, <2>3
<1>6. Len(v) > 0
  BY <1>1, <1>2
<1> QED
  BY <1>2, <1>4, <1>5, <1>6 DEF Fall, v

LEMMA FallsAre ==
  ASSUME NEW N \in Nat, NEW D, Falling(D, N), NEW W, Falls(W, 0, N, D), NEW p \in 0 .. N
  PROVE  Fall(W[p], p, N)
<1> DEFINE T == {k \in Nat : \A q \in 0 .. N : N - q <= k => Fall(W[q], q, N)}
<1>1. \A q \in 0 .. N : W[q] = IF D[q] = q THEN <<q>> ELSE <<q>> \o W[D[q]]
  BY DEF Falls
<1>2. \A q \in Nat : Fall(<<q>>, q, N)
  <2> SUFFICES ASSUME NEW q \in Nat PROVE Fall(<<q>>, q, N)
    OBVIOUS
  <2> DEFINE u == <<q>>
  <2>1. u \in Seq(Nat) /\ Len(u) = 1 /\ u[1] = q
    OBVIOUS
  <2> HIDE DEF u
  <2>2. Fall(u, q, N)
    BY <2>1 DEF Fall
  <2> QED
    BY <2>2 DEF u
<1>3. ASSUME NEW q \in 0 .. N, D[q] # q => Fall(W[D[q]], D[q], N) PROVE Fall(W[q], q, N)
  <2>1. CASE D[q] = q
    <3>1. q \in Nat
      OBVIOUS
    <3>2. Fall(<<q>>, q, N)
      BY <1>2, <3>1
    <3>3. W[q] = <<q>>
      BY <1>1, <2>1
    <3> QED
      BY <3>2, <3>3
  <2>2. CASE D[q] # q
    <3>1. q < D[q] /\ D[q] < N /\ D[q] \in Nat /\ q \in Nat
      BY <2>2 DEF Falling
    <3>2. Fall(<<q>> \o W[D[q]], q, N)
      BY <1>3, <2>2, <3>1, FallStep
    <3> QED
      BY <1>1, <2>2, <3>2
  <2> QED
    BY <2>1, <2>2
<1>4. 0 \in T
  <2> SUFFICES ASSUME NEW q \in 0 .. N, N - q <= 0 PROVE Fall(W[q], q, N)
    OBVIOUS
  <2>1. q = N
    OBVIOUS
  <2>2. D[q] = q
    <3> DEFINE d == D[q]
    <3>1. d = q \/ (q < d /\ d < N /\ d \in Nat)
      BY DEF Falling
    <3> HIDE DEF d
    <3>2. d = q
      BY <2>1, <3>1
    <3> QED
      BY <3>2 DEF d
  <2> QED
    BY <1>3, <2>2
<1>5. ASSUME NEW k \in Nat, k \in T PROVE k + 1 \in T
  <2> SUFFICES ASSUME NEW q \in 0 .. N, N - q <= k + 1 PROVE Fall(W[q], q, N)
    BY DEF T
  <2>1. ASSUME D[q] # q PROVE Fall(W[D[q]], D[q], N)
    <3> DEFINE d == D[q]
    <3>1. q < d /\ d < N /\ d \in Nat /\ q \in Nat
      BY <2>1 DEF Falling
    <3> HIDE DEF d, T
    <3>2. d \in 0 .. N /\ N - d <= k
      BY <3>1
    <3>3. Fall(W[d], d, N)
      BY <1>5, <3>2 DEF T
    <3> QED
      BY <3>3 DEF d
  <2> QED
    BY <1>3, <2>1
<1> HIDE DEF T
<1>6. Nat \subseteq T
  BY <1>4, <1>5, AllNumbers
<1>7. N \in T /\ N - p <= N
  BY <1>6
<1> QED
  BY <1>7 DEF T

LEMMA DownwardsIs ==
  ASSUME NEW keys, NEW h, h \in Seq(Nat), NEW q \in Nat, NEW k,
         keys[k] \in Nat, keys[k] > 0, \A a \in 1 .. Len(h) : keys[h[a]] \in Nat
  PROVE  LET d == Downwards(keys, h, q, k)
         IN  d = q \/ (q < d /\ d < Len(h) /\ d \in Nat)
<1> DEFINE N == Len(h)
           Key(c) == IF c < N THEN keys[h[c + 1]] ELSE 0
           x == 2 * q + 1
           y == 2 * q + 2
           l == Key(x)
           r == Key(y)
           key == keys[k]
           d == Downwards(keys, h, q, k)
<1>1. N \in Nat
  OBVIOUS
<1>2. d = IF key < l /\ key < r THEN IF l > r THEN x ELSE y
          ELSE IF key < l THEN x
          ELSE IF key < r THEN y
          ELSE IF key = l /\ (key = r \/ k > x) THEN x
          ELSE IF key = r /\ k > y THEN y
          ELSE q
  BY DEF Downwards
<1>3. x \in Nat /\ y \in Nat /\ q < x /\ q < y
  OBVIOUS
<1>4. \A c \in Nat : Key(c) \in Nat /\ (Key(c) > 0 => c < N)
  <2> SUFFICES ASSUME NEW c \in Nat PROVE Key(c) \in Nat /\ (Key(c) > 0 => c < N)
    OBVIOUS
  <2>1. CASE c < N
    <3>1. c + 1 \in 1 .. N
      BY <1>1, <2>1
    <3> QED
      BY <2>1, <3>1
  <2>2. CASE ~ (c < N)
    BY <2>2
  <2> QED
    BY <2>1, <2>2
<1> HIDE DEF N, Key, x, y, d
<1>5. l \in Nat /\ (l > 0 => x < N) /\ r \in Nat /\ (r > 0 => y < N)
  BY <1>3, <1>4
<1> DEFINE kx == k > x
           ky == k > y
<1>6. key \in Nat /\ key > 0
  OBVIOUS
<1>7. d = IF key < l /\ key < r THEN IF l > r THEN x ELSE y
          ELSE IF key < l THEN x
          ELSE IF key < r THEN y
          ELSE IF key = l /\ (key = r \/ kx) THEN x
          ELSE IF key = r /\ ky THEN y
          ELSE q
  BY <1>2
<1> HIDE DEF l, r, key, kx, ky
<1>8. \/ d = q \/ (d = x /\ key <= l) \/ (d = y /\ key <= r)
  BY <1>5, <1>6, <1>7
<1>9. d = q \/ (d = x /\ x < N) \/ (d = y /\ y < N)
  BY <1>5, <1>6, <1>8
<1>10. d = q \/ (q < d /\ d < N /\ d \in Nat)
  BY <1>3, <1>9
<1> QED
  BY <1>10 DEF d, N

\* Item k is put into the place p of the heap or further down, and what was in
\* its way moves up.
LEMMA PercolateDownIs ==
  ASSUME NEW keys, NEW h, h \in Seq(Nat), NEW p \in 0 .. Len(h) - 1, NEW k \in Nat,
         keys[k] \in Nat, keys[k] > 0, \A a \in 1 .. Len(h) : keys[h[a]] \in Nat,
         Injective(h), \A a \in 1 .. Len(h) : h[a] = k => a = p + 1
  PROVE  /\ PercolateDown(keys, h, p, k) \in Seq(Nat) /\ Injective(PercolateDown(keys, h, p, k))
         /\ \A o : Contains(PercolateDown(keys, h, p, k), o) =>
                     o = k \/ \E a \in 1 .. Len(h) : a # p + 1 /\ h[a] = o
<1> DEFINE N == Len(h)
           Loop(W) == W = [q \in 0 .. N |-> LET next == Downwards(keys, h, q, k)
                                            IN  IF next = q THEN <<q>> ELSE <<q>> \o W[next]]
           W0 == CHOOSE W : Loop(W)
           D == [q \in 0 .. N |-> Downwards(keys, h, q, k)]
           way == W0[p]
           m == Len(way)
           w == PercolateDown(keys, h, p, k)
<1>1. N \in Nat /\ p \in 0 .. N
  OBVIOUS
<1>2. w = [q \in 1 .. N |->
             IF ~Contains(way, q - 1) THEN h[q]
             ELSE LET s == IndexIn(way, q - 1) IN IF s = m THEN k ELSE h[way[s + 1] + 1]]
  BY Zenon DEF PercolateDown
<1>3. Fall(way, p, N)
  <2>1. Falling(D, N)
    <3>1. \A q \in 0 .. N : LET d == Downwards(keys, h, q, k)
                            IN  d = q \/ (q < d /\ d < N /\ d \in Nat)
      BY <1>1, DownwardsIs
    <3> QED
      BY <3>1 DEF Falling
  <2>2. \A W : Loop(W) <=> Falls(W, 0, N, D)
    <3>1. \A q \in 0 .. N : D[q] = Downwards(keys, h, q, k)
      OBVIOUS
    <3> HIDE DEF D
    <3> QED
      BY <3>1 DEF Falls
  <2> HIDE DEF Loop, D, N
  <2>3. Loop(W0)
    BY <1>1, <2>1, <2>2, FallsRun
  <2> HIDE DEF W0
  <2>4. Falls(W0, 0, N, D)
    BY <2>2, <2>3
  <2> QED
    BY <1>1, <2>1, <2>4, FallsAre
<1> HIDE DEF W0, way, w
<1>4. /\ way \in Seq(Nat) /\ m \in Nat /\ m > 0 /\ way[1] = p
      /\ \A a \in 2 .. m : way[a] < N
      /\ \A a, b \in 1 .. m : a < b => way[a] < way[b]
  BY <1>3 DEF Fall
<1> HIDE DEF m
<1>5. \A a \in 1 .. m : way[a] \in 0 .. N - 1
  <2> SUFFICES ASSUME NEW a \in 1 .. m PROVE way[a] \in 0 .. N - 1
    OBVIOUS
  <2>1. way[a] \in Nat
    BY <1>4, ElementOfSeq DEF m
  <2>2. CASE a = 1
    BY <1>4, <2>2
  <2>3. CASE a # 1
    <3>1. way[a] < N
      BY <1>4, <2>3
    <3> HIDE DEF N
    <3> QED
      BY <1>1, <2>1, <3>1
  <2> QED
    BY <2>2, <2>3
<1>6. ASSUME NEW a \in 1 .. m, NEW b \in 1 .. m, way[a] = way[b] PROVE a = b
  <2>1. ~ (a < b)
    <3>1. a < b => way[a] < way[b] /\ way[a] \in Nat
      BY <1>4, <1>5
    <3> QED
      BY <1>6, <3>1
  <2>2. ~ (b < a)
    <3>1. b < a => way[b] < way[a] /\ way[a] \in Nat
      BY <1>4, <1>5
    <3> QED
      BY <1>6, <3>1
  <2> QED
    BY <1>4, <2>1, <2>2
\* What is at q now.
<1>7. ASSUME NEW q \in 1 .. N, NEW a \in 1 .. m, way[a] = q - 1
      PROVE  w[q] = IF a = m THEN k ELSE h[way[a + 1] + 1]
  <2>1. Contains(way, q - 1)
    BY <1>7 DEF Contains, m
  <2>2. IndexIn(way, q - 1) \in 1 .. m /\ way[IndexIn(way, q - 1)] = q - 1
    BY <2>1, IndexIs DEF m
  <2>3. IndexIn(way, q - 1) = a
    BY <1>6, <1>7, <2>2
  <2> HIDE DEF N
  <2> QED
    BY <1>2, <2>1, <2>3
<1>8. ASSUME NEW q \in 1 .. N, \A a \in 1 .. m : way[a] # q - 1 PROVE w[q] = h[q] /\ q # p + 1
  <2>1. ~ Contains(way, q - 1)
    BY <1>8 DEF Contains, m
  <2>2. w[q] = h[q]
    BY <1>2, <2>1
  <2>3. way[1] = p /\ 1 \in 1 .. m
    BY <1>4
  <2>4. p # q - 1
    BY <1>8, <2>3
  <2> HIDE DEF N
  <2>5. q # p + 1
    BY <1>1, <2>4
  <2> QED
    BY <2>2, <2>5
<1>9. ASSUME NEW a \in 1 .. m, a # m
      PROVE  /\ a + 1 \in 1 .. m /\ way[a + 1] + 1 \in 1 .. N /\ way[a + 1] + 1 # p + 1
             /\ h[way[a + 1] + 1] \in Nat /\ h[way[a + 1] + 1] # k
  <2>1. a + 1 \in 1 .. m /\ 1 \in 1 .. m /\ 1 < a + 1
    BY <1>4, <1>9
  <2> DEFINE x == way[a + 1]
  <2>2. x \in 0 .. N - 1 /\ p < x
    BY <1>4, <1>5, <2>1
  <2> HIDE DEF x
  <2>3. x + 1 \in 1 .. N /\ x + 1 # p + 1
    <3> HIDE DEF N
    <3> QED
      BY <1>1, <2>2
  <2>4. h[x + 1] \in Nat /\ h[x + 1] # k
    <3>1. h[x + 1] \in Nat
      BY <2>3, ElementOfSeq
    <3> QED
      BY <2>3, <3>1
  <2> QED
    BY <2>1, <2>3, <2>4 DEF x
\* From where the item that is now at q came: k, or the place a.
<1> DEFINE Came(q, a) == a \in 1 .. N /\ a # p + 1 /\ w[q] = h[a]
                         /\ IF \E b \in 1 .. m : way[b] = q - 1
                            THEN \E b \in 1 .. m : b # m /\ way[b] = q - 1 /\ a = way[b + 1] + 1
                            ELSE a = q
<1>10. ASSUME NEW q \in 1 .. N
       PROVE  \/ w[q] = k /\ way[m] = q - 1 /\ m \in 1 .. m
              \/ \E a : Came(q, a)
  <2>1. CASE \E a \in 1 .. m : way[a] = q - 1
    <3>1. PICK a \in 1 .. m : way[a] = q - 1
      BY <2>1
    <3>2. CASE a = m
      BY <1>7, <3>1, <3>2
    <3>3. CASE a # m
      <4>1. w[q] = h[way[a + 1] + 1]
        BY <1>7, <3>1, <3>3
      <4>2. way[a + 1] + 1 \in 1 .. N /\ way[a + 1] + 1 # p + 1
        BY <1>9, <3>3
      <4> HIDE DEF N
      <4>3. Came(q, way[a + 1] + 1)
        BY <2>1, <3>1, <3>3, <4>1, <4>2
      <4> HIDE DEF Came
      <4> QED
        BY <4>3
    <3> QED
      BY <3>2, <3>3
  <2>2. CASE ~ \E a \in 1 .. m : way[a] = q - 1
    <3>1. w[q] = h[q] /\ q # p + 1
      BY <1>8, <2>2
    <3> HIDE DEF N
    <3>2. Came(q, q)
      BY <2>2, <3>1
    <3> HIDE DEF Came
    <3> QED
      BY <3>2
  <2> QED
    BY <2>1, <2>2
<1>11. ASSUME NEW q \in 1 .. N, NEW r \in 1 .. N, NEW a, Came(q, a), Came(r, a) PROVE q = r
  <2>1. CASE (\E b \in 1 .. m : way[b] = q - 1) /\ (\E b \in 1 .. m : way[b] = r - 1)
    <3>1. PICK b \in 1 .. m : b # m /\ way[b] = q - 1 /\ a = way[b + 1] + 1
      BY <1>11, <2>1
    <3>2. PICK c \in 1 .. m : c # m /\ way[c] = r - 1 /\ a = way[c + 1] + 1
      BY <1>11, <2>1
    <3>3. b + 1 \in 1 .. m /\ c + 1 \in 1 .. m
      BY <1>9, <3>1, <3>2
    <3>4. way[b + 1] = way[c + 1]
      <4> DEFINE x == way[b + 1]
                 y == way[c + 1]
      <4>1. x \in 0 .. N - 1 /\ y \in 0 .. N - 1 /\ a = x + 1 /\ a = y + 1
        BY <1>5, <3>1, <3>2, <3>3
      <4> HIDE DEF x, y, N
      <4>2. x = y
        BY <1>1, <4>1
      <4> QED
        BY <4>2 DEF x, y
    <3>5. b + 1 = c + 1
      BY <1>6, <3>3, <3>4
    <3>6. b = c
      BY <1>4, <3>5
    <3>7. q - 1 = r - 1
      BY <3>1, <3>2, <3>6
    <3> HIDE DEF N
    <3> QED
      BY <1>1, <3>7
  <2>2. CASE (\E b \in 1 .. m : way[b] = q - 1) /\ ~ (\E b \in 1 .. m : way[b] = r - 1)
    <3>1. PICK b \in 1 .. m : b # m /\ way[b] = q - 1 /\ a = way[b + 1] + 1
      BY <1>11, <2>2
    <3>2. a = r
      BY <1>11, <2>2
    <3>3. b + 1 \in 1 .. m
      BY <1>9, <3>1
    <3>4. way[b + 1] = r - 1
      <4> DEFINE x == way[b + 1]
      <4>1. x \in 0 .. N - 1 /\ r = x + 1
        BY <1>5, <3>1, <3>2, <3>3
      <4> HIDE DEF x, N
      <4>2. x = r - 1
        BY <1>1, <4>1
      <4> QED
        BY <4>2 DEF x
    <3> QED
      BY <2>2, <3>3, <3>4
  <2>3. CASE ~ (\E b \in 1 .. m : way[b] = q - 1) /\ (\E b \in 1 .. m : way[b] = r - 1)
    <3>1. PICK b \in 1 .. m : b # m /\ way[b] = r - 1 /\ a = way[b + 1] + 1
      BY <1>11, <2>3
    <3>2. a = q
      BY <1>11, <2>3
    <3>3. b + 1 \in 1 .. m
      BY <1>9, <3>1
    <3>4. way[b + 1] = q - 1
      <4> DEFINE x == way[b + 1]
      <4>1. x \in 0 .. N - 1 /\ q = x + 1
        BY <1>5, <3>1, <3>2, <3>3
      <4> HIDE DEF x, N
      <4>2. x = q - 1
        BY <1>1, <4>1
      <4> QED
        BY <4>2 DEF x
    <3> QED
      BY <2>3, <3>3, <3>4
  <2>4. CASE ~ (\E b \in 1 .. m : way[b] = q - 1) /\ ~ (\E b \in 1 .. m : way[b] = r - 1)
    BY <1>11, <2>4
  <2> QED
    BY <2>1, <2>2, <2>3, <2>4
<1>12. \A q, a : Came(q, a) => a \in 1 .. N /\ a # p + 1 /\ w[q] = h[a]
  OBVIOUS
<1> HIDE DEF Came
<1>13. \A a \in 1 .. N : h[a] \in Nat /\ (a # p + 1 => h[a] # k)
  OBVIOUS
<1>14. w \in Seq(Nat) /\ Len(w) = N
  <2>1. \A q \in 1 .. N : w[q] \in Nat
    BY <1>10, <1>12, <1>13
  <2>2. w = [q \in 1 .. N |-> w[q]]
    BY <1>2
  <2>3. w \in [1 .. N -> Nat]
    BY <2>1, <2>2
  <2> HIDE DEF N
  <2> QED
    BY <1>1, <2>3, IsASeq, LenProperties
<1>15. Injective(w)
  <2> SUFFICES ASSUME NEW q \in 1 .. N, NEW r \in 1 .. N, w[q] = w[r] PROVE q = r
    BY <1>14 DEF Injective
  <2>1. CASE w[q] = k
    <3>1. way[m] = q - 1 /\ way[m] = r - 1
      BY <1>10, <1>12, <1>13, <2>1
    <3> HIDE DEF N
    <3> QED
      BY <1>1, <3>1
  <2>2. CASE w[q] # k
    <3>1. PICK a : Came(q, a)
      BY <1>10, <2>2
    <3>2. PICK b : Came(r, b)
      BY <1>10, <2>2
    <3>3. a \in 1 .. N /\ b \in 1 .. N /\ h[a] = h[b]
      BY <1>12, <3>1, <3>2
    <3>4. a = b
      BY <3>3 DEF Injective
    <3> QED
      BY <1>11, <3>1, <3>2, <3>4
  <2> QED
    BY <2>1, <2>2
<1>16. ASSUME NEW o, Contains(w, o) PROVE o = k \/ \E a \in 1 .. N : a # p + 1 /\ h[a] = o
  <2>1. PICK q \in 1 .. N : w[q] = o
    BY <1>14, <1>16 DEF Contains
  <2> QED
    BY <1>10, <1>12, <2>1
<1> QED
  BY <1>14, <1>15, <1>16 DEF w

-----------------------------------------------------------------------------
(* The queue of the heap strategy.  It does not keep its order, but it never *)
(* holds a rank twice, or one whose key is too low.                          *)

KeysFall(keys) ==
  keys \in [Ranks -> Nat] /\ \A r \in Ranks : keys[r] <= LCPFromPLCP(sa, plcp)[r]

HeapOK(keys, q) ==
  /\ q \in Queues /\ Injective(q.items)
  /\ \A o : Contains(q.items, o) => o \in 1 .. n - 1 /\ keys[o] >= threshold

LEMMA HeapFacts ==
  ASSUME Basics, NEW keys, KeysFall(keys), NEW q, HeapOK(keys, q)
  PROVE  /\ q.items \in Seq(Nat) /\ Injective(q.items) /\ Len(q.items) \in Nat
         /\ \A a \in 1 .. Len(q.items) :
              /\ q.items[a] \in 1 .. n - 1 /\ q.items[a] \in Nat /\ q.items[a] \in Ranks
              /\ keys[q.items[a]] \in Nat /\ keys[q.items[a]] > 0 /\ keys[q.items[a]] >= threshold
<1>1. n \in Nat /\ threshold \in Nat /\ threshold > 0
  BY BasicFacts
<1>2. q.items \in Seq(Nat) /\ Injective(q.items) /\ Len(q.items) \in Nat
  BY DEF HeapOK, Queues
<1>3. ASSUME NEW a \in 1 .. Len(q.items)
      PROVE  /\ q.items[a] \in 1 .. n - 1 /\ q.items[a] \in Nat /\ q.items[a] \in Ranks
             /\ keys[q.items[a]] \in Nat /\ keys[q.items[a]] > 0 /\ keys[q.items[a]] >= threshold
  <2> DEFINE o == q.items[a]
             key == keys[o]
  <2>1. Contains(q.items, o)
    BY DEF Contains
  <2>2. o \in 1 .. n - 1 /\ key >= threshold
    BY <2>1 DEF HeapOK
  <2> HIDE DEF o
  <2>3. o \in Ranks /\ o \in Nat
    BY <1>1, <2>2 DEF Ranks
  <2>4. key \in Nat
    BY <2>3 DEF KeysFall
  <2> HIDE DEF key
  <2>5. key > 0
    BY <1>1, <2>2, <2>4
  <2> QED
    BY <2>2, <2>3, <2>4, <2>5 DEF key, o
<1> QED
  BY <1>2, <1>3

\* A queue with other items.
LEMMA ItemsPut ==
  ASSUME NEW q \in Queues, NEW w \in Seq(Nat)
  PROVE  [q EXCEPT !.items = w] \in Queues /\ [q EXCEPT !.items = w].items = w
BY DEF Queues

LEMMA HeapInserted ==
  ASSUME Basics, strategy = "heap", NEW keys, KeysFall(keys), NEW q, HeapOK(keys, q),
         NEW r \in 1 .. n - 1, keys[r] >= threshold, ~ Contains(q.items, r)
  PROVE  /\ HeapOK(keys, Inserted(keys, q, r))
         /\ \A o : Contains(Inserted(keys, q, r).items, o) => Contains(q.items, o) \/ o = r
<1> DEFINE w == HeapInsert(keys, q.items, r)
           v == [q EXCEPT !.items = w]
<1>1. Inserted(keys, q, r) = v
  BY DEF Inserted
<1>2. q.items \in Seq(Nat) /\ Injective(q.items) /\ r \in Nat
  BY HeapFacts, BasicFacts
<1>3. w \in Seq(Nat) /\ Injective(w) /\ \A o : Contains(w, o) => Contains(q.items, o) \/ o = r
  BY <1>2, HeapInsertIs
<1> HIDE DEF w
<1>4. v \in Queues /\ v.items = w
  BY <1>3, ItemsPut DEF HeapOK
<1> HIDE DEF v
<1>5. HeapOK(keys, v)
  BY <1>3, <1>4 DEF HeapOK
<1> QED
  BY <1>1, <1>3, <1>4, <1>5

\* What perlocate_down needs, and what it leaves.
Placeable(keys, h, p, k) ==
  /\ h \in Seq(Nat) /\ p \in 0 .. Len(h) - 1 /\ k \in Nat
  /\ keys[k] \in Nat /\ keys[k] > 0 /\ \A a \in 1 .. Len(h) : keys[h[a]] \in Nat
  /\ Injective(h) /\ \A a \in 1 .. Len(h) : h[a] = k => a = p + 1

Placed(h, p, k, w) ==
  /\ w \in Seq(Nat) /\ Injective(w)
  /\ \A o : Contains(w, o) => o = k \/ \E a \in 1 .. Len(h) : a # p + 1 /\ h[a] = o

LEMMA PercolateDownPlaces ==
  ASSUME NEW keys, NEW h, NEW p, NEW k, Placeable(keys, h, p, k)
  PROVE  Placed(h, p, k, PercolateDown(keys, h, p, k))
BY PercolateDownIs DEF Placeable, Placed

LEMMA HeapRemoveIs ==
  ASSUME NEW keys, NEW h, h \in Seq(Nat), Injective(h), NEW e, Contains(h, e),
         \A a \in 1 .. Len(h) : keys[h[a]] \in Nat /\ keys[h[a]] > 0
  PROVE  /\ HeapRemove(keys, h, e) \in Seq(Nat) /\ Injective(HeapRemove(keys, h, e))
         /\ \A o : Contains(HeapRemove(keys, h, e), o) => Contains(h, o)
<1> DEFINE N == Len(h)
           x == IndexIn(h, e)
           p == x - 1
           k == h[N]
           s == SubSeq(h, 1, N - 1)
           w == HeapRemove(keys, h, e)
<1>1. N \in Nat /\ x \in 1 .. N
  BY IndexIs
<1>2. w = IF p = N - 1 THEN s ELSE PercolateDown(keys, s, p, k)
  BY DEF HeapRemove
<1>3. s \in Seq(Nat) /\ Len(s) = N - 1 /\ \A a \in 1 .. N - 1 : s[a] = h[a]
  <2>1. 1 \in 1 .. N + 1 /\ N - 1 \in 1 - 1 .. N
    BY <1>1
  <2>2. (N - 1) - 1 + 1 = N - 1 /\ \A a \in 1 .. N - 1 : 1 + a - 1 = a
    BY <1>1
  <2> QED
    BY <2>1, <2>2, SubSeqProperties
<1> HIDE DEF s, x, w
<1>4. N \in 1 .. N /\ k \in Nat /\ keys[k] \in Nat /\ keys[k] > 0
  <2>1. N \in 1 .. N
    BY <1>1
  <2>2. h[N] \in Nat /\ keys[h[N]] \in Nat /\ keys[h[N]] > 0
    BY <2>1
  <2> QED
    BY <2>1, <2>2
<1>5. \A a \in 1 .. N - 1 : a \in 1 .. N /\ a # N
  BY <1>1
<1>6. \A a, b \in 1 .. N : h[a] = h[b] => a = b
  BY DEF Injective
<1>7. Injective(s)
  <2> SUFFICES ASSUME NEW a \in 1 .. N - 1, NEW b \in 1 .. N - 1, s[a] = s[b] PROVE a = b
    BY <1>3 DEF Injective
  <2>1. a \in 1 .. N /\ b \in 1 .. N
    BY <1>5
  <2>2. h[a] = h[b]
    BY <1>3
  <2> QED
    BY <1>6, <2>1, <2>2
<1>8. ASSUME NEW o, NEW a \in 1 .. N, h[a] = o PROVE Contains(h, o)
  BY <1>8 DEF Contains
<1> HIDE DEF N, k
<1>9. CASE p = N - 1
  <2>1. w = s
    BY <1>2, <1>9
  <2>2. ASSUME NEW o, Contains(s, o) PROVE Contains(h, o)
    <3>1. PICK a \in 1 .. N - 1 : s[a] = o
      BY <1>3, <2>2 DEF Contains
    <3> QED
      BY <1>3, <1>5, <1>8, <3>1
  <2> QED
    BY <1>3, <1>7, <2>1, <2>2 DEF w
<1>10. CASE p # N - 1
  <2>1. p \in 0 .. (N - 1) - 1
    BY <1>1, <1>10
  <2>2. ASSUME NEW a \in 1 .. N - 1 PROVE keys[s[a]] \in Nat /\ s[a] # k
    <3>1. a \in 1 .. N /\ a # N /\ s[a] = h[a]
      BY <1>3, <1>5
    <3>2. h[a] # h[N]
      BY <1>4, <1>6, <3>1
    <3>3. keys[h[a]] \in Nat
      BY <3>1 DEF N
    <3> QED
      BY <3>1, <3>2, <3>3 DEF k
  <2> DEFINE c == PercolateDown(keys, s, p, k)
  <2> HIDE DEF p
  <2>3. Placed(s, p, k, c)
    <3>1. p \in 0 .. Len(s) - 1 /\ \A a \in 1 .. Len(s) : keys[s[a]] \in Nat
      BY <1>3, <2>1, <2>2
    <3>2. \A a \in 1 .. Len(s) : s[a] = k => a = p + 1
      BY <1>3, <2>2
    <3>3. s \in Seq(Nat) /\ k \in Nat /\ keys[k] \in Nat /\ keys[k] > 0 /\ Injective(s)
      BY <1>3, <1>4, <1>7
    <3>4. Placeable(keys, s, p, k)
      BY <3>1, <3>2, <3>3 DEF Placeable
    <3> QED
      BY <3>4, PercolateDownPlaces
  <2>4. w = c
    BY <1>2, <1>10 DEF p
  <2> HIDE DEF c
  <2>5. ASSUME NEW o, Contains(c, o) PROVE Contains(h, o)
    <3>1. o = k \/ \E a \in 1 .. N - 1 : s[a] = o
      BY <1>3, <2>3, <2>5 DEF Placed
    <3>2. CASE o = k
      BY <1>4, <1>8, <3>2 DEF k
    <3>3. CASE \E a \in 1 .. N - 1 : s[a] = o
      <4>1. PICK a \in 1 .. N - 1 : s[a] = o
        BY <3>3
      <4> QED
        BY <1>3, <1>5, <1>8, <4>1
    <3> QED
      BY <3>1, <3>2, <3>3
  <2> QED
    BY <2>3, <2>4, <2>5 DEF w, Placed
<1> QED
  BY <1>9, <1>10

LEMMA HeapRemoved ==
  ASSUME Basics, strategy = "heap", NEW keys, KeysFall(keys), NEW q, HeapOK(keys, q), NEW r
  PROVE  /\ HeapOK(keys, Removed(keys, q, r))
         /\ \A o : Contains(Removed(keys, q, r).items, o) => Contains(q.items, o)
<1>1. CASE ~ Contains(q.items, r)
  <2>1. Removed(keys, q, r) = q
    BY <1>1 DEF Removed
  <2> QED
    BY <2>1
<1>2. CASE Contains(q.items, r)
  <2> DEFINE w == HeapRemove(keys, q.items, r)
             v == [q EXCEPT !.items = w]
  <2>1. Removed(keys, q, r) = v
    BY <1>2 DEF Removed
  <2>2. /\ q.items \in Seq(Nat) /\ Injective(q.items)
        /\ \A a \in 1 .. Len(q.items) : keys[q.items[a]] \in Nat /\ keys[q.items[a]] > 0
    BY HeapFacts
  <2>3. w \in Seq(Nat) /\ Injective(w) /\ \A o : Contains(w, o) => Contains(q.items, o)
    BY <1>2, <2>2, HeapRemoveIs
  <2> HIDE DEF w
  <2>4. v \in Queues /\ v.items = w
    BY <2>3, ItemsPut DEF HeapOK
  <2> HIDE DEF v
  <2>5. HeapOK(keys, v)
    BY <2>3, <2>4 DEF HeapOK
  <2> QED
    BY <2>1, <2>3, <2>4, <2>5
<1> QED
  BY <1>1, <1>2

\* decrease_key
LEMMA HeapLowered ==
  ASSUME Basics, strategy = "heap", NEW keys, KeysFall(keys), NEW q, HeapOK(keys, q),
         NEW r, Contains(q.items, r), NEW k \in Nat, k >= threshold, k < keys[r],
         NEW v, v = Decreased(keys, q, r, k)
  PROVE  v = [keys |-> v.keys, q |-> v.q] /\ KeysFall(v.keys) /\ HeapOK(v.keys, v.q)
<1> DEFINE lower == [keys EXCEPT ![r] = k]
           h == q.items
           x == IndexIn(h, r)
           p == x - 1
           w == PercolateDown(lower, h, p, r)
           u == [q EXCEPT !.items = w]
<1>1. v = [keys |-> lower, q |-> u]
  BY DEF Decreased, HeapDecreased
<1>2. /\ h \in Seq(Nat) /\ Injective(h) /\ Len(h) \in Nat
      /\ \A a \in 1 .. Len(h) : h[a] \in 1 .. n - 1 /\ h[a] \in Nat /\ h[a] \in Ranks /\ keys[h[a]] \in Nat
                                /\ keys[h[a]] >= threshold
  BY HeapFacts
<1>3. x \in 1 .. Len(h) /\ h[x] = r
  BY IndexIs
<1>4. r \in Ranks /\ r \in Nat /\ r \in 1 .. n - 1 /\ threshold \in Nat /\ threshold > 0
  BY <1>2, <1>3, BasicFacts
<1>5. /\ lower \in [Ranks -> Nat] /\ lower[r] = k
      /\ \A o \in Ranks : o # r => lower[o] = keys[o]
  BY <1>4 DEF KeysFall
<1>6. KeysFall(lower)
  <2>1. ASSUME NEW o \in Ranks PROVE lower[o] <= LCPFromPLCP(sa, plcp)[o]
    <3> DEFINE y == LCPFromPLCP(sa, plcp)[o]
               z == keys[o]
               l == lower[o]
    <3>1. z <= y /\ z \in Nat /\ y \in Nat
      BY CapIs DEF KeysFall
    <3>2. l = z \/ (l = k /\ k < z)
      BY <1>5
    <3> HIDE DEF y, z, l
    <3>3. l <= y
      BY <3>1, <3>2
    <3> QED
      BY <3>3 DEF l, y
  <2> QED
    BY <1>5, <2>1 DEF KeysFall
<1> HIDE DEF lower, x, h
<1>7. p \in 0 .. Len(h) - 1 /\ p + 1 = x
  BY <1>2, <1>3
<1>8. ASSUME NEW a \in 1 .. Len(h) PROVE lower[h[a]] \in Nat /\ (h[a] = r => a = x)
  <2>1. h[a] = r => a = x
    BY <1>2, <1>3 DEF Injective
  <2> QED
    BY <1>2, <1>5, <2>1
<1>9. lower[r] \in Nat /\ lower[r] > 0
  BY <1>4, <1>5
<1> HIDE DEF p
<1>10. Placed(h, p, r, w)
  <2>1. /\ h \in Seq(Nat) /\ Injective(h) /\ r \in Nat /\ p \in 0 .. Len(h) - 1
        /\ lower[r] \in Nat /\ lower[r] > 0
    BY <1>2, <1>4, <1>7, <1>9
  <2>2. (\A a \in 1 .. Len(h) : lower[h[a]] \in Nat) /\ (\A a \in 1 .. Len(h) : h[a] = r => a = p + 1)
    BY <1>7, <1>8
  <2>3. Placeable(lower, h, p, r)
    BY <2>1, <2>2 DEF Placeable
  <2> QED
    BY <2>3, PercolateDownPlaces
<1> HIDE DEF w
<1>11. u \in Queues /\ u.items = w
  BY <1>10, ItemsPut DEF HeapOK, Placed
<1> HIDE DEF u
<1>12. ASSUME NEW o, Contains(w, o) PROVE o \in 1 .. n - 1 /\ lower[o] >= threshold
  <2>1. CASE o = r
    BY <1>4, <1>5, <2>1
  <2>2. CASE o # r
    <3>1. PICK a \in 1 .. Len(h) : h[a] = o
      BY <1>10, <1>12, <2>2 DEF Placed
    <3> QED
      BY <1>2, <1>5, <2>2, <3>1
  <2> QED
    BY <2>1, <2>2
<1>13. HeapOK(lower, u)
  BY <1>10, <1>11, <1>12 DEF HeapOK, Placed
<1>14. v.keys = lower /\ v.q = u /\ v = [keys |-> v.keys, q |-> v.q]
  BY <1>1
<1> QED
  BY <1>6, <1>13, <1>14

HeapPair(v) == v = [keys |-> v.keys, q |-> v.q] /\ KeysFall(v.keys) /\ HeapOK(v.keys, v.q)

LEMMA HeapShortens ==
  ASSUME Basics, strategy = "heap", NEW f, f \in FactorRec, f.pos + f.len < n, NEW k \in 1 .. f.len,
         NEW v, HeapPair(v)
  PROVE  HeapPair(ShortenedBy(v, f, k))
<1> DEFINE e == isa[f.pos - k]
           keys == v.keys
           q == v.q
<1>1. v = [keys |-> keys, q |-> q] /\ KeysFall(keys) /\ HeapOK(keys, q)
  BY DEF HeapPair
<1>2. CASE ~ (f.pos - k < 0 \/ ~ Contains(q.items, e)) /\ ~ (keys[e] <= k)
  <2>1. ShortenedBy(v, f, k) = IF k >= threshold THEN Decreased(keys, q, e, k)
                               ELSE [v EXCEPT !.q = Removed(keys, q, e)]
    BY <1>2 DEF ShortenedBy
  <2>2. Contains(q.items, e) /\ k \in Nat
    BY <1>2 DEF FactorRec
  <2>3. keys[e] \in Nat
    <3>1. PICK a \in 1 .. Len(q.items) : q.items[a] = e
      BY <2>2 DEF Contains
    <3> HIDE DEF e, keys, q
    <3>2. keys[q.items[a]] \in Nat
      BY <1>1, HeapFacts
    <3> QED
      BY <3>1, <3>2
  <2>4. k < keys[e]
    <3> DEFINE x == keys[e]
    <3>1. x \in Nat /\ ~ (x <= k)
      BY <1>2, <2>3
    <3> HIDE DEF x
    <3>2. k < x
      BY <2>2, <3>1
    <3> QED
      BY <3>2 DEF x
  <2> DEFINE w == Decreased(keys, q, e, k)
             u == [v EXCEPT !.q = Removed(keys, q, e)]
  <2>5. CASE k >= threshold
    <3> HIDE DEF w, e, keys, q
    <3>1. w = [keys |-> w.keys, q |-> w.q] /\ KeysFall(w.keys) /\ HeapOK(w.keys, w.q)
      BY <1>1, <2>2, <2>4, <2>5, HeapLowered DEF w
    <3>2. ShortenedBy(v, f, k) = w
      BY <2>1, <2>5 DEF w
    <3> QED
      BY <3>1, <3>2 DEF HeapPair
  <2>6. CASE ~ (k >= threshold)
    <3> DEFINE r == Removed(keys, q, e)
    <3> HIDE DEF e, keys, q
    <3>1. HeapOK(keys, r)
      BY <1>1, HeapRemoved
    <3> HIDE DEF r
    <3>2. u = [keys |-> keys, q |-> r]
      BY <1>1 DEF r
    <3>3. u.keys = keys /\ u.q = r /\ u = [keys |-> u.keys, q |-> u.q]
      BY <3>2
    <3> HIDE DEF u
    <3>4. HeapPair(u)
      BY <1>1, <3>1, <3>3 DEF HeapPair
    <3>5. ShortenedBy(v, f, k) = u
      BY <2>1, <2>6 DEF u
    <3> QED
      BY <3>4, <3>5
  <2> QED
    BY <2>5, <2>6
<1>3. CASE ~ (~ (f.pos - k < 0 \/ ~ Contains(q.items, e)) /\ ~ (keys[e] <= k))
  <2>1. ShortenedBy(v, f, k) = v
    BY <1>3 DEF ShortenedBy
  <2> QED
    BY <2>1
<1> QED
  BY <1>2, <1>3

LEMMA HeapCorrects ==
  ASSUME Basics, strategy = "heap", NEW keys, KeysFall(keys), NEW q, HeapOK(keys, q),
         NEW f, f \in FactorRec, f.pos + f.len < n
  PROVE  HeapPair(Correct(keys, q, f))
<1> DEFINE m == f.len
           Loop1(L) == L = [k \in 0 .. m |-> IF k = 0 THEN q ELSE Removed(keys, L[k - 1], isa[f.pos + k - 1])]
           R0 == CHOOSE L : Loop1(L)
           Start == [keys |-> keys, q |-> R0[m]]
           Loop2(L) == L = [k \in 0 .. m |-> IF k = 0 THEN Start ELSE ShortenedBy(L[k - 1], f, k)]
           C0 == CHOOSE L : Loop2(L)
           W1 == [k \in 0 .. m |-> {v \in Queues : HeapOK(keys, v)}]
           W2 == [k \in 0 .. m |-> {v \in [keys : [Ranks -> Nat], q : Queues] : HeapPair(v)}]
           G1 == [k \in 1 .. m |-> [v \in Queues |-> Removed(keys, v, isa[f.pos + k - 1])]]
           G2 == [k \in 1 .. m |-> [v \in [keys : [Ranks -> Nat], q : Queues] |-> ShortenedBy(v, f, k)]]
<1>1. Correct(keys, q, f) = C0[m]
  BY Zenon DEF Correct, ShortenedBy
<1>2. m \in Nat /\ f.pos \in Nat
  BY DEF FactorRec
<1>3. \A v : HeapOK(keys, v) => v \in Queues
  BY DEF HeapOK
<1>4. \A v : HeapPair(v) => v \in [keys : [Ranks -> Nat], q : Queues]
  <2> SUFFICES ASSUME NEW v, HeapPair(v)
               PROVE  v \in [keys : [Ranks -> Nat], q : Queues]
    OBVIOUS
  <2>1. v = [keys |-> v.keys, q |-> v.q] /\ v.keys \in [Ranks -> Nat] /\ v.q \in Queues
    BY DEF HeapPair, KeysFall, HeapOK
  <2> QED
    BY <2>1
<1> HIDE DEF m
<1>6. \A k \in 1 .. m : \A v \in W1[k - 1] : Removed(keys, v, isa[f.pos + k - 1]) \in W1[k] /\ v \in Queues
  <2> SUFFICES ASSUME NEW k \in 1 .. m, NEW v \in W1[k - 1]
               PROVE  Removed(keys, v, isa[f.pos + k - 1]) \in W1[k] /\ v \in Queues
    OBVIOUS
  <2>1. k - 1 \in 0 .. m /\ k \in 0 .. m
    BY <1>2
  <2>2. v \in Queues /\ HeapOK(keys, v)
    BY <2>1
  <2>3. HeapOK(keys, Removed(keys, v, isa[f.pos + k - 1]))
    BY <2>2, HeapRemoved
  <2> QED
    BY <1>3, <2>1, <2>2, <2>3
<1>7. q \in W1[0] /\ \A v \in W1[m] : v \in Queues /\ HeapOK(keys, v)
  BY <1>2, <1>3
<1>8. R0[m] \in W1[m]
  <2>1. \A L : Loop1(L) => L[m] \in W1[m]
    <3> SUFFICES ASSUME NEW L, Loop1(L) PROVE L[m] \in W1[m]
      OBVIOUS
    <3>1. L[0] = q /\ \A k \in 1 .. m : L[k] = Removed(keys, L[k - 1], isa[f.pos + k - 1])
      BY <1>2
    <3> HIDE DEF Loop1, W1
    <3>2. L[0] \in W1[0] /\ \A k \in 1 .. m : L[k - 1] \in W1[k - 1] => L[k] \in W1[k]
      BY <1>6, <1>7, <3>1
    <3>3. \A k \in 0 .. m : L[k] \in W1[k]
      BY <1>2, <3>2, LoopKeeps
    <3> QED
      BY <1>2, <3>3
  <2>2. \E L : Loop1(L)
    <3>0. \A k \in 1 .. m : \A v \in Queues : G1[k][v] = Removed(keys, v, isa[f.pos + k - 1])
      OBVIOUS
    <3> HIDE DEF W1, G1, Loop1
    <3>1. \A k \in 1 .. m : \A v \in W1[k - 1] : G1[k][v] \in W1[k]
      BY <1>6, <3>0
    <3>2. PICK L : Trace(m, q, G1, W1, L)
      BY <1>2, <1>7, <3>1, LoopGoes
    <3>3. ASSUME NEW k \in 1 .. m PROVE L[k] = Removed(keys, L[k - 1], isa[f.pos + k - 1])
      <4>1. k - 1 \in 0 .. m
        BY <1>2
      <4>2. L[k - 1] \in W1[k - 1] /\ L[k] = G1[k][L[k - 1]]
        BY <3>2, <4>1 DEF Trace
      <4> QED
        BY <1>6, <3>0, <4>2
    <3>4. ASSUME NEW k \in 0 .. m
          PROVE  L[k] = IF k = 0 THEN q ELSE Removed(keys, L[k - 1], isa[f.pos + k - 1])
      <4>1. k = 0 \/ k \in 1 .. m
        BY <1>2
      <4> QED
        BY <3>2, <3>3, <4>1 DEF Trace
    <3>5. L = [k \in 0 .. m |-> L[k]]
      BY <3>2 DEF Trace
    <3>6. Loop1(L)
      BY <3>4, <3>5 DEF Loop1
    <3> QED
      BY <3>6
  <2> HIDE DEF Loop1, W1
  <2> QED
    BY <2>1, <2>2
<1>9. HeapOK(keys, R0[m])
  BY <1>7, <1>8
<1> HIDE DEF R0
<1>10. HeapPair(Start)
  BY <1>9 DEF HeapPair
<1> HIDE DEF Start
<1>11. \A k \in 1 .. m : \A v \in W2[k - 1] :
         ShortenedBy(v, f, k) \in W2[k] /\ v \in [keys : [Ranks -> Nat], q : Queues]
  <2> SUFFICES ASSUME NEW k \in 1 .. m, NEW v \in W2[k - 1]
               PROVE  ShortenedBy(v, f, k) \in W2[k] /\ v \in [keys : [Ranks -> Nat], q : Queues]
    OBVIOUS
  <2>1. k - 1 \in 0 .. m /\ k \in 0 .. m
    BY <1>2
  <2>2. v \in [keys : [Ranks -> Nat], q : Queues] /\ HeapPair(v)
    BY <2>1
  <2>3. HeapPair(ShortenedBy(v, f, k))
    BY <2>2, HeapShortens DEF m
  <2> QED
    BY <1>4, <2>1, <2>2, <2>3
<1>12. Start \in W2[0] /\ \A v \in W2[m] : HeapPair(v)
  BY <1>2, <1>4, <1>10
<1>13. C0[m] \in W2[m]
  <2>1. \A L : Loop2(L) => L[m] \in W2[m]
    <3> SUFFICES ASSUME NEW L, Loop2(L) PROVE L[m] \in W2[m]
      OBVIOUS
    <3>1. L[0] = Start /\ \A k \in 1 .. m : L[k] = ShortenedBy(L[k - 1], f, k)
      BY <1>2
    <3> HIDE DEF Loop2, W2
    <3>2. L[0] \in W2[0] /\ \A k \in 1 .. m : L[k - 1] \in W2[k - 1] => L[k] \in W2[k]
      BY <1>11, <1>12, <3>1
    <3>3. \A k \in 0 .. m : L[k] \in W2[k]
      BY <1>2, <3>2, LoopKeeps
    <3> QED
      BY <1>2, <3>3
  <2>2. \E L : Loop2(L)
    <3>0. \A k \in 1 .. m : \A v \in [keys : [Ranks -> Nat], q : Queues] : G2[k][v] = ShortenedBy(v, f, k)
      OBVIOUS
    <3> HIDE DEF W2, G2, Loop2
    <3>1. \A k \in 1 .. m : \A v \in W2[k - 1] : G2[k][v] \in W2[k]
      BY <1>11, <3>0
    <3>2. PICK L : Trace(m, Start, G2, W2, L)
      BY <1>2, <1>12, <3>1, LoopGoes
    <3>3. ASSUME NEW k \in 1 .. m PROVE L[k] = ShortenedBy(L[k - 1], f, k)
      <4>1. k - 1 \in 0 .. m
        BY <1>2
      <4>2. L[k - 1] \in W2[k - 1] /\ L[k] = G2[k][L[k - 1]]
        BY <3>2, <4>1 DEF Trace
      <4> QED
        BY <1>11, <3>0, <4>2
    <3>4. ASSUME NEW k \in 0 .. m
          PROVE  L[k] = IF k = 0 THEN Start ELSE ShortenedBy(L[k - 1], f, k)
      <4>1. k = 0 \/ k \in 1 .. m
        BY <1>2
      <4> QED
        BY <3>2, <3>3, <4>1 DEF Trace
    <3>5. L = [k \in 0 .. m |-> L[k]]
      BY <3>2 DEF Trace
    <3>6. Loop2(L)
      BY <3>4, <3>5 DEF Loop2
    <3> QED
      BY <3>6
  <2> HIDE DEF Loop2, W2
  <2> QED
    BY <2>1, <2>2
<1>14. HeapPair(C0[m])
  BY <1>12, <1>13
<1> HIDE DEF C0
<1> QED
  BY <1>1, <1>14 DEF m

HeapTo(keys, k, v) == HeapOK(keys, v) /\ \A o : Contains(v.items, o) => o \in 1 .. k

LEMMA HeapFills ==
  ASSUME Basics, strategy = "heap", NEW keys, KeysFall(keys), NEW k \in 1 .. n - 1,
         NEW v, HeapTo(keys, k - 1, v)
  PROVE  HeapTo(keys, k, FilledBy(keys, k, v))
<1>1. n \in Nat /\ k \in Nat /\ k \notin 1 .. k - 1 /\ k \in 1 .. k /\ \A o \in 1 .. k - 1 : o \in 1 .. k
  BY BasicFacts
<1>2. HeapOK(keys, v) /\ ~ Contains(v.items, k)
  BY <1>1 DEF HeapTo
<1>3. CASE keys[k] >= threshold
  <2> DEFINE w == Inserted(keys, v, k)
  <2>1. HeapOK(keys, w) /\ \A o : Contains(w.items, o) => Contains(v.items, o) \/ o = k
    BY <1>2, <1>3, HeapInserted
  <2>2. FilledBy(keys, k, v) = w
    BY <1>3 DEF FilledBy
  <2> HIDE DEF w
  <2> QED
    BY <1>1, <2>1, <2>2 DEF HeapTo
<1>4. CASE ~ (keys[k] >= threshold)
  BY <1>1, <1>4 DEF FilledBy, HeapTo
<1> QED
  BY <1>3, <1>4

LEMMA HeapEmpty ==
  ASSUME Cap \in Nat, NEW keys, MaxLCP(keys) = Cap
  PROVE  HeapTo(keys, 0, EmptyQueue(keys))
<1> DEFINE e == EmptyQueue(keys)
<1>1. /\ e.items = <<>> /\ e.index = [v \in 1 .. Cap |-> NoItem]
      /\ e = [items |-> e.items, index |-> e.index]
  BY DEF EmptyQueue
<1> HIDE DEF e
<1>2. NoItem \in Int
  BY DEF NoItem
<1>3. Len(e.items) = 0 /\ e.items \in Seq(Nat) /\ e.index \in [1 .. Cap -> Int]
  BY <1>1, <1>2
<1>4. e \in Queues
  BY <1>1, <1>3 DEF Queues
<1>5. Injective(e.items) /\ \A o : ~ Contains(e.items, o)
  BY <1>3 DEF Injective, Contains
<1>6. HeapTo(keys, 0, e)
  BY <1>4, <1>5 DEF HeapTo, HeapOK
<1> QED
  BY <1>6 DEF e

LEMMA HeapOfIs ==
  ASSUME Basics, strategy = "heap", Cap \in Nat, NEW keys, KeysFall(keys), MaxLCP(keys) = Cap
  PROVE  HeapOK(keys, QueueOf(keys))
<1> DEFINE m == n - 1
           Start == EmptyQueue(keys)
           Loop(L) == L = [k \in Ranks |-> IF k = 0 THEN Start ELSE FilledBy(keys, k, L[k - 1])]
           L0 == CHOOSE L : Loop(L)
           W == [k \in 0 .. m |-> {v \in Queues : HeapTo(keys, k, v)}]
           G == [k \in 1 .. m |-> [v \in Queues |-> FilledBy(keys, k, v)]]
<1>1. QueueOf(keys) = L0[m]
  BY Zenon DEF QueueOf, FilledBy
<1>2. m \in Nat /\ Ranks = 0 .. m
  BY BasicFacts DEF Ranks
<1>3. \A k, v : HeapTo(keys, k, v) => v \in Queues
  BY DEF HeapTo, HeapOK
<1>4. HeapTo(keys, 0, Start)
  BY HeapEmpty
<1>5. \A k \in 1 .. m : \A v \in Queues : HeapTo(keys, k - 1, v) => HeapTo(keys, k, FilledBy(keys, k, v))
  BY HeapFills
<1> HIDE DEF m, Start
<1>6. \A k \in 1 .. m : \A v \in W[k - 1] : FilledBy(keys, k, v) \in W[k] /\ v \in Queues
  <2> SUFFICES ASSUME NEW k \in 1 .. m, NEW v \in W[k - 1]
               PROVE  FilledBy(keys, k, v) \in W[k] /\ v \in Queues
    OBVIOUS
  <2>1. k - 1 \in 0 .. m /\ k \in 0 .. m
    BY <1>2
  <2>2. v \in Queues /\ HeapTo(keys, k - 1, v)
    BY <2>1
  <2>3. HeapTo(keys, k, FilledBy(keys, k, v))
    BY <1>5, <2>2
  <2> QED
    BY <1>3, <2>1, <2>2, <2>3
<1>7. Start \in W[0] /\ \A v \in W[m] : HeapTo(keys, m, v)
  BY <1>2, <1>3, <1>4
<1>8. L0[m] \in W[m]
  <2>1. \A L : Loop(L) => L[m] \in W[m]
    <3> SUFFICES ASSUME NEW L, Loop(L) PROVE L[m] \in W[m]
      OBVIOUS
    <3>1. L[0] = Start /\ \A k \in 1 .. m : L[k] = FilledBy(keys, k, L[k - 1])
      BY <1>2
    <3> HIDE DEF Loop, W
    <3>2. L[0] \in W[0] /\ \A k \in 1 .. m : L[k - 1] \in W[k - 1] => L[k] \in W[k]
      BY <1>6, <1>7, <3>1
    <3>3. \A k \in 0 .. m : L[k] \in W[k]
      BY <1>2, <3>2, LoopKeeps
    <3> QED
      BY <1>2, <3>3
  <2>2. \E L : Loop(L)
    <3>0. \A k \in 1 .. m : \A v \in Queues : G[k][v] = FilledBy(keys, k, v)
      OBVIOUS
    <3> HIDE DEF W, G, Loop
    <3>1. \A k \in 1 .. m : \A v \in W[k - 1] : G[k][v] \in W[k]
      BY <1>6, <3>0
    <3>2. PICK L : Trace(m, Start, G, W, L)
      BY <1>2, <1>7, <3>1, LoopGoes
    <3>3. ASSUME NEW k \in 1 .. m PROVE L[k] = FilledBy(keys, k, L[k - 1])
      <4>1. k - 1 \in 0 .. m
        BY <1>2
      <4>2. L[k - 1] \in W[k - 1] /\ L[k] = G[k][L[k - 1]]
        BY <3>2, <4>1 DEF Trace
      <4> QED
        BY <1>6, <3>0, <4>2
    <3>4. ASSUME NEW k \in 0 .. m PROVE L[k] = IF k = 0 THEN Start ELSE FilledBy(keys, k, L[k - 1])
      <4>1. k = 0 \/ k \in 1 .. m
        BY <1>2
      <4> QED
        BY <3>2, <3>3, <4>1 DEF Trace
    <3>5. L = [k \in 0 .. m |-> L[k]]
      BY <3>2 DEF Trace
    <3>6. Loop(L)
      BY <1>2, <3>4, <3>5 DEF Loop
    <3> QED
      BY <3>6
  <2> HIDE DEF Loop, W
  <2> QED
    BY <2>1, <2>2
<1>9. HeapTo(keys, m, L0[m])
  BY <1>7, <1>8
<1> HIDE DEF L0
<1> QED
  BY <1>1, <1>9 DEF m, HeapTo

\* The heap holds ranks with keys that are long enough, none of them twice.
\* Nothing is said of their order, which a removal may spoil.
HeapGood == strategy = "heap" /\ phase = "factorize" => HeapOK(lcp, queue)

LEMMA HeapFilled ==
  ASSUME Basics, lcp = LCPFromPLCP(sa, plcp), strategy = "heap" => queue = QueueOf(lcp)
  PROVE  HeapGood
<1> SUFFICES ASSUME strategy = "heap" PROVE HeapOK(lcp, queue)
  BY DEF HeapGood
<1>1. lcp \in [Ranks -> 0 .. Cap] /\ Cap \in Nat /\ MaxLCP(lcp) = Cap
  BY CapIs DEF Cap
<1>2. ASSUME NEW r \in Ranks PROVE lcp[r] <= LCPFromPLCP(sa, plcp)[r]
  <2> DEFINE x == lcp[r]
  <2>1. x \in Nat
    BY <1>1
  <2> HIDE DEF x
  <2>2. x <= x
    BY <2>1
  <2> QED
    BY <2>2 DEF x
<1>3. KeysFall(lcp)
  BY <1>1, <1>2 DEF KeysFall
<1> QED
  BY <1>1, <1>3, HeapOfIs

\* One round of the heap strategy.
LEMMA HeapKeeps ==
  ASSUME Basics, FactorsGood, KeysFall(lcp), HeapGood, strategy = "heap", TakeMax
  PROVE  FactorsGood' /\ KeysFall(lcp)' /\ HeapGood'
<1> DEFINE m == queue.items[1]
           f == FactorOf(m)
           c == Correct(lcp, queue, f)
<1>1. /\ phase = "factorize" /\ queue.items # <<>>
      /\ factors' = Append(factors, f) /\ lcp' = c.keys /\ queue' = c.q
      /\ UNCHANGED <<text, strategy, threshold, index, phase>>
  BY DEF TakeMax, Top
<1>2. HeapOK(lcp, queue)
  BY <1>1 DEF HeapGood
<1>3. m \in 1 .. n - 1 /\ lcp[m] \in Nat /\ lcp[m] >= threshold /\ m \in Ranks
  <2>1. queue.items \in Seq(Nat)
    BY <1>2, HeapFacts
  <2>2. 1 \in 1 .. Len(queue.items)
    BY <1>1, <2>1
  <2> QED
    BY <1>2, <2>2, HeapFacts
<1> HIDE DEF m
<1>4. sa[m] \in 0 .. n - 2 /\ isa[sa[m]] = m /\ plcp[sa[m]] \in Nat /\ LCPFromPLCP(sa, plcp)[m] = plcp[sa[m]]
  BY <1>3, RanksAre, KeyOf
<1>5. SoundRef(text, Ways, threshold, f)
  <2> DEFINE p == sa[m]
             l == lcp[m]
  <2>1. l \in Nat /\ threshold <= l /\ l <= plcp[p] /\ p \in 0 .. n - 2
    <3>1. lcp[m] <= plcp[sa[m]]
      BY <1>3, <1>4 DEF KeysFall
    <3>2. lcp[m] \in Nat /\ threshold \in Nat /\ lcp[m] >= threshold
      BY <1>3, BasicFacts
    <3> QED
      BY <1>4, <3>1, <3>2
  <2>2. f = Factor(p, sa[isa[p] - 1], l)
    BY <1>4 DEF FactorOf
  <2> HIDE DEF p, l, f
  <2> QED
    BY <2>1, <2>2, PieceSound
<1> HIDE DEF f
<1>6. FactorsGood'
  BY <1>1, <1>5, FactorsGrow
<1>7. f \in FactorRec /\ f.pos + f.len < n
  BY <1>5 DEF SoundRef, n
<1>8. HeapPair(c)
  BY <1>2, <1>7, HeapCorrects
<1>9. KeysFall(c.keys) /\ HeapOK(c.keys, c.q)
  BY <1>8 DEF HeapPair
<1> HIDE DEF c
<1>10. n' = n /\ Ranks' = Ranks /\ Cap' = Cap /\ threshold' = threshold /\ sa' = sa /\ plcp' = plcp
  BY <1>1, BasicsKept DEF Cap, index
<1>11. KeysFall(lcp)'
  BY <1>1, <1>9, <1>10 DEF KeysFall
<1>12. HeapOK(lcp, queue)'
  BY <1>1, <1>9, <1>10 DEF HeapOK, Queues
<1> QED
  BY <1>6, <1>11, <1>12 DEF HeapGood

-----------------------------------------------------------------------------
(* The inductive invariant.                                                  *)

\* A queue holds ranks of the array, none of them twice.
ItemsOK ==
  Queued => /\ queue.items \in Seq(Nat) /\ Injective(queue.items)
            /\ \A a \in 1 .. Len(queue.items) : queue.items[a] \in 1 .. n - 1

Phases == {"factorize", "encoded", "decode", "eager", "done"}

\* What holds of every strategy in every phase: the variables' ranges, and keys
\* that only fall.
Typed ==
  /\ text \in Seq(Literals) /\ threshold \in Thresholds
  /\ KeysFall(lcp) /\ ItemsOK /\ marked \subseteq Ranks /\ i \in Ranks
  /\ phase \in Phases

\* What the strategies know while they search.
Searching == CursorGood /\ QueueExact /\ ArraysExact /\ PeaksGood /\ HeapGood

\* The inductive invariant.
Inv == Basics /\ FactorsGood /\ Typed /\ (phase = "factorize" => Searching)

LEMMA ItemsAre ==
  Basics /\ phase = "factorize" /\ KeysFall(lcp) /\ QueueExact /\ HeapGood => ItemsOK
<1> SUFFICES ASSUME Basics, phase = "factorize", KeysFall(lcp), QueueExact, HeapGood, Queued
             PROVE  /\ queue.items \in Seq(Nat) /\ Injective(queue.items)
                    /\ \A a \in 1 .. Len(queue.items) : queue.items[a] \in 1 .. n - 1
  BY DEF ItemsOK
<1>1. CASE strategy = "heap"
  <2>1. HeapOK(lcp, queue)
    BY <1>1 DEF HeapGood
  <2> QED
    BY <2>1, HeapFacts
<1>2. CASE strategy # "heap"
  <2>1. QueueOK(lcp, queue)
    BY <1>2 DEF QueueExact, Queued, Listed
  <2> QED
    BY <2>1 DEF QueueOK
<1> QED
  BY <1>1, <1>2

\* The keys of ArraysComp are what is left of each match.
LEMMA ArraysFall ==
  Basics /\ strategy = "arrays" /\ phase = "factorize" /\ ArraysExact => KeysFall(lcp)
<1> SUFFICES ASSUME Basics, strategy = "arrays", phase = "factorize", ArraysExact PROVE KeysFall(lcp)
  OBVIOUS
<1>1. lcp \in [Ranks -> 0 .. Cap] /\ \A r \in Ranks : lcp[r] = Rest[sa[r]]
  BY DEF ArraysExact
<1>2. Cap \in Nat
  BY CapIs
<1>3. ASSUME NEW r \in Ranks PROVE lcp[r] <= LCPFromPLCP(sa, plcp)[r]
  <2>1. CASE r = 0
    <3>1. lcp[r] = 0
      BY <1>1, <2>1, RanksAre, RestIs DEF RestFits
    <3>2. LCPFromPLCP(sa, plcp)[r] = 0
      BY <2>1, BasicFacts DEF LCPFromPLCP
    <3> QED
      BY <3>1, <3>2
  <2>2. CASE r # 0
    <3> DEFINE p == sa[r]
               x == lcp[r]
               y == plcp[p]
    <3>1. p \in 0 .. n - 2 /\ isa[p] = r
      BY <2>2, RanksAre
    <3>2. LCPFromPLCP(sa, plcp)[r] = y
      BY <3>1, KeyOf
    <3>3. Left(y, Covered, p, x)
      BY <1>1, <3>1, RestIs DEF RestFits
    <3>4. x \in 0 .. y /\ y \in Nat
      BY <3>1, <3>3, KeyOf DEF Left
    <3> HIDE DEF x, y
    <3>5. x <= y
      BY <3>4
    <3> QED
      BY <3>2, <3>5 DEF x
  <2> QED
    BY <2>1, <2>2
<1> QED
  BY <1>1, <1>2, <1>3 DEF KeysFall

LEMMA FallKept ==
  ASSUME Basics, KeysFall(lcp), UNCHANGED <<text, strategy, threshold, index, lcp>>
  PROVE  KeysFall(lcp)'
<1>1. Ranks' = Ranks /\ sa' = sa /\ plcp' = plcp /\ lcp' = lcp
  BY BasicsKept DEF index
<1> QED
  BY <1>1 DEF KeysFall

\* A step of the search keeps the invariant if it keeps what is about it.
LEMMA SearchOn ==
  ASSUME Inv, phase = "factorize", UNCHANGED <<text, strategy, threshold, index, phase>>,
         FactorsGood', KeysFall(lcp)', marked' \subseteq Ranks, Searching'
  PROVE  Inv'
<1>1. Basics' /\ Ranks' = Ranks /\ n' = n
  BY BasicsKept DEF Inv
<1>2. ItemsOK'
  <2>1. (Basics /\ phase = "factorize" /\ KeysFall(lcp) /\ QueueExact /\ HeapGood => ItemsOK)'
    BY ItemsAre, PTL
  <2> QED
    BY <1>1, <2>1 DEF Searching
<1>3. Literals' = Literals
  BY DEF Literals
<1>4. text' \in Seq(Literals) /\ threshold' \in Thresholds /\ phase' \in Phases
  BY DEF Inv, Typed
<1>5. i' \in Ranks
  BY <1>1 DEF Searching, CursorGood
<1>6. Typed'
  BY <1>1, <1>2, <1>3, <1>4, <1>5 DEF Typed
<1> QED
  BY <1>1, <1>6 DEF Inv

-----------------------------------------------------------------------------
(* The steps of the search.                                                  *)

LEMMA TakeMaxInv ==
  ASSUME Inv, TakeMax PROVE Inv'
<1>1. /\ phase = "factorize" /\ Queued
      /\ UNCHANGED <<text, strategy, threshold, index, marked, i, phase>>
  BY DEF TakeMax
<1>2. Basics /\ FactorsGood /\ Typed /\ Searching /\ KeysFall(lcp)
  BY <1>1 DEF Inv, Typed
<1>3. Ranks' = Ranks /\ n' = n /\ LCPFromPLCP(sa, plcp)' = LCPFromPLCP(sa, plcp)
  BY <1>1, <1>2, BasicsKept DEF index
<1>4. CursorGood' /\ ArraysExact' /\ PeaksGood' /\ marked' \subseteq Ranks
  BY <1>1, <1>2, <1>3 DEF Queued, CursorGood, ArraysExact, PeaksGood, Typed
<1>5. CASE strategy = "heap"
  <2>1. FactorsGood' /\ KeysFall(lcp)' /\ HeapGood'
    BY <1>2, <1>5, HeapKeeps DEF Searching
  <2>2. QueueExact'
    BY <1>1, <1>5 DEF QueueExact, Listed
  <2> QED
    BY <1>1, <1>4, <2>1, <2>2, SearchOn DEF Searching
<1>6. CASE strategy # "heap"
  <2>1. Listed
    BY <1>1, <1>6 DEF Queued, Listed
  <2>2. FactorsGood' /\ QueueExact' /\ \A r \in Ranks : lcp'[r] <= lcp[r]
    BY <1>2, <2>1, TakeMaxKeeps DEF Searching
  <2>3. HeapGood'
    BY <1>1, <1>6 DEF HeapGood
  <2>4. lcp' \in [Ranks -> Nat]
    <3>1. lcp' \in [Ranks' -> 0 .. Cap']
      BY <1>1, <2>1, <2>2 DEF QueueExact, Listed
    <3>2. Cap' = Cap /\ Cap \in Nat
      BY <1>2, <1>3, CapIs DEF Cap
    <3> QED
      BY <1>3, <3>1, <3>2
  <2>5. ASSUME NEW r \in Ranks PROVE lcp'[r] <= LCPFromPLCP(sa, plcp)[r]
    <3> DEFINE x == lcp'[r]
               y == lcp[r]
               z == LCPFromPLCP(sa, plcp)[r]
    <3>1. x \in Nat /\ y \in Nat /\ z \in Nat /\ x <= y /\ y <= z
      BY <1>2, <2>2, <2>4, CapIs DEF KeysFall
    <3> HIDE DEF x, y, z
    <3>2. x <= z
      BY <3>1
    <3> QED
      BY <3>2 DEF x, z
  <2>6. KeysFall(lcp)'
    BY <1>3, <2>4, <2>5 DEF KeysFall
  <2> QED
    BY <1>1, <1>4, <2>2, <2>3, <2>6, SearchOn DEF Searching
<1> QED
  BY <1>5, <1>6

LEMMA ArraysInv ==
  ASSUME Inv, ArraysStep PROVE Inv'
<1>1. /\ phase = "factorize" /\ strategy = "arrays"
      /\ UNCHANGED <<text, strategy, threshold, index, marked, i, phase>>
  BY DEF ArraysStep
<1>2. Basics /\ FactorsGood /\ Typed /\ Searching
  BY <1>1 DEF Inv
<1>3. FactorsGood' /\ ArraysExact'
  BY <1>2, ArraysKeep DEF Searching
<1>4. KeysFall(lcp)'
  <2>1. (Basics /\ strategy = "arrays" /\ phase = "factorize" /\ ArraysExact => KeysFall(lcp))'
    BY ArraysFall, PTL
  <2> QED
    BY <1>1, <1>2, <1>3, <2>1, BasicsKept
<1>5. CursorGood' /\ QueueExact' /\ PeaksGood' /\ HeapGood' /\ marked' \subseteq Ranks
  <2>1. Ranks' = Ranks
    BY <1>1, <1>2, BasicsKept
  <2> QED
    BY <1>1, <1>2, <2>1 DEF Searching, CursorGood, QueueExact, Listed, PeaksGood, HeapGood, Typed
<1> QED
  BY <1>1, <1>3, <1>4, <1>5, SearchOn DEF Searching

\* The strategies that go through the text leave the keys alone.
LEMMA CursorInv ==
  ASSUME Inv, phase = "factorize", strategy \in {"naive", "plcppeaks", "lzss_lcp", "plcp"},
         UNCHANGED <<text, strategy, threshold, index, lcp, phase>>,
         FactorsGood', CursorGood', strategy = "plcp" => PeaksGood', marked' \subseteq Ranks
  PROVE  Inv'
<1>1. Basics /\ KeysFall(lcp)
  BY DEF Inv, Typed
<1>2. KeysFall(lcp)'
  BY <1>1, FallKept
<1>3. QueueExact' /\ ArraysExact' /\ HeapGood' /\ PeaksGood'
  BY DEF QueueExact, Listed, ArraysExact, HeapGood, PeaksGood
<1> QED
  BY <1>2, <1>3, SearchOn DEF Searching

LEMMA NaiveInv ==
  ASSUME Inv, NaiveStep PROVE Inv'
<1>1. /\ phase = "factorize" /\ strategy = "naive"
      /\ UNCHANGED <<text, strategy, threshold, index, lcp, phase>>
  BY DEF NaiveStep
<1>2. Basics /\ FactorsGood /\ CursorGood /\ marked \subseteq Ranks
  BY <1>1 DEF Inv, Typed, Searching
<1>3. FactorsGood' /\ CursorGood' /\ marked' \subseteq Ranks
  BY <1>2, NaiveKeeps
<1> QED
  BY <1>1, <1>3, CursorInv

LEMMA PeaksInv ==
  ASSUME Inv, PeaksStep PROVE Inv'
<1>1. /\ phase = "factorize" /\ strategy = "plcppeaks"
      /\ UNCHANGED <<text, strategy, threshold, index, lcp, phase>>
  BY DEF PeaksStep
<1>2. Basics /\ FactorsGood /\ CursorGood /\ marked \subseteq Ranks
  BY <1>1 DEF Inv, Typed, Searching
<1>3. FactorsGood' /\ CursorGood' /\ marked' \subseteq Ranks
  BY <1>2, PeaksKeep
<1> QED
  BY <1>1, <1>3, CursorInv

LEMMA LZSSInv ==
  ASSUME Inv, LZSSStep PROVE Inv'
<1>1. /\ phase = "factorize" /\ strategy = "lzss_lcp" /\ marked' = marked
      /\ UNCHANGED <<text, strategy, threshold, index, lcp, phase>>
  BY DEF LZSSStep
<1>2. Basics /\ FactorsGood /\ CursorGood /\ marked \subseteq Ranks
  BY <1>1 DEF Inv, Typed, Searching
<1>3. FactorsGood' /\ CursorGood'
  BY <1>2, LZSSKeeps
<1> QED
  BY <1>1, <1>2, <1>3, CursorInv

LEMMA SearchInv ==
  ASSUME Inv, PeaksSearch PROVE Inv'
<1>1. /\ phase = "factorize" /\ strategy = "plcp" /\ marked' = marked
      /\ UNCHANGED <<text, strategy, threshold, index, lcp, phase>>
  BY DEF PeaksSearch
<1>2. Basics /\ FactorsGood /\ CursorGood /\ PeaksGood /\ marked \subseteq Ranks
  BY <1>1 DEF Inv, Typed, Searching
<1>3. FactorsGood' /\ CursorGood' /\ PeaksGood'
  BY <1>2, SearchKeeps
<1> QED
  BY <1>1, <1>2, <1>3, CursorInv

LEMMA TakePeakInv ==
  ASSUME Inv, TakePeak PROVE Inv'
<1>1. /\ phase = "factorize" /\ strategy = "plcp" /\ marked' = marked
      /\ UNCHANGED <<text, strategy, threshold, index, lcp, phase>>
  BY DEF TakePeak
<1>2. Basics /\ FactorsGood /\ CursorGood /\ PeaksGood /\ marked \subseteq Ranks
  BY <1>1 DEF Inv, Typed, Searching
<1>3. FactorsGood' /\ CursorGood' /\ PeaksGood'
  BY <1>2, PeakTaken
<1> QED
  BY <1>1, <1>2, <1>3, CursorInv

-----------------------------------------------------------------------------
(* The other steps.                                                          *)

\* The search is over: its variables keep their values.
LEMMA OverInv ==
  ASSUME Inv, UNCHANGED <<text, strategy, threshold, index, lcp, queue, marked, i>>,
         phase' \in Phases \ {"factorize"}, FactorsGood'
  PROVE  Inv'
<1>1. Basics /\ Typed
  BY DEF Inv
<1>2. Basics' /\ Ranks' = Ranks /\ n' = n
  BY <1>1, BasicsKept
<1>3. KeysFall(lcp)'
  BY <1>1, FallKept DEF Typed
<1>4. Literals' = Literals /\ ItemsOK'
  BY <1>1, <1>2 DEF Literals, Typed, ItemsOK, Queued
<1>5. Typed'
  BY <1>1, <1>2, <1>3, <1>4 DEF Typed
<1> QED
  BY <1>2, <1>5 DEF Inv

LEMMA EncodeInv ==
  ASSUME Inv, Encode PROVE Inv'
<1>1. /\ phase' = "encoded" /\ UNCHANGED <<text, strategy, threshold, index, lcp, queue, marked, i>>
      /\ \E flatten \in IF strategy = "lzss_lcp" THEN {FALSE} ELSE BOOLEAN :
           factors' = IF flatten THEN Flattened(Sorted(factors)) ELSE Sorted(factors)
  BY DEF Encode
<1>2. Basics /\ FactorsGood
  BY DEF Inv
<1>3. SoundRefs(text, Ways, threshold, factors') /\ (strategy # "heap" => Apart(factors'))
  <2>1. CASE factors' = Sorted(factors)
    BY <1>2, <2>1, EncodedGood
  <2>2. CASE factors' = Flattened(Sorted(factors)) /\ strategy # "lzss_lcp"
    BY <1>2, <2>2, EncodedGood
  <2> QED
    BY <1>1, <2>1, <2>2
<1>4. FactorsGood'
  <2>1. Ways' = Ways
    BY <1>1, <1>2, BasicsKept
  <2> QED
    BY <1>1, <1>3, <2>1 DEF FactorsGood
<1>5. phase' \in Phases \ {"factorize"}
  BY <1>1 DEF Phases
<1> QED
  BY <1>1, <1>4, <1>5, OverInv

LEMMA DecodeInv ==
  ASSUME Inv, UNCHANGED <<text, strategy, threshold, index, comp>>, phase' \in Phases \ {"factorize"}
  PROVE  Inv'
<1>1. UNCHANGED <<lcp, queue, marked, i, factors>>
  BY DEF comp
<1>2. FactorsGood'
  BY <1>1, FactorsKept DEF Inv
<1> QED
  BY <1>1, <1>2, OverInv

LEMMA StutterInv ==
  ASSUME Inv, UNCHANGED vars PROVE Inv'
<1>1. UNCHANGED <<text, strategy, threshold, index, lcp, queue, marked, i, factors, phase, sa, isa, plcp>>
  BY DEF vars, comp, index
<1>2. Basics /\ Basics' /\ FactorsGood'
  BY <1>1, BasicsKept, FactorsKept DEF Inv
<1>3. CASE phase # "factorize"
  <2>1. phase' \in Phases \ {"factorize"}
    BY <1>1, <1>3 DEF Inv, Typed
  <2> QED
    BY <1>1, <1>2, <2>1, OverInv
<1>4. CASE phase = "factorize"
  <2>1. Searching'
    <3>1. Searching
      BY <1>4 DEF Inv
    <3>2. Ranks' = Ranks /\ n' = n /\ Cap' = Cap /\ Rest' = Rest /\ Covered' = Covered
      BY <1>1, <1>2, BasicsKept DEF Cap, Rest, Remaining, Covered
    <3>3. CursorGood' /\ QueueExact' /\ ArraysExact' /\ PeaksGood' /\ HeapGood'
      <4>1. CursorGood'
        BY <1>1, <3>1, <3>2 DEF Searching, CursorGood
      <4>2. QueueExact'
        BY <1>1, <3>1, <3>2 DEF Searching, QueueExact, QueueOK, Listed
      <4>3. ArraysExact'
        BY <1>1, <3>1, <3>2 DEF Searching, ArraysExact, Arrays, Waits
      <4>4. PeaksGood'
        BY <1>1, <3>1, <3>2 DEF Searching, PeaksGood, PeaksFine, PeakFine, Precedes
      <4>5. HeapGood'
        BY <1>1, <3>1, <3>2 DEF Searching, HeapGood, HeapOK, Queues
      <4> QED
        BY <4>1, <4>2, <4>3, <4>4, <4>5
    <3> QED
      BY <3>3 DEF Searching
  <2>2. KeysFall(lcp)' /\ marked' \subseteq Ranks
    BY <1>1, FallKept DEF Inv, Typed
  <2> QED
    BY <1>1, <1>2, <1>4, <2>1, <2>2, SearchOn
<1> QED
  BY <1>3, <1>4

LEMMA TextIs ==
  ASSUME NEW t, t \in Seq(Sigma), Sigma \subseteq Nat \ {0}
  PROVE  Ended(Append(t, 0)) /\ Append(t, 0) \in Seq(Literals)
<1> DEFINE m == Len(t)
           u == Append(t, 0)
<1>1. m \in Nat /\ \A k \in 1 .. m : t[k] \in Sigma
  OBVIOUS
<1>2. Len(u) = m + 1 /\ u[m + 1] = 0 /\ \A k \in 1 .. m : u[k] = t[k]
  BY <1>1
<1>3. u \in Seq(Literals)
  <2>1. t \in [1 .. m -> Literals]
    <3>1. t \in [1 .. m -> Sigma]
      BY LenProperties
    <3> QED
      BY <3>1 DEF Literals
  <2>2. t \in Seq(Literals)
    BY <1>1, <2>1, IsASeq
  <2>3. 0 \in Literals
    BY DEF Literals
  <2> QED
    BY <2>2, <2>3, AppendProperties
<1> HIDE DEF m, u
<1>4. \A k \in 1 .. m + 1 : k = m + 1 \/ (k \in 1 .. m /\ k # m + 1)
  BY <1>1
<1>5. ASSUME NEW k \in 1 .. m + 1 PROVE u[k] \in Nat /\ (u[k] = 0 <=> k = m + 1)
  <2>1. CASE k = m + 1
    BY <1>2, <2>1
  <2>2. CASE k # m + 1
    <3>1. k \in 1 .. m
      BY <1>4, <2>2
    <3>2. u[k] \in Sigma
      BY <1>1, <1>2, <3>1
    <3> QED
      BY <2>2, <3>2
  <2> QED
    BY <2>1, <2>2
<1>6. m + 1 \in Nat \ {0}
  BY <1>1
<1>7. u \in Seq(Nat)
  <2>1. u \in [1 .. Len(u) -> Literals]
    BY <1>3, LenProperties
  <2>2. u = [k \in 1 .. m + 1 |-> u[k]]
    BY <1>2, <2>1
  <2>3. u \in [1 .. m + 1 -> Nat]
    BY <1>5, <2>2
  <2> QED
    BY <1>6, <2>3, IsASeq
<1>8. Ended(u)
  BY <1>2, <1>5, <1>6, <1>7 DEF Ended
<1> QED
  BY <1>3, <1>8 DEF u

LEMMA InitInv == Init => Inv
<1> SUFFICES ASSUME Init PROVE Inv
  OBVIOUS
<1>1. /\ strategy \in Strategies /\ threshold \in Thresholds
      /\ sa = SuffixArray(text) /\ isa = ISAFromSA(sa)
      /\ plcp = PLCPFromPhi(text, PhiFromSA(sa))
      /\ lcp = LCPFromPLCP(sa, plcp)
      /\ queue = CASE strategy = "arrays" -> ArraysOf(lcp)
                   [] strategy = "plcp" -> NoPeaks
                   [] Queued -> QueueOf(lcp)
                   [] OTHER -> <<>>
      /\ marked = {} /\ i = 0 /\ factors = <<>> /\ phase = "factorize"
  BY DEF Init
<1>2. PICK t \in TextsOf(strategy) : text = Append(t, 0)
  BY DEF Init
<1>3. t \in Seq(Sigma) /\ Sigma \subseteq Nat \ {0} /\ Thresholds \subseteq Nat \ {0}
  BY <1>1, <1>2, LCPCompAssumption
<1>4. Ended(text) /\ text \in Seq(Literals)
  BY <1>2, <1>3, TextIs
<1>5. Ordered(text, sa, isa)
  BY <1>1, <1>4, SuffixArrayIs
<1>6. Indexed(text, sa, isa, plcp)
  BY <1>1, <1>4, <1>5, PLCPIs
<1>7. Basics
  BY <1>1, <1>3, <1>6 DEF Basics
<1>8. FactorsGood
  BY <1>1 DEF FactorsGood, SoundRefs, Apart
<1>9. /\ Listed => queue = QueueOf(lcp)
      /\ strategy = "heap" => queue = QueueOf(lcp)
      /\ strategy = "arrays" => queue = ArraysOf(lcp)
      /\ strategy = "plcp" => queue = NoPeaks
  BY <1>1 DEF Listed, Queued
<1>10. QueueExact /\ ArraysExact /\ HeapGood
  BY <1>1, <1>7, <1>9, QueueFilled, ArraysFilled, HeapFilled
<1>11. i \in Ranks /\ 0 \in Ranks /\ CursorGood
  BY <1>1, <1>7, RanksAre DEF CursorGood
<1>12. PeaksGood
  <2> SUFFICES ASSUME strategy = "plcp"
               PROVE  /\ queue \in [peaks : Seq(PeakRec), last : PeakRec] /\ queue.last.pos <= i
                      /\ PeaksFine(queue.peaks, Covered, Stop(queue.last))
                      /\ \A k \in 1 .. Len(factors) : factors[k].pos + factors[k].len <= i
    BY DEF PeaksGood
  <2>1. queue = [peaks |-> <<>>, last |-> [pos |-> 0, len |-> 0]]
    BY <1>9 DEF NoPeaks, Peak
  <2>2. queue.peaks = <<>> /\ queue.last.pos = 0 /\ queue \in [peaks : Seq(PeakRec), last : PeakRec]
    BY <2>1 DEF PeakRec
  <2>3. \A k : k \notin Alive(<<>>)
    BY DEF Alive
  <2>4. PeaksFine(queue.peaks, Covered, Stop(queue.last))
    BY <2>2, <2>3 DEF PeaksFine
  <2> QED
    BY <1>1, <2>2, <2>4
<1>13. KeysFall(lcp)
  <2>1. lcp \in [Ranks -> 0 .. Cap] /\ Cap \in Nat
    BY <1>1, <1>7, CapIs
  <2>2. ASSUME NEW r \in Ranks PROVE lcp[r] <= LCPFromPLCP(sa, plcp)[r]
    <3> DEFINE x == lcp[r]
    <3>1. x \in Nat /\ LCPFromPLCP(sa, plcp)[r] = x
      BY <1>1, <2>1
    <3> HIDE DEF x
    <3> QED
      BY <3>1 DEF x
  <2> QED
    BY <2>1, <2>2 DEF KeysFall
<1>14. ItemsOK
  BY <1>1, <1>7, <1>10, <1>13, ItemsAre
<1>15. Typed
  BY <1>1, <1>4, <1>11, <1>13, <1>14 DEF Typed, Phases
<1> QED
  BY <1>7, <1>8, <1>10, <1>11, <1>12, <1>15 DEF Inv, Searching

LEMMA NextInv == Inv /\ [Next]_vars => Inv'
<1> SUFFICES ASSUME Inv, [Next]_vars PROVE Inv'
  OBVIOUS
<1>1. CASE TakeMax
  BY <1>1, TakeMaxInv
<1>2. CASE ArraysStep
  BY <1>2, ArraysInv
<1>3. CASE NaiveStep
  BY <1>3, NaiveInv
<1>4. CASE PeaksStep
  BY <1>4, PeaksInv
<1>5. CASE PeaksSearch
  BY <1>5, SearchInv
<1>6. CASE TakePeak
  BY <1>6, TakePeakInv
<1>7. CASE LZSSStep
  BY <1>7, LZSSInv
<1>8. CASE Encode
  BY <1>8, EncodeInv
<1>9. CASE Open \/ DecodeItem \/ Scan \/ StartEager \/ EagerFactor \/ Write
  <2>1. UNCHANGED <<text, strategy, threshold, index, comp>> /\ phase' \in Phases \ {"factorize"}
    <3>1. CASE Open
      BY <3>1 DEF Open, Phases
    <3>2. CASE DecodeItem
      BY <3>2 DEF DecodeItem, Phases
    <3>3. CASE Scan
      BY <3>3 DEF Scan, Phases
    <3>4. CASE StartEager
      BY <3>4 DEF StartEager, Phases
    <3>5. CASE EagerFactor
      BY <3>5 DEF EagerFactor, Phases
    <3>6. CASE Write
      BY <3>6 DEF Write, Phases
    <3> QED
      BY <1>9, <3>1, <3>2, <3>3, <3>4, <3>5, <3>6
  <2> QED
    BY <2>1, DecodeInv
<1>10. CASE Done \/ UNCHANGED vars
  BY <1>10, StutterInv DEF Done
<1> QED
  BY <1>1, <1>2, <1>3, <1>4, <1>5, <1>6, <1>7, <1>8, <1>9, <1>10 DEF Next

LEMMA AlwaysInv == Spec => []Inv
BY InitInv, NextInv, PTL DEF Spec

\* Whatever strategy has found them, before and after sorting and flattening: the
\* factors are long enough and repeat the text of their sources, the final 0 stays
\* out of them, no chain of references comes back to where it began, and - but for
\* the heap - no two overlap (LZSSCoding.hpp:66, 76; LZSSFactors.hpp:79-132).
THEOREM FactorsSoundHolds == Spec => []FactorsSound
<1>1. Inv => FactorsSound
  BY GoodIsSound DEF Inv
<1> QED
  BY <1>1, AlwaysInv, PTL

\* The candidates of max_lcp, bheap and arrays are, after every factor, just the
\* positions of which enough is left, each with what is left as its key, although
\* the corrections look back over one factor length only; and the variables of all
\* strategies keep to their ranges (MaxLCPStrategy.hpp:76-97, BoostHeap.hpp:95-117,
\* ArraysComp.hpp:80-109).
THEOREM CandidatesExactHolds == Spec => []CandidatesExact
<1>1. Inv => TypeOK
  <2> SUFFICES ASSUME Inv PROVE TypeOK
    OBVIOUS
  <2>1. Basics /\ Typed
    BY DEF Inv
  <2>2. DOMAIN lcp = Ranks /\ \A r \in Ranks : lcp[r] \in 0 .. LCPFromPLCP(sa, plcp)[r]
    <3>1. DOMAIN lcp = Ranks
      BY <2>1 DEF Typed, KeysFall
    <3>2. ASSUME NEW r \in Ranks PROVE lcp[r] \in 0 .. LCPFromPLCP(sa, plcp)[r]
      <4> DEFINE x == lcp[r]
                 y == LCPFromPLCP(sa, plcp)[r]
      <4>1. x \in Nat /\ y \in Nat /\ x <= y
        BY <2>1, CapIs DEF Typed, KeysFall
      <4> HIDE DEF x, y
      <4>2. x \in 0 .. y
        BY <4>1
      <4> QED
        BY <4>2 DEF x, y
    <3> QED
      BY <3>1, <3>2
  <2>3. ASSUME Queued PROVE ToSet(queue.items) \subseteq Ranks \ {0} /\ IsInjective(queue.items)
    <3>1. /\ queue.items \in Seq(Nat) /\ Injective(queue.items)
          /\ \A a \in 1 .. Len(queue.items) : queue.items[a] \in 1 .. n - 1
      BY <2>1, <2>3 DEF Typed, ItemsOK
    <3>2. n \in Nat
      BY <2>1, BasicFacts
    <3>3. \A o \in 1 .. n - 1 : o \in Ranks \ {0}
      BY <3>2 DEF Ranks
    <3>4. DOMAIN queue.items = 1 .. Len(queue.items)
      BY <3>1
    <3> QED
      BY <3>1, <3>3, <3>4 DEF ToSet, IsInjective, Injective
  <2> QED
    BY <2>1, <2>2, <2>3 DEF TypeOK, Typed, Phases
<1>2. ASSUME Inv, phase = "factorize", Queued, strategy # "heap", NEW r \in Ranks
      PROVE  /\ Contains(queue.items, r) <=> Remaining(sa[r]) >= threshold
             /\ Contains(queue.items, r) => lcp[r] = Remaining(sa[r])
  <2>1. Basics /\ QueueExact /\ Listed
    BY <1>2 DEF Inv, Searching, Queued, Listed
  <2>2. Rest[sa[r]] = Remaining(sa[r])
    BY <2>1, RestIs, RanksAre DEF RestFits
  <2> QED
    BY <1>2, <2>1, <2>2 DEF QueueExact
<1>3. ASSUME Inv, phase = "factorize", strategy = "arrays", NEW r \in Ranks
      PROVE  /\ lcp[r] = Remaining(sa[r])
             /\ lcp[r] >= threshold =>
                  \E v \in lcp[r] .. queue.level :
                    \E k \in 1 .. Len(queue.cand[v]) :
                      queue.cand[v][k] = r /\ (v = queue.level => k >= queue.next)
  <2>1. Basics /\ ArraysExact
    BY <1>3 DEF Inv, Searching
  <2>2. Rest[sa[r]] = Remaining(sa[r])
    BY <2>1, RestIs, RanksAre DEF RestFits
  <2>3. lcp[r] = Rest[sa[r]] /\ (lcp[r] >= threshold => Waits(queue, lcp[r], r))
    BY <1>3, <2>1 DEF ArraysExact
  <2> QED
    BY <2>2, <2>3 DEF Waits
<1>4. Inv => CandidatesExact
  BY <1>1, <1>2, <1>3 DEF CandidatesExact
<1> QED
  BY <1>4, AlwaysInv, PTL

\* max_lcp, bheap and arrays always replace the longest match that is left, and
\* stop only when no match is long enough (ArraysComp.hpp:11-21,
\* MaxLCPSuffixList.hpp:9-13, BoostHeap.hpp:14-22).
THEOREM GreedyChoiceHolds == Spec => GreedyChoice
<1> DEFINE Chosen ==
             Greedy /\ phase = "factorize" =>
               /\ Len(factors') > Len(factors) => LongestLeft(factors'[Len(factors')].len)
               /\ phase' = "encoded" => LongestLeft(threshold - 1)
<1>1. ASSUME Inv, Next, Greedy, phase = "factorize"
      PROVE  /\ Len(factors') > Len(factors) => LongestLeft(factors'[Len(factors')].len)
             /\ phase' = "encoded" => LongestLeft(threshold - 1)
  <2>1. Basics /\ FactorsGood /\ QueueExact /\ ArraysExact
    BY <1>1 DEF Inv, Searching
  <2>2. CASE TakeMax
    <3>1. phase' = phase /\ Listed
      BY <1>1, <2>2 DEF TakeMax, Greedy, Queued, Listed
    <3> QED
      BY <1>1, <2>1, <2>2, <3>1, TakeMaxGreedy
  <2>3. CASE ArraysStep
    <3>1. phase' = phase
      BY <2>3 DEF ArraysStep
    <3> QED
      BY <1>1, <2>1, <2>3, <3>1, ArraysGreedy
  <2>4. CASE Encode
    <3>1. Len(factors') = Len(factors) /\ LongestLeft(threshold - 1)
      BY <1>1, <2>1, <2>4, EncodeGreedy
    <3>2. Len(factors) \in Nat
      BY <2>1 DEF FactorsGood, SoundRefs
    <3>3. ~ (Len(factors') > Len(factors))
      BY <3>1, <3>2
    <3> QED
      BY <3>1, <3>3
  <2>5. ~ NaiveStep /\ ~ PeaksStep /\ ~ PeaksSearch /\ ~ TakePeak /\ ~ LZSSStep
    BY <1>1 DEF Greedy, NaiveStep, PeaksStep, PeaksSearch, TakePeak, LZSSStep
  <2>6. ~ Open /\ ~ DecodeItem /\ ~ Scan /\ ~ StartEager /\ ~ EagerFactor /\ ~ Write /\ ~ Done
    BY <1>1 DEF Open, DecodeItem, Scan, StartEager, EagerFactor, Write, Done
  <2> QED
    BY <1>1, <2>2, <2>3, <2>4, <2>5, <2>6 DEF Next
<1>2. Inv /\ Next => Chosen
  BY <1>1
<1>3. Inv /\ [Next]_vars => [Chosen]_vars
  BY <1>2
<1> QED
  BY <1>3, AlwaysInv, PTL DEF Spec, GreedyChoice
=============================================================================
