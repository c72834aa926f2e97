----------------------------- MODULE DataProofs -----------------------------
(***************************************************************************)
(* Lemmas about the data that several components share, for every value of *)
(* the constants.                                                          *)
(*                                                                         *)
(* First EscapeMap, for every pool and every restriction it is large       *)
(* enough for: the tables can be read backwards and contain no forbidden   *)
(* byte, and Offset counts as its name says.                               *)
(*                                                                         *)
(* Then what LZ78 and LZW have in common: the coder (RangeCoder), the      *)
(* words it writes one after the other, the dictionary (PhraseDict) and    *)
(* the phrases its nodes stand for.  The recursive functions of these      *)
(* modules (the value of a binary number, the phrases of the nodes, a text *)
(* put together of phrases) are reasoned about by the least argument at    *)
(* which they would differ from what they are claimed to be (LeastNumber). *)
(***************************************************************************)
EXTENDS EscapeMap, RangeCoder, PhraseDict, FiniteSetTheorems, FunctionTheorems,
        SequenceTheorems, WellFoundedInduction, TLAPS

-----------------------------------------------------------------------------
(* Ranks in a finite set of numbers.                                       *)

LEMMA UpToFinite ==
  ASSUME NEW S, IsFiniteSet(S), NEW x
  PROVE  /\ IsFiniteSet(UpTo(S, x))
         /\ Cardinality(UpTo(S, x)) \in Nat
         /\ Cardinality(UpTo(S, x)) <= Cardinality(S)
<1>1. UpTo(S, x) \in SUBSET S
  BY DEF UpTo
<1> QED
  BY <1>1, FS_Subset, FS_CardinalityType

\* The rank of an element is between 1 and the number of elements.
LEMMA RankRange ==
  ASSUME NEW S, IsFiniteSet(S), S \subseteq Int, NEW x \in S
  PROVE  Cardinality(UpTo(S, x)) \in 1 .. Cardinality(S)
<1>1. x \in UpTo(S, x)
  BY DEF UpTo
<1>2. Cardinality(UpTo(S, x)) # 0
  BY <1>1, UpToFinite, FS_EmptySet
<1>3. Cardinality(S) \in Nat
  BY FS_CardinalityType
<1> QED
  BY <1>2, <1>3, UpToFinite

\* A larger element has a larger rank.
LEMMA RankGrows ==
  ASSUME NEW S, IsFiniteSet(S), S \subseteq Int, NEW x \in S, NEW y \in S, x < y
  PROVE  Cardinality(UpTo(S, x)) < Cardinality(UpTo(S, y))
<1>1. UpTo(S, x) \in SUBSET UpTo(S, y)
  <2>1. \A z \in S : z <= x => z <= y
    OBVIOUS
  <2> QED
    BY <2>1, Zenon DEF UpTo
<1>2. y \in UpTo(S, y) /\ y \notin UpTo(S, x)
  BY DEF UpTo
<1>3. Cardinality(UpTo(S, x)) # Cardinality(UpTo(S, y))
  BY <1>1, <1>2, UpToFinite, FS_Subset
<1>4. Cardinality(UpTo(S, x)) <= Cardinality(UpTo(S, y))
  BY <1>1, UpToFinite, FS_Subset
<1> QED
  BY <1>3, <1>4, UpToFinite

LEMMA RankInjective ==
  ASSUME NEW S, IsFiniteSet(S), S \subseteq Int, NEW x \in S, NEW y \in S,
         Cardinality(UpTo(S, x)) = Cardinality(UpTo(S, y))
  PROVE  x = y
<1>1. ~(x < y)
  <2>1. ASSUME x < y PROVE FALSE
    <3>1. Cardinality(UpTo(S, x)) < Cardinality(UpTo(S, y))
      BY <2>1, RankGrows
    <3> QED
      BY <3>1, UpToFinite
  <2> QED
    BY <2>1
<1>2. ~(y < x)
  <2>1. ASSUME y < x PROVE FALSE
    <3>1. Cardinality(UpTo(S, y)) < Cardinality(UpTo(S, x))
      BY <2>1, RankGrows
    <3> QED
      BY <3>1, UpToFinite
  <2> QED
    BY <2>1
<1> QED
  BY <1>1, <1>2

\* Every rank belongs to an element: ranks map the set one to one into as many
\* numbers, hence onto them.
LEMMA RankTaken ==
  ASSUME NEW S, IsFiniteSet(S), S \subseteq Int, NEW k \in 1 .. Cardinality(S)
  PROVE  \E x \in S : Cardinality(UpTo(S, x)) = k
<1> DEFINE n == Cardinality(S)
           rank == [x \in S |-> Cardinality(UpTo(S, x))]
<1>1. rank \in [S -> 1 .. n]
  BY RankRange
<1>2. \A x, y \in S : rank[x] = rank[y] => x = y
  BY RankInjective
<1>3. rank \in Injection(S, 1 .. n)
  BY <1>1, <1>2, Fun_IsInj
<1>4. n \in Nat /\ IsFiniteSet(1 .. n) /\ Cardinality(1 .. n) = n
  BY FS_CardinalityType, FS_Interval
<1>5. rank \in Surjection(S, 1 .. n)
  <2> HIDE DEF rank
  <2> QED BY <1>3, <1>4, FS_Injection
<1>6. \A t \in 1 .. n : \E s \in S : rank[s] = t
  <2> HIDE DEF rank
  <2> QED BY <1>5, Fun_SurjectionProperties
<1> QED
  BY <1>6
-----------------------------------------------------------------------------
(* The tables.                                                             *)

LEMMA UsableFinite ==
  ASSUME NEW r
  PROVE  /\ IsFiniteSet(Usable(r)) /\ Usable(r) \subseteq Int
         /\ Cardinality(Usable(r)) \in Nat
<1>1. Len(Pool) \in Nat
  BY PoolAssumption, LenProperties
<1>2. IsFiniteSet(1 .. Len(Pool)) /\ Usable(r) \in SUBSET (1 .. Len(Pool))
  BY <1>1, FS_Interval DEF Usable
<1> QED
  BY <1>1, <1>2, FS_Subset, FS_CardinalityType

\* The replacement bytes are different pool bytes that are not forbidden.
LEMMA ReplacementByteFacts ==
  ASSUME NEW r, PoolSuffices(r), r.escape # {}
  PROVE  /\ \A k \in 0 .. Cardinality(r.escape) :
              /\ ReplacementByte(r, k) \in Nat \ {0}
              /\ ReplacementByte(r, k) \in ToSet(Pool)
              /\ ReplacementByte(r, k) \notin r.escape
         /\ \A k, l \in 0 .. Cardinality(r.escape) :
              ReplacementByte(r, k) = ReplacementByte(r, l) => k = l
<1> DEFINE At(k) == CHOOSE i \in Usable(r) : Cardinality(UpTo(Usable(r), i)) = k + 1
<1>0. Cardinality(r.escape) \in Nat /\ Cardinality(r.escape) < Cardinality(Usable(r))
  BY FS_CardinalityType DEF PoolSuffices
<1>1. ASSUME NEW k \in 0 .. Cardinality(r.escape)
      PROVE  At(k) \in Usable(r) /\ Cardinality(UpTo(Usable(r), At(k))) = k + 1
  <2>1. k + 1 \in 1 .. Cardinality(Usable(r))
    BY <1>0, UsableFinite
  <2>2. \E i \in Usable(r) : Cardinality(UpTo(Usable(r), i)) = k + 1
    BY <2>1, UsableFinite, RankTaken
  <2> QED
    BY <2>2
<1>2. \A k : ReplacementByte(r, k) = Pool[At(k)]
  BY DEF ReplacementByte
<1> HIDE DEF At
<1>3. \A i \in Usable(r) : /\ i \in 1 .. Len(Pool) /\ Pool[i] \notin r.escape
                           /\ Pool[i] \in Nat \ {0} /\ Pool[i] \in ToSet(Pool)
  <2>1. Pool \in [1 .. Len(Pool) -> Nat \ {0}] /\ DOMAIN Pool = 1 .. Len(Pool)
    BY PoolAssumption, LenProperties
  <2> QED
    BY <2>1 DEF Usable, ToSet
<1>4. ASSUME NEW k \in 0 .. Cardinality(r.escape), NEW l \in 0 .. Cardinality(r.escape),
             ReplacementByte(r, k) = ReplacementByte(r, l)
      PROVE  k = l
  <2>1. At(k) = At(l)
    BY <1>1, <1>2, <1>3, <1>4, PoolAssumption
  <2> QED
    BY <1>0, <1>1, <2>1
<1> QED
  BY <1>1, <1>2, <1>3, <1>4

\* Every escaped byte has a place of its own in the table.
LEMMA PlaceFacts ==
  ASSUME NEW r, PoolSuffices(r), r.escape # {}
  PROVE  /\ \A b \in Escaped(r) : Place(r, b) \in 0 .. Cardinality(r.escape)
         /\ \A a, b \in Escaped(r) : Place(r, a) = Place(r, b) => a = b
<1> DEFINE e == EscapeByte(r)
<1>1. IsFiniteSet(r.escape) /\ r.escape \subseteq Int /\ Cardinality(r.escape) \in Nat
  BY FS_CardinalityType DEF PoolSuffices
<1>2. Escaped(r) = r.escape \cup {e}
  BY DEF Escaped
<1>3. ASSUME NEW b \in r.escape, b # e
      PROVE  Place(r, b) = Cardinality(UpTo(r.escape, b)) /\ Place(r, b) \in 1 .. Cardinality(r.escape)
  BY <1>1, <1>3, RankRange DEF Place
<1>4. Place(r, e) = 0
  BY DEF Place
<1> HIDE DEF e
<1>5. \A b \in Escaped(r) : Place(r, b) \in 0 .. Cardinality(r.escape)
  BY <1>1, <1>2, <1>3, <1>4
<1>6. ASSUME NEW a \in Escaped(r), NEW b \in Escaped(r), Place(r, a) = Place(r, b)
      PROVE  a = b
  <2>1. CASE a = e \/ b = e
    BY <1>1, <1>2, <1>3, <1>4, <1>6, <2>1
  <2>2. CASE a # e /\ b # e
    BY <1>1, <1>2, <1>3, <1>6, <2>2, RankInjective
  <2> QED
    BY <2>1, <2>2
<1> QED
  BY <1>5, <1>6

\* What both directions of the conversion rely on: no byte that is written is
\* forbidden, the escape byte is escaped itself, and the replacement of a byte
\* leads back to it.
THEOREM EscapeTables ==
  ASSUME NEW r, PoolSuffices(r), r.escape # {}
  PROVE  /\ EscapeByte(r) \in Escaped(r) /\ EscapeByte(r) \notin r.escape
         /\ EscapeByte(r) \in Nat \ {0} /\ EscapeByte(r) \in ToSet(Pool)
         /\ r.escape \subseteq Escaped(r)
         /\ \A b \in Escaped(r) :
              /\ Replacement(r)[b] \notin r.escape
              /\ Replacement(r)[b] \in Nat \ {0}
              /\ Replacement(r)[b] \in ToSet(Pool)
              /\ Unreplace(r, Replacement(r)[b]) = b
<1>0. Cardinality(r.escape) \in Nat
  BY FS_CardinalityType DEF PoolSuffices
<1>1. EscapeByte(r) = ReplacementByte(r, 0)
  BY DEF EscapeByte
<1>2. /\ EscapeByte(r) \notin r.escape
      /\ EscapeByte(r) \in Nat \ {0} /\ EscapeByte(r) \in ToSet(Pool)
  BY <1>0, <1>1, ReplacementByteFacts
<1>3. Escaped(r) = r.escape \cup {EscapeByte(r)}
  BY DEF Escaped
<1>4. ASSUME NEW b \in Escaped(r)
      PROVE  /\ Replacement(r)[b] = ReplacementByte(r, Place(r, b))
             /\ Replacement(r)[b] \notin r.escape
             /\ Replacement(r)[b] \in Nat \ {0}
             /\ Replacement(r)[b] \in ToSet(Pool)
  <2>1. Replacement(r)[b] = ReplacementByte(r, Place(r, b))
    BY DEF Replacement
  <2> QED
    BY <2>1, PlaceFacts, ReplacementByteFacts
<1>5. ASSUME NEW a \in Escaped(r), NEW b \in Escaped(r), Replacement(r)[a] = Replacement(r)[b]
      PROVE  a = b
  BY <1>4, <1>5, PlaceFacts, ReplacementByteFacts
<1>6. ASSUME NEW b \in Escaped(r)
      PROVE  Unreplace(r, Replacement(r)[b]) = b
  BY <1>5 DEF Unreplace
<1> QED
  BY <1>2, <1>3, <1>4, <1>6
-----------------------------------------------------------------------------
(* Offset.                                                                 *)

Flagged(r, text, n) == {j \in 1 .. n : text[j] \in Escaped(r)}

LEMMA FlaggedFinite ==
  ASSUME NEW r, NEW text, NEW n \in Nat
  PROVE  IsFiniteSet(Flagged(r, text, n)) /\ Cardinality(Flagged(r, text, n)) \in Nat
<1>1. Flagged(r, text, n) \in SUBSET (1 .. n) /\ IsFiniteSet(1 .. n)
  BY FS_Interval DEF Flagged
<1> QED
  BY <1>1, FS_Subset, FS_CardinalityType

LEMMA OffsetFlagged ==
  ASSUME NEW r, NEW text, NEW n \in Nat
  PROVE  Offset(r, text, n + 1) = n + Cardinality(Flagged(r, text, n))
<1>1. n + 1 - 1 = n
  OBVIOUS
<1> QED
  BY <1>1 DEF Offset, Flagged

LEMMA OffsetStart ==
  ASSUME NEW r, NEW text
  PROVE  Offset(r, text, 1) = 0
<1>1. Flagged(r, text, 0) = {}
  BY DEF Flagged
<1>2. Offset(r, text, 0 + 1) = 0
  BY <1>1, OffsetFlagged, FS_EmptySet
<1> QED
  BY <1>2

\* A character takes two bytes when it is escaped, else one.
LEMMA OffsetNext ==
  ASSUME NEW r, NEW text, NEW i \in Nat \ {0}
  PROVE  /\ Offset(r, text, i) \in Nat
         /\ text[i] \in Escaped(r) => Offset(r, text, i + 1) = Offset(r, text, i) + 2
         /\ text[i] \notin Escaped(r) => Offset(r, text, i + 1) = Offset(r, text, i) + 1
<1> DEFINE n == i - 1
<1>1. n \in Nat /\ n + 1 = i /\ i + 1 = n + 2
  OBVIOUS
<1>2. Offset(r, text, i) = n + Cardinality(Flagged(r, text, n))
  BY <1>1, OffsetFlagged
<1>3. Offset(r, text, i + 1) = i + Cardinality(Flagged(r, text, i))
  BY OffsetFlagged
<1>4. i \notin Flagged(r, text, n)
  BY DEF Flagged
<1>5. CASE text[i] \in Escaped(r)
  <2>1. Flagged(r, text, i) = Flagged(r, text, n) \cup {i}
    <3>1. \A j : j \in 1 .. i <=> j \in 1 .. n \/ j = i
      OBVIOUS
    <3> HIDE DEF n
    <3> QED
      BY <1>5, <3>1, Zenon DEF Flagged
  <2>2. Cardinality(Flagged(r, text, i)) = Cardinality(Flagged(r, text, n)) + 1
    BY <1>1, <1>4, <2>1, FlaggedFinite, FS_AddElement
  <2> QED
    BY <1>1, <1>2, <1>3, <1>5, <2>2, FlaggedFinite
<1>6. CASE text[i] \notin Escaped(r)
  <2>1. Flagged(r, text, i) = Flagged(r, text, n)
    <3>1. \A j : j \in 1 .. i <=> j \in 1 .. n \/ j = i
      OBVIOUS
    <3> HIDE DEF n
    <3> QED
      BY <1>6, <3>1, Zenon DEF Flagged
  <2> QED
    BY <1>1, <1>2, <1>3, <1>6, <2>1, FlaggedFinite
<1> QED
  BY <1>5, <1>6

\* The characters between two positions take at least a byte each.
LEMMA OffsetGrows ==
  ASSUME NEW r, NEW text, NEW a \in Nat \ {0}, NEW b \in Nat \ {0}, a <= b
  PROVE  Offset(r, text, a) + (b - a) <= Offset(r, text, b)
<1> DEFINE m == a - 1
           n == b - 1
<1>1. m \in Nat /\ n \in Nat /\ m <= n /\ m + 1 = a /\ n + 1 = b /\ n - m = b - a
  OBVIOUS
<1>2. /\ Offset(r, text, a) = m + Cardinality(Flagged(r, text, m))
      /\ Offset(r, text, b) = n + Cardinality(Flagged(r, text, n))
  BY <1>1, OffsetFlagged
<1> HIDE DEF m, n
<1>3. Flagged(r, text, m) \in SUBSET Flagged(r, text, n)
  <2>1. \A j \in 1 .. m : j \in 1 .. n
    BY <1>1
  <2> QED
    BY <2>1, Zenon DEF Flagged
<1>4. Cardinality(Flagged(r, text, m)) <= Cardinality(Flagged(r, text, n))
  BY <1>1, <1>3, FlaggedFinite, FS_Subset
<1> QED
  BY <1>1, <1>2, <1>4, FlaggedFinite

\* A character takes at most two bytes.
LEMMA OffsetBound ==
  ASSUME NEW r, NEW text, NEW n \in Nat
  PROVE  Offset(r, text, n + 1) \in Nat /\ Offset(r, text, n + 1) <= 2 * n
<1>1. Flagged(r, text, n) \in SUBSET (1 .. n) /\ IsFiniteSet(1 .. n) /\ Cardinality(1 .. n) = n
  BY FS_Interval DEF Flagged
<1>2. Cardinality(Flagged(r, text, n)) <= n
  BY <1>1, FS_Subset
<1> QED
  BY <1>2, OffsetFlagged, FlaggedFinite

\* Offset looks only at the characters in front.
LEMMA OffsetSame ==
  ASSUME NEW r, NEW s, NEW t, NEW n \in Nat, \A j \in 1 .. n : s[j] = t[j]
  PROVE  Offset(r, s, n + 1) = Offset(r, t, n + 1)
<1>1. Flagged(r, s, n) = Flagged(r, t, n)
  BY DEF Flagged
<1> QED
  BY <1>1, OffsetFlagged

\* Without escapes in front, the offset is the number of characters.
LEMMA OffsetPlain ==
  ASSUME NEW r, NEW text, NEW n \in Nat, \A j \in 1 .. n : text[j] \notin Escaped(r)
  PROVE  Offset(r, text, n + 1) = n
<1>1. Flagged(r, text, n) = {}
  BY DEF Flagged
<1> QED
  BY <1>1, OffsetFlagged, FS_EmptySet
-----------------------------------------------------------------------------
(* Memory that is escaped or unescaped in place.                           *)

\* m starts with the first k characters of t; from character `from` on, m holds
\* the restricted form of t, up to the n-th.
Prefix(t, m, k) == \A i \in 1 .. k : m[i] = t[i]
Layout(r, t, n, m, from) == \A i \in from .. n : Shows(r, t[i], m, Offset(r, t, i))

LEMMA CodeFacts ==
  ASSUME NEW r, PoolSuffices(r), NEW b \in Escaped(r)
  PROVE  /\ r.escape # {}
         /\ EscapeByte(r) \in ToSet(Pool) /\ EscapeByte(r) \in Nat \ {0}
         /\ Replacement(r)[b] \in ToSet(Pool) /\ Replacement(r)[b] \in Nat \ {0}
         /\ Replacement(r)[b] \notin r.escape /\ EscapeByte(r) \notin r.escape
         /\ Unreplace(r, Replacement(r)[b]) = b
<1>1. r.escape # {}
  BY DEF Escaped
<1> QED
  BY <1>1, EscapeTables

\* A byte that is stored as itself is not taken for the escape byte.
LEMMA PlainFacts ==
  ASSUME NEW r, PoolSuffices(r), r.escape # {}, NEW b, b \notin Escaped(r)
  PROVE  b # EscapeByte(r) /\ b \notin r.escape
BY EscapeTables

\* The bytes of a character lie behind those of the characters before it.
LEMMA OffsetOrder ==
  ASSUME NEW r, NEW t, NEW n \in Nat, NEW i \in 1 .. n
  PROVE  /\ Offset(r, t, i) \in Nat /\ i - 1 <= Offset(r, t, i)
         /\ Offset(r, t, i + 1) \in Nat /\ Offset(r, t, n + 1) \in Nat
         /\ Offset(r, t, i) < Offset(r, t, i + 1)
         /\ Offset(r, t, i + 1) + (n - i) <= Offset(r, t, n + 1)
         /\ t[i] \in Escaped(r) => Offset(r, t, i + 1) = Offset(r, t, i) + 2
         /\ t[i] \notin Escaped(r) => Offset(r, t, i + 1) = Offset(r, t, i) + 1
<1>1. i \in Nat \ {0} /\ i + 1 \in Nat \ {0} /\ n + 1 \in Nat \ {0} /\ 1 \in Nat \ {0}
  OBVIOUS
<1>2. Offset(r, t, 1) = 0
  BY OffsetStart
<1>3. Offset(r, t, 1) + (i - 1) <= Offset(r, t, i)
  BY <1>1, OffsetGrows
<1>4. Offset(r, t, i + 1) + (n + 1 - (i + 1)) <= Offset(r, t, n + 1)
  BY <1>1, OffsetGrows
<1>5. /\ Offset(r, t, i) \in Nat
      /\ Offset(r, t, i + 1) \in Nat /\ Offset(r, t, n + 1) \in Nat
      /\ t[i] \in Escaped(r) => Offset(r, t, i + 1) = Offset(r, t, i) + 2
      /\ t[i] \notin Escaped(r) => Offset(r, t, i + 1) = Offset(r, t, i) + 1
  BY <1>1, OffsetNext
<1> QED
  BY <1>2, <1>3, <1>4, <1>5

\* What is stored from character i on survives a change of the memory in front
\* of it.
LEMMA LayoutKept ==
  ASSUME NEW r, NEW t, NEW n \in Nat, NEW i \in Nat \ {0}, NEW from \in Nat, NEW m, NEW u,
         from <= i, Layout(r, t, n, m, from),
         \A k \in Nat : k > Offset(r, t, i) /\ k <= Offset(r, t, n + 1) => u[k] = m[k]
  PROVE  Layout(r, t, n, u, i)
<1> SUFFICES ASSUME NEW k \in i .. n
             PROVE  Shows(r, t[k], u, Offset(r, t, k))
  BY DEF Layout
<1>1. k \in from .. n /\ k \in 1 .. n /\ k \in Nat \ {0} /\ i <= k
  OBVIOUS
<1>2. Shows(r, t[k], m, Offset(r, t, k))
  BY <1>1 DEF Layout
<1>3. Offset(r, t, i) + (k - i) <= Offset(r, t, k)
  BY <1>1, OffsetGrows
<1>4. Offset(r, t, i) \in Nat
  BY OffsetNext
<1>5. /\ Offset(r, t, k) \in Nat
      /\ Offset(r, t, k + 1) + (n - k) <= Offset(r, t, n + 1)
      /\ Offset(r, t, k + 1) \in Nat /\ Offset(r, t, n + 1) \in Nat
      /\ t[k] \in Escaped(r) => Offset(r, t, k + 1) = Offset(r, t, k) + 2
      /\ t[k] \notin Escaped(r) => Offset(r, t, k + 1) = Offset(r, t, k) + 1
  BY <1>1, OffsetOrder
<1>6. PICK p \in Nat : p = Offset(r, t, k)
  BY <1>5
<1>7. CASE t[k] \in Escaped(r)
  <2>1. u[p + 1] = m[p + 1] /\ u[p + 2] = m[p + 2]
    BY <1>1, <1>3, <1>4, <1>5, <1>6, <1>7
  <2> QED
    BY <1>2, <1>6, <1>7, <2>1 DEF Shows
<1>8. CASE t[k] \notin Escaped(r)
  <2>1. u[p + 1] = m[p + 1]
    BY <1>1, <1>3, <1>4, <1>5, <1>6, <1>8
  <2> QED
    BY <1>2, <1>6, <1>8, <2>1 DEF Shows
<1> QED
  BY <1>7, <1>8

\* One character more in front of what is stored.
LEMMA LayoutGrows ==
  ASSUME NEW r, NEW t, NEW n \in Nat, NEW i \in 1 .. n, NEW m,
         Layout(r, t, n, m, i + 1), Shows(r, t[i], m, Offset(r, t, i))
  PROVE  Layout(r, t, n, m, i)
<1>1. \A k \in i .. n : k = i \/ k \in i + 1 .. n
  OBVIOUS
<1> QED
  BY <1>1 DEF Layout

\* The restricted form of a text stays where it is when the text goes on.
LEMMA LayoutExtends ==
  ASSUME NEW r, NEW t, NEW s, NEW n \in Nat, NEW m, NEW u,
         \A i \in 1 .. n : s[i] = t[i],
         Layout(r, t, n, m, 1),
         \A k \in Nat : k > 0 /\ k <= Offset(r, t, n + 1) => u[k] = m[k]
  PROVE  Layout(r, s, n, u, 1)
<1>1. Layout(r, t, n, u, 1)
  <2>1. 1 \in Nat \ {0} /\ 1 <= 1 /\ Offset(r, t, 1) = 0
    BY OffsetStart
  <2>2. \A k \in Nat : k > Offset(r, t, 1) /\ k <= Offset(r, t, n + 1) => u[k] = m[k]
    BY <2>1
  <2> QED
    BY <2>1, <2>2, LayoutKept
<1> SUFFICES ASSUME NEW i \in 1 .. n PROVE Shows(r, s[i], u, Offset(r, s, i))
  BY DEF Layout
<1>2. PICK j \in Nat : j = i - 1 /\ j + 1 = i
  OBVIOUS
<1>3. \A k \in 1 .. j : k \in 1 .. n
  BY <1>2
<1>4. \A k \in 1 .. j : s[k] = t[k]
  BY <1>3
<1>5. Offset(r, s, i) = Offset(r, t, i)
  BY <1>2, <1>4, OffsetSame
<1> QED
  BY <1>1, <1>5 DEF Layout

-----------------------------------------------------------------------------
(* Numbers. *)

Less == {p \in Nat \X Nat : p[1] < p[2]}

\* Every inhabited set of natural numbers has a least one.
LEMMA LeastNumber ==
  ASSUME NEW S, S \subseteq Nat, S # {}
  PROVE  \E x \in S : \A y \in S : x <= y
<1>1. IsWellFoundedOn(Less, Nat)
  BY NatLessThanWellFounded, Zenon DEF OpToRel, Less
<1>2. PICK x \in S : \A y \in S : ~ (<<y, x>> \in Less)
  BY <1>1, WFMin
<1>3. ASSUME NEW y \in S, y < x PROVE FALSE
  <2>1. <<y, x>> \in Less
    BY <1>3 DEF Less
  <2> QED
    BY <1>2, <2>1
<1> QED
  BY <1>3
-----------------------------------------------------------------------------
(* Powers of two and binary numbers.                                       *)

LEMMA PowerStart == 2 ^ 0 = 1
OBVIOUS

\* A set of n + 1 elements has twice the subsets of one of n.
LEMMA PowerNext ==
  ASSUME NEW n \in Nat
  PROVE  2 ^ n \in Nat /\ 2 ^ (n + 1) = 2 * 2 ^ n
<1> DEFINE S == SUBSET (1 .. n)
           T == {X \cup {n + 1} : X \in S}
           f == [X \in S |-> X \cup {n + 1}]
<1>1. /\ IsFiniteSet(1 .. n) /\ Cardinality(1 .. n) = n
      /\ IsFiniteSet(1 .. n + 1) /\ Cardinality(1 .. n + 1) = n + 1
  BY FS_Interval
<1>2. /\ IsFiniteSet(S) /\ Cardinality(S) = 2 ^ n
      /\ Cardinality(SUBSET (1 .. n + 1)) = 2 ^ (n + 1)
  BY <1>1, FS_SUBSET
<1>3. SUBSET (1 .. n + 1) = S \cup T
  <2>1. ASSUME NEW X \in SUBSET (1 .. n + 1) PROVE X \in S \cup T
    <3>1. CASE n + 1 \in X
      <4>1. X \ {n + 1} \in S
        OBVIOUS
      <4>2. X = (X \ {n + 1}) \cup {n + 1}
        BY <3>1
      <4> QED
        BY <4>1, <4>2
    <3>2. CASE n + 1 \notin X
      <4>1. X \in S
        BY <3>2
      <4> QED
        BY <4>1
    <3> QED
      BY <3>1, <3>2
  <2>2. ASSUME NEW X \in S PROVE X \subseteq 1 .. n + 1 /\ X \cup {n + 1} \subseteq 1 .. n + 1
    OBVIOUS
  <2>3. ASSUME NEW Y \in S \cup T PROVE Y \in SUBSET (1 .. n + 1)
    <3>1. CASE Y \in S
      BY <2>2, <3>1
    <3>2. CASE Y \in T
      BY <2>2, <3>2
    <3> QED
      BY <3>1, <3>2
  <2> HIDE DEF S, T
  <2> QED
    BY <2>1, <2>3
<1>4. S \cap T = {}
  OBVIOUS
<1>5. IsFiniteSet(T) /\ Cardinality(T) = Cardinality(S)
  <2>1. \A X, Y \in S : f[X] = f[Y] => X = Y
    OBVIOUS
  <2>2. f \in [S -> T] /\ \A t \in T : \E X \in S : f[X] = t
    OBVIOUS
  <2>3. f \in Bijection(S, T)
    BY <2>1, <2>2, Fun_IsBij
  <2>4. ExistsBijection(S, T)
    BY <2>3, Fun_ExistsBij
  <2> QED
    BY <1>2, <2>4, FS_Bijection
<1>6. S \in SUBSET (SUBSET Nat) /\ Cardinality(S) \in Nat
  BY <1>2, FS_CardinalityType
<1> HIDE DEF S, T, f
<1>7. Cardinality(S \cup T) = Cardinality(S) + Cardinality(T) - Cardinality(S \cap T)
  BY <1>2, <1>5, FS_Union
<1>8. Cardinality(S \cap T) = 0
  BY <1>4, FS_EmptySet
<1>9. Cardinality(S \cup T) = 2 ^ (n + 1)
  BY <1>2, <1>3
<1>10. Cardinality(S \cup T) = 2 * Cardinality(S)
  BY <1>5, <1>6, <1>7, <1>8
<1> QED
  BY <1>2, <1>6, <1>9, <1>10

LEMMA Quotient ==
  ASSUME NEW a \in Nat, NEW d \in Nat \ {0}, NEW q \in Nat, NEW r \in Nat,
         r < d, a = q * d + r
  PROVE  a \div d = q
<1> DEFINE p == a \div d
           m == a % d
<1>1. p \in Nat /\ m \in Nat /\ m < d /\ a = p * d + m
  OBVIOUS
<1> HIDE DEF p, m
<1>2. (q - p) * d = m - r
  BY <1>1
<1>3. CASE q > p
  <2>1. PICK k \in Nat : q - p = k + 1
    BY <1>1, <1>3
  <2>2. (q - p) * d = k * d + d /\ k * d \in Nat
    BY <2>1
  <2> QED
    BY <1>1, <1>2, <2>2
<1>4. CASE q < p
  <2>1. PICK k \in Nat : p - q = k + 1
    BY <1>1, <1>4
  <2>2. (p - q) * d = k * d + d /\ k * d \in Nat
    BY <2>1
  <2>3. (p - q) * d = r - m
    BY <1>1
  <2> QED
    BY <1>1, <2>2, <2>3
<1> QED
  BY <1>1, <1>3, <1>4 DEF p

\* The next bit of a number that is read from its upper end.
LEMMA Halving ==
  ASSUME NEW v \in Nat, NEW p \in Nat \ {0}
  PROVE  v \div p = 2 * (v \div (2 * p)) + ((v \div p) % 2)
<1> DEFINE q == v \div p
           r == v % p
           h == q \div 2
           b == q % 2
<1>1. q \in Nat /\ r \in Nat /\ r < p /\ v = q * p + r
  OBVIOUS
<1> HIDE DEF r, q
<1>2. h \in Nat /\ b \in {0, 1} /\ q = 2 * h + b
  BY <1>1
<1> HIDE DEF h
<1>3. b * p + r \in Nat /\ b * p + r < 2 * p
  <2>1. CASE b = 0
    BY <1>1, <2>1
  <2>2. CASE b = 1
    BY <1>1, <2>2
  <2> QED
    BY <1>2, <2>1, <2>2
<1> HIDE DEF b
<1>4. v = h * (2 * p) + (b * p + r)
  <2>1. q * p = (2 * h + b) * p
    BY <1>2
  <2>2. (2 * h + b) * p = h * (2 * p) + b * p
    BY <1>2
  <2> QED
    BY <1>1, <1>2, <2>1, <2>2
<1>5. v \div (2 * p) = h
  <2>1. 2 * p \in Nat \ {0}
    OBVIOUS
  <2> DEFINE d == 2 * p
             s == b * p + r
  <2>2. s \in Nat /\ s < d /\ v = h * d + s /\ d \in Nat \ {0}
    BY <1>3, <1>4, <2>1
  <2> HIDE DEF d, s
  <2>3. v \div d = h
    BY <1>2, <2>2, Quotient
  <2> QED
    BY <2>3 DEF d
<1>6. v \div p = q /\ q % 2 = b
  BY DEF q, b
<1>7. (v \div p) % 2 = b
  BY <1>6, Zenon
<1>8. q = 2 * (v \div (2 * p)) + b
  BY <1>2, <1>5, Zenon
<1>9. v \div p = 2 * (v \div (2 * p)) + b
  BY <1>6, <1>8, Zenon
<1> QED
  BY <1>7, <1>9, Zenon

LEMMA PowerPositive ==
  ASSUME NEW n \in Nat
  PROVE  2 ^ n \in Nat \ {0}
<1> DEFINE S == {k \in Nat : 2 ^ k = 0}
<1> SUFFICES ASSUME S # {} PROVE FALSE
  BY PowerNext
<1>1. PICK k \in S : \A m \in S : k <= m
  <2>1. S \subseteq Nat
    OBVIOUS
  <2> HIDE DEF S
  <2> QED
    BY <2>1, LeastNumber
<1>2. CASE k = 0
  <2>1. 2 ^ k = 2 ^ 0
    BY <1>2
  <2> QED
    BY <1>1, <2>1, PowerStart
<1>3. CASE k # 0
  <2>1. k - 1 \in Nat /\ k = (k - 1) + 1 /\ k - 1 \notin S
    BY <1>1, <1>3
  <2>2. 2 ^ k = 2 * 2 ^ (k - 1) /\ 2 ^ (k - 1) \in Nat
    BY <2>1, PowerNext
  <2> QED
    BY <1>1, <2>1, <2>2
<1> QED
  BY <1>2, <1>3

\* Powers of two grow.
LEMMA PowerMonotone ==
  ASSUME NEW m \in Nat, NEW n \in Nat, m <= n
  PROVE  2 ^ m <= 2 ^ n
<1> DEFINE S == {k \in Nat : m <= k /\ ~ (2 ^ m <= 2 ^ k)}
<1> SUFFICES ASSUME S # {} PROVE FALSE
  OBVIOUS
<1>1. PICK k \in S : \A j \in S : k <= j
  <2>1. S \subseteq Nat
    OBVIOUS
  <2> HIDE DEF S
  <2> QED
    BY <2>1, LeastNumber
<1>2. 2 ^ m \in Nat
  BY PowerNext
<1>3. k \in Nat /\ m <= k /\ ~ (2 ^ m <= 2 ^ k)
  OBVIOUS
<1>4. k # m
  <2> SUFFICES ASSUME k = m PROVE FALSE
    OBVIOUS
  <2>1. 2 ^ k = 2 ^ m
    OBVIOUS
  <2> QED
    BY <1>2, <1>3, <2>1
<1> DEFINE j == k - 1
<1>5. j \in Nat /\ m <= j /\ k = j + 1 /\ ~ (k <= j)
  BY <1>3, <1>4
<1> HIDE DEF j
<1>6. 2 ^ j \in Nat /\ 2 ^ (j + 1) = 2 * 2 ^ j
  BY <1>5, PowerNext
<1>7. j \in S
  <2>1. 2 ^ k = 2 * 2 ^ j
    BY <1>5, <1>6
  <2>2. ~ (2 ^ m <= 2 ^ j)
    BY <1>2, <1>3, <1>6, <2>1
  <2> QED
    BY <1>5, <2>2
<1> HIDE DEF S
<1> QED
  BY <1>1, <1>5, <1>7

LEMMA PowerSum ==
  ASSUME NEW m \in Nat, NEW n \in Nat
  PROVE  2 ^ (m + n) = 2 ^ m * 2 ^ n
<1> DEFINE S == {k \in Nat : 2 ^ (m + k) # 2 ^ m * 2 ^ k}
<1> SUFFICES ASSUME S # {} PROVE FALSE
  OBVIOUS
<1>1. PICK k \in S : \A j \in S : k <= j
  <2>1. S \subseteq Nat
    OBVIOUS
  <2> HIDE DEF S
  <2> QED
    BY <2>1, LeastNumber
<1>2. k \in Nat /\ 2 ^ (m + k) # 2 ^ m * 2 ^ k
  OBVIOUS
<1>3. 2 ^ m \in Nat
  BY PowerNext
<1>4. k # 0
  <2> SUFFICES ASSUME k = 0 PROVE FALSE
    OBVIOUS
  <2>1. 2 ^ (m + k) = 2 ^ m /\ 2 ^ k = 2 ^ 0
    OBVIOUS
  <2> QED
    BY <1>2, <1>3, <2>1, PowerStart
<1> DEFINE j == k - 1
<1>5. j \in Nat /\ k = j + 1 /\ m + k = (m + j) + 1 /\ m + j \in Nat /\ ~ (k <= j)
  BY <1>2, <1>4
<1>6. j \notin S
  <2> HIDE DEF S, j
  <2> QED
    BY <1>1, <1>5
<1>7. 2 ^ (m + j) = 2 ^ m * 2 ^ j
  BY <1>5, <1>6
<1> HIDE DEF j, S
<1>8. 2 ^ j \in Nat /\ 2 ^ k = 2 * 2 ^ j
  BY <1>5, PowerNext
<1>9. 2 ^ (m + k) = 2 * 2 ^ (m + j)
  BY <1>5, PowerNext
<1> DEFINE x == 2 ^ m
           y == 2 ^ j
           z == 2 ^ k
<1>10. x \in Nat /\ y \in Nat /\ z = 2 * y /\ 2 ^ (m + k) = 2 * (x * y) /\ 2 ^ (m + k) # x * z
  BY <1>2, <1>3, <1>7, <1>8, <1>9
<1> HIDE DEF x, y, z
<1> QED
  BY <1>10

\* bits_for counts the digits of its argument.
LEMMA BitsForFacts ==
  ASSUME NEW max \in Nat, max < 2 ^ 64
  PROVE  /\ BitsFor(max) \in 1 .. 64 /\ max < 2 ^ BitsFor(max)
         /\ max # 0 => 2 ^ (BitsFor(max) - 1) <= max
<1>1. CASE max = 0
  <2>1. BitsFor(max) = 1
    BY <1>1 DEF BitsFor
  <2>2. 2 ^ BitsFor(max) = 2 ^ 1
    BY <2>1
  <2>3. 2 ^ 1 = 2
    OBVIOUS
  <2> QED
    BY <1>1, <2>1, <2>2, <2>3
<1>2. CASE max # 0
  <2> DEFINE S == {n \in Nat : max < 2 ^ n}
  <2>1. 64 \in S
    OBVIOUS
  <2>2. PICK n \in S : \A m \in S : n <= m
    <3> HIDE DEF S
    <3>1. S \subseteq Nat
      BY DEF S
    <3> QED
      BY <2>1, <3>1, LeastNumber
  <2>3. n \in 1 .. 64
    <3>0. n \in Nat /\ n <= 64
      BY <2>1, <2>2
    <3>1. ASSUME n = 0 PROVE FALSE
      <4>1. 2 ^ n = 2 ^ 0 /\ max < 2 ^ n
        BY <2>2, <3>1
      <4> QED
        BY <1>2, <4>1, PowerStart
    <3> QED
      BY <3>0, <3>1
  <2>4. 2 ^ (n - 1) <= max
    <3>1. n - 1 \in Nat /\ n - 1 \notin S
      BY <2>2, <2>3
    <3>2. 2 ^ (n - 1) \in Nat
      BY <3>1, PowerNext
    <3> QED
      BY <3>1, <3>2
  <2>5. \E k \in 1 .. 64 : 2 ^ (k - 1) <= max /\ max < 2 ^ k
    BY <2>2, <2>3, <2>4
  <2> QED
    BY <1>2, <2>5 DEF BitsFor
<1> QED
  BY <1>1, <1>2

\* Twice a multiple of p more or less does not change the digit at p.
LEMMA SameDigit ==
  ASSUME NEW v \in Nat, NEW p \in Nat \ {0}, NEW q \in Nat
  PROVE  ((v - 2 * q * p) \div p) % 2 = (v \div p) % 2
<1> DEFINE h == v \div p
           r == v % p
           a == v - 2 * q * p
           g == a \div p
           m == a % p
<1>1. h \in Nat /\ r \in Nat /\ r < p /\ v = h * p + r
  OBVIOUS
<1>2. a \in Int
  OBVIOUS
<1> HIDE DEF h, r
<1>3. a = (h - 2 * q) * p + r
  BY <1>1
<1> HIDE DEF a
<1>4. g \in Int /\ m \in Nat /\ m < p /\ a = g * p + m
  BY <1>2
<1> HIDE DEF g, m
<1> DEFINE f == h - 2 * q
<1>5. f \in Int /\ a = f * p + r
  BY <1>1, <1>3
<1> HIDE DEF f
<1>6. (g - f) * p = r - m
  BY <1>1, <1>4, <1>5
<1>7. ~ (g - f >= 1)
  <2> SUFFICES ASSUME g - f >= 1 PROVE FALSE
    OBVIOUS
  <2>1. (g - f) * p >= p
    BY <1>4, <1>5
  <2> QED
    BY <1>1, <1>4, <1>6, <2>1
<1>8. ~ (f - g >= 1)
  <2> SUFFICES ASSUME f - g >= 1 PROVE FALSE
    OBVIOUS
  <2>1. (f - g) * p >= p
    BY <1>4, <1>5
  <2>2. (f - g) * p = m - r
    BY <1>1, <1>4, <1>5
  <2> QED
    BY <1>1, <1>4, <2>1, <2>2
<1>9. g = f
  BY <1>4, <1>5, <1>7, <1>8
<1>10. g % 2 = h % 2
  BY <1>1, <1>9 DEF f
<1> QED
  BY <1>10 DEF g, h, a

\* A number below 0 is written as its bits in two's complement say.
LEMMA TwosComplement ==
  ASSUME NEW w \in Nat \ {0}, 2 ^ w <= 2 ^ 64, NEW v \in 0 .. 2 ^ w - 1
  PROVE  Encoded(TRUE, v - 2 ^ w, 2 ^ w - 1) = Encoded(TRUE, v, 2 ^ w - 1)
<1> DEFINE s == 2 ^ w
           k == s - 1
           b == BitsFor(k)
           u == w - 1
<1>1. u \in Nat /\ w = u + 1
  OBVIOUS
<1>2. 2 ^ u \in Nat \ {0} /\ s = 2 * 2 ^ u
  <2> HIDE DEF u
  <2> QED
    BY <1>1, PowerPositive, PowerNext
<1>3. s \in Nat /\ k \in Nat /\ k # 0 /\ k < s /\ v \in Nat
  <2> HIDE DEF s, u
  <2>1. s \in Nat /\ s >= 2
    BY <1>2
  <2> QED
    BY <2>1 DEF s
<1>4. b \in 1 .. 64 /\ 2 ^ (b - 1) <= k
  <2>1. k < 2 ^ 64
    <3> DEFINE t == 2 ^ 64
    <3>1. t \in Nat /\ s <= t
      BY PowerNext
    <3> HIDE DEF t, s
    <3>2. k < t
      BY <1>3, <3>1
    <3> QED
      BY <3>2 DEF t
  <2> HIDE DEF k
  <2> QED
    BY <1>3, <2>1, BitsForFacts
<1>5. b <= w
  <2> SUFFICES ASSUME w <= b - 1 PROVE FALSE
    BY <1>4
  <2> DEFINE c == b - 1
  <2>1. c \in Nat /\ w \in Nat /\ w <= c
    BY <1>4
  <2> HIDE DEF b
  <2>2. 2 ^ w <= 2 ^ c /\ 2 ^ c \in Nat
    <3> HIDE DEF c
    <3> QED
      BY <2>1, PowerMonotone, PowerNext
  <2>3. 2 ^ c <= k
    BY <1>4
  <2> HIDE DEF c, k
  <2>4. s <= 2 ^ c
    BY <2>2
  <2> HIDE DEF s
  <2> QED
    BY <1>3, <2>2, <2>3, <2>4
<1> HIDE DEF b
<1>6. ASSUME NEW i \in 1 .. b
      PROVE  ((v - s) \div 2 ^ (b - i)) % 2 = (v \div 2 ^ (b - i)) % 2
  <2> DEFINE n == b - i
             o == u - n
  <2>1. n \in Nat /\ o \in Nat /\ u = o + n
    BY <1>1, <1>4, <1>5
  <2> HIDE DEF n, o, u
  <2>2. 2 ^ n \in Nat \ {0} /\ 2 ^ o \in Nat /\ 2 ^ u = 2 ^ o * 2 ^ n
    BY <2>1, PowerPositive, PowerNext, PowerSum
  <2> DEFINE p == 2 ^ n
             q == 2 ^ o
             t == 2 ^ u
  <2>3. p \in Nat \ {0} /\ q \in Nat /\ t = q * p /\ s = 2 * t
    BY <1>2, <2>2
  <2> HIDE DEF p, q, t, s
  <2>4. s = 2 * q * p
    BY <2>3
  <2>5. ((v - s) \div p) % 2 = (v \div p) % 2
    <3>1. v \in Nat /\ p \in Nat \ {0} /\ q \in Nat
      BY <1>3, <2>3
    <3>2. ((v - 2 * q * p) \div p) % 2 = (v \div p) % 2
      BY <3>1, SameDigit, Zenon
    <3> QED
      BY <2>4, <3>2, Zenon
  <2> QED
    BY <2>5 DEF p, n
<1> HIDE DEF s, k
<1>7. [i \in 1 .. b |-> ((v - s) \div 2 ^ (b - i)) % 2] = [i \in 1 .. b |-> (v \div 2 ^ (b - i)) % 2]
  BY <1>6
<1>8. Encoded(TRUE, v - s, k) = Encoded(TRUE, v, k)
  BY <1>7 DEF Encoded, b
<1> QED
  BY <1>8 DEF s, k

LEMMA LengthOf ==
  ASSUME NEW s, NEW n \in Nat, DOMAIN s = 1 .. n
  PROVE  Len(s) = n
OBVIOUS

LEMMA SmallQuotient ==
  ASSUME NEW a \in Nat, NEW d \in Nat \ {0}, a < d
  PROVE  a \div d = 0
OBVIOUS

\* The digits of a number below 2 ^ b, and what they add up to.
Upper(v, b, n) == v \div 2 ^ (b - n)
Digit(v, b, n) == Upper(v, b, n) % 2

\* Digit after digit the value of a number is approached from the left.
LEMMA Digits ==
  ASSUME NEW b \in Nat, NEW v \in Nat, v < 2 ^ b
  PROVE  /\ Upper(v, b, 0) = 0 /\ Upper(v, b, b) = v
         /\ \A n \in 1 .. b : Upper(v, b, n) = 2 * Upper(v, b, n - 1) + Digit(v, b, n)
<1>1. Upper(v, b, 0) = 0
  <2>1. 2 ^ b \in Nat \ {0} /\ b - 0 = b
    BY PowerPositive
  <2>2. v \div 2 ^ b = 0
    BY <2>1, SmallQuotient
  <2> QED
    BY <2>1, <2>2, Zenon DEF Upper
<1>2. Upper(v, b, b) = v
  <2>1. b - b = 0 /\ v \div 1 = v
    OBVIOUS
  <2> QED
    BY <2>1, PowerStart, Zenon DEF Upper
<1>3. ASSUME NEW n \in 1 .. b
      PROVE  Upper(v, b, n) = 2 * Upper(v, b, n - 1) + Digit(v, b, n)
  <2> DEFINE k == b - n
             p == 2 ^ k
  <2>1. k \in Nat /\ b - (n - 1) = k + 1
    OBVIOUS
  <2> HIDE DEF k
  <2>2. p \in Nat \ {0} /\ 2 ^ (k + 1) = 2 * p
    BY <2>1, PowerPositive, PowerNext
  <2>3. Upper(v, b, n - 1) = v \div (2 * p)
    BY <2>1, <2>2, Zenon DEF Upper
  <2>4. Upper(v, b, n) = v \div p
    BY Zenon DEF Upper, k
  <2> HIDE DEF p
  <2>5. Digit(v, b, n) = (v \div p) % 2
    BY <2>4, Zenon DEF Digit
  <2>6. v \div p = 2 * (v \div (2 * p)) + ((v \div p) % 2)
    BY <2>2, Halving
  <2> QED
    BY <2>3, <2>4, <2>5, <2>6, Zenon
<1> QED
  BY <1>1, <1>2, <1>3

\* The numbers up to max fit in a word of the machine if they are written in binary.
Fits(binary, max) == binary => max < 2 ^ 64

\* u stands in s behind position at.
Stands(u, s, at) == at + Len(u) <= Len(s) /\ \A i \in 1 .. Len(u) : s[at + i] = u[i]

\* What a coder wrote is read back when both sides agree on the range.
LEMMA ReadBack ==
  ASSUME NEW binary \in BOOLEAN, NEW max \in Nat, Fits(binary, max),
         NEW v \in 0 .. max, NEW s, NEW at \in Nat, Len(s) \in Nat,
         Stands(Encoded(binary, v, max), s, at)
  PROVE  Decoded(binary, s, at, max) =
           [v |-> v, next |-> at + Len(Encoded(binary, v, max))]
<1>1. CASE ~binary
  <2>1. Encoded(binary, v, max) = <<v>> /\ Len(<<v>>) = 1 /\ <<v>>[1] = v
    BY <1>1 DEF Encoded
  <2>2. s[at + 1] = v
    BY <2>1 DEF Stands
  <2> QED
    BY <1>1, <2>1, <2>2 DEF Decoded
<1>2. CASE binary
  <2> DEFINE b == BitsFor(max)
             bits == [i \in 1 .. b |-> Digit(v, b, i)]
             Bit(i) == IF i <= Len(s) THEN s[i] ELSE 0
             V == CHOOSE f : f = [n \in 0 .. b |->
                                    IF n = 0 THEN 0 ELSE 2 * f[n - 1] + Bit(at + n)]
             W == [n \in 0 .. b |-> Upper(v, b, n)]
  <2>1. b \in 1 .. 64 /\ max < 2 ^ b /\ 2 ^ b \in Nat
    <3>1. b \in 1 .. 64 /\ max < 2 ^ b
      BY <1>2, BitsForFacts DEF Fits
    <3> HIDE DEF b
    <3> QED
      BY <3>1, PowerNext
  <2>2. Encoded(binary, v, max) = bits /\ Len(bits) = b
    <3>1. Encoded(binary, v, max) = bits
      BY <1>2, Zenon DEF Encoded, Digit, Upper
    <3>2. DOMAIN bits = 1 .. b
      OBVIOUS
    <3> HIDE DEF bits, b
    <3>3. b \in Nat
      BY <2>1
    <3>4. Len(bits) = b
      BY <3>2, <3>3, LengthOf
    <3> QED
      BY <3>1, <3>4
  <2> HIDE DEF b
  <2>3. at + b <= Len(s) /\ \A i \in 1 .. b : s[at + i] = Digit(v, b, i)
    BY <2>2 DEF Stands
  <2>4. \A i \in 1 .. b : Bit(at + i) = Digit(v, b, i)
    BY <2>1, <2>3
  <2> HIDE DEF Bit
  <2>5. /\ Upper(v, b, 0) = 0 /\ Upper(v, b, b) = v
        /\ \A n \in 1 .. b : Upper(v, b, n) = 2 * Upper(v, b, n - 1) + Digit(v, b, n)
    BY <2>1, Digits
  <2>6. W = [n \in 0 .. b |-> IF n = 0 THEN 0 ELSE 2 * W[n - 1] + Bit(at + n)]
    <3>1. ASSUME NEW n \in 0 .. b
          PROVE  W[n] = IF n = 0 THEN 0 ELSE 2 * W[n - 1] + Bit(at + n)
      <4>1. CASE n = 0
        BY <2>5, <4>1
      <4>2. CASE n # 0
        <5>1. n \in 1 .. b /\ n - 1 \in 0 .. b
          BY <2>1, <4>2
        <5> QED
          BY <2>4, <2>5, <4>2, <5>1
      <4> QED
        BY <4>1, <4>2
    <3> QED
      BY <3>1
  <2>7. V = [n \in 0 .. b |-> IF n = 0 THEN 0 ELSE 2 * V[n - 1] + Bit(at + n)]
    BY <2>6
  <2> HIDE DEF V
  <2>8. W[b] = v
    BY <2>1, <2>5
  <2> HIDE DEF W
  <2>9. \A n \in 0 .. b : V[n] = W[n]
    <3> DEFINE S == {n \in 0 .. b : V[n] # W[n]}
    <3> SUFFICES ASSUME S # {} PROVE FALSE
      OBVIOUS
    <3>1. S \subseteq Nat
      BY <2>1
    <3>2. PICK n \in S : \A m \in S : n <= m
      <4> HIDE DEF S
      <4> QED
        BY <3>1, LeastNumber
    <3>3. n \in 0 .. b /\ V[n] # W[n]
      BY <3>2
    <3>4. n # 0
      BY <2>6, <2>7, <3>3
    <3>5. n - 1 \in 0 .. b
      BY <2>1, <3>3, <3>4
    <3>6. n - 1 \notin S
      <4> HIDE DEF S
      <4> QED
        BY <2>1, <3>2, <3>3
    <3> QED
      BY <2>6, <2>7, <3>3, <3>4, <3>5, <3>6
  <2>10. V[b] = v
    BY <2>1, <2>8, <2>9
  <2>11. Decoded(binary, s, at, max) =
           [v |-> V[b], next |-> IF at + b <= Len(s) THEN at + b ELSE Len(s)]
    BY <1>2 DEF Decoded, b, Bit, V
  <2> QED
    BY <2>2, <2>3, <2>10, <2>11
<1> QED
  BY <1>1, <1>2

LEMMA EncodedFacts ==
  ASSUME NEW binary \in BOOLEAN, NEW max \in Nat, Fits(binary, max),
         NEW v \in 0 .. max
  PROVE  Encoded(binary, v, max) \in Seq(Nat) /\ Len(Encoded(binary, v, max)) \in Nat \ {0}
<1>1. CASE ~binary
  <2>1. Encoded(binary, v, max) = <<v>>
    BY <1>1 DEF Encoded
  <2> QED
    BY <2>1
<1>2. CASE binary
  <2> DEFINE b == BitsFor(max)
             bits == [i \in 1 .. b |-> Digit(v, b, i)]
  <2>1. Encoded(binary, v, max) = bits
    BY <1>2, Zenon DEF Encoded, Digit, Upper
  <2>2. b \in Nat \ {0} /\ 2 ^ b \in Nat
    <3>1. b \in 1 .. 64
      BY <1>2, BitsForFacts DEF Fits
    <3> HIDE DEF b
    <3> QED
      BY <3>1, PowerNext
  <2> HIDE DEF b
  <2>3. ASSUME NEW i \in 1 .. b
        PROVE  Digit(v, b, i) \in Nat
    <3>1. b - i \in Nat
      BY <2>2
    <3>2. 2 ^ (b - i) \in Nat \ {0}
      BY <3>1, PowerPositive
    <3> DEFINE p == 2 ^ (b - i)
    <3>3. Digit(v, b, i) = (v \div p) % 2
      BY Zenon DEF Digit, Upper
    <3> HIDE DEF p
    <3>4. p \in Nat \ {0}
      BY <3>2 DEF p
    <3>5. v \div p \in Nat
      BY <3>4
    <3> QED
      BY <3>3, <3>5
  <2>4. bits \in [1 .. b -> Nat]
    BY <2>3
  <2> HIDE DEF bits
  <2>5. bits \in Seq(Nat) /\ Len(bits) = b
    BY <2>2, <2>4, LengthOf, SeqDef
  <2> QED
    BY <2>1, <2>2, <2>5
<1> QED
  BY <1>1, <1>2
-----------------------------------------------------------------------------
(* Sequences.                                                              *)

LEMMA LengthAppend ==
  ASSUME NEW S, NEW s \in Seq(S), NEW c \in S
  PROVE  /\ Append(s, c) \in Seq(S) /\ Len(Append(s, c)) = Len(s) + 1 /\ Len(s) \in Nat
         /\ Append(s, c)[Len(s) + 1] = c /\ \A i \in 1 .. Len(s) : Append(s, c)[i] = s[i]
BY AppendProperties, LenProperties

\* A phrase is the same in a longer text.
LEMMA SpanKept ==
  ASSUME NEW S, NEW s \in Seq(S), NEW c \in S, NEW x \in Nat, NEW y \in 0 .. Len(s)
  PROVE  SubSeq(Append(s, c), x + 1, y) = SubSeq(s, x + 1, y)
<1>1. Len(s) \in Nat /\ \A i \in 1 .. Len(s) : s[i] \in S /\ Append(s, c)[i] = s[i]
  BY LenProperties, AppendProperties
<1>2. \A i \in x + 1 .. y : i \in 1 .. Len(s)
  BY <1>1
<1>3. \A i \in x + 1 .. y : s[i] \in S /\ Append(s, c)[i] \in S
  BY <1>1, <1>2
<1> DEFINE t == SubSeq(Append(s, c), x + 1, y)
           u == SubSeq(s, x + 1, y)
<1>4. /\ x + 1 \in Int /\ y \in Int
      /\ Len(u) = IF x + 1 <= y THEN y - (x + 1) + 1 ELSE 0
      /\ u \in Seq(S) /\ \A i \in 1 .. y - (x + 1) + 1 : u[i] = s[x + 1 + i - 1]
  BY <1>1, <1>3, SubSeqProperties
<1>5. /\ Len(t) = IF x + 1 <= y THEN y - (x + 1) + 1 ELSE 0
      /\ t \in Seq(S) /\ \A i \in 1 .. y - (x + 1) + 1 : t[i] = Append(s, c)[x + 1 + i - 1]
  BY <1>3, <1>4, SubSeqProperties
<1> HIDE DEF t, u
<1>6. Len(t) = Len(u) /\ \A i \in 1 .. Len(t) : t[i] = u[i]
  <2> SUFFICES ASSUME NEW i \in 1 .. Len(t) PROVE t[i] = u[i]
    BY <1>4, <1>5
  <2>1. i \in 1 .. y - (x + 1) + 1 /\ x + 1 + i - 1 \in 1 .. Len(s)
    BY <1>1, <1>5
  <2> QED
    BY <1>1, <1>4, <1>5, <2>1
<1>7. t = u
  BY <1>4, <1>5, <1>6, SeqEqual
<1> QED
  BY <1>7 DEF t, u

\* The phrase at the end of a text grows with it.
LEMMA SpanGrows ==
  ASSUME NEW S, NEW s \in Seq(S), NEW c \in S, NEW x \in 0 .. Len(s)
  PROVE  SubSeq(Append(s, c), x + 1, Len(s) + 1) = Append(SubSeq(s, x + 1, Len(s)), c)
<1>1. /\ Len(s) \in Nat /\ Append(s, c) \in Seq(S) /\ Len(Append(s, c)) = Len(s) + 1
      /\ Append(s, c)[Len(s) + 1] = c /\ \A i \in 1 .. Len(s) : s[i] \in S
  BY LenProperties, AppendProperties
<1>2. x + 1 \in 1 .. Len(Append(s, c)) /\ Len(s) + 1 \in x + 1 .. Len(Append(s, c))
  BY <1>1
<1>3. SubSeq(Append(s, c), x + 1, Len(s) + 1)
        = SubSeq(Append(s, c), x + 1, (Len(s) + 1) - 1) \o <<Append(s, c)[Len(s) + 1]>>
  <2> DEFINE t == Append(s, c)
             m == x + 1
             n == Len(s) + 1
  <2>1. t \in Seq(S) /\ m \in 1 .. Len(t) /\ n \in m .. Len(t)
    BY <1>1, <1>2
  <2> HIDE DEF t, m, n
  <2>2. SubSeq(t, m, n) = SubSeq(t, m, n - 1) \o <<t[n]>>
    BY <2>1, SubSeqRecursiveSecond
  <2> QED
    BY <2>2, Zenon DEF t, m, n
<1>4. SubSeq(Append(s, c), x + 1, Len(s)) = SubSeq(s, x + 1, Len(s))
  BY <1>1, SpanKept
<1>5. SubSeq(s, x + 1, Len(s)) \in Seq(S)
  <2>1. \A i \in x + 1 .. Len(s) : s[i] \in S
    BY <1>1
  <2> QED
    BY <1>1, <2>1, SubSeqProperties
<1>6. Append(SubSeq(s, x + 1, Len(s)), c) = SubSeq(s, x + 1, Len(s)) \o <<c>>
  BY <1>5, AppendIsConcat
<1>7. (Len(s) + 1) - 1 = Len(s)
  BY <1>1
<1> QED
  BY <1>1, <1>3, <1>4, <1>6, <1>7

-----------------------------------------------------------------------------
(* Words on the wire, one after the other.                                 *)

\* b with one more boundary.
Longer(b, n, x) == [k \in 0 .. n + 1 |-> IF k = n + 1 THEN x ELSE b[k]]

\* w is the first n of the words W; the i-th ends at at[i].
Framed(n, W, w, at) ==
  /\ at \in [0 .. n -> 0 .. Len(w)] /\ at[0] = 0 /\ at[n] = Len(w)
  /\ \A i \in 1 .. n :
       Len(W[i]) \in Nat /\ at[i] = at[i - 1] + Len(W[i]) /\ Stands(W[i], w, at[i - 1])

\* The words V are the first n of W and another one.
Extends(V, W, n, u) == V[n + 1] = u /\ \A i \in 1 .. n : V[i] = W[i]

\* Another word is written.
LEMMA FramedGrows ==
  ASSUME NEW S, NEW n \in Nat, NEW w \in Seq(S), NEW at, NEW W, Framed(n, W, w, at),
         NEW V, NEW u \in Seq(S), Extends(V, W, n, u)
  PROVE  LET A == Longer(at, n, Len(w) + Len(u))
         IN  Framed(n + 1, V, w \o u, A) /\ \A k \in 0 .. n : A[k] = at[k]
<1> DEFINE A == Longer(at, n, Len(w) + Len(u))
           v == w \o u
<1>2. /\ at \in [0 .. n -> 0 .. Len(w)] /\ at[0] = 0 /\ at[n] = Len(w)
      /\ \A i \in 1 .. n :
           Len(W[i]) \in Nat /\ at[i] = at[i - 1] + Len(W[i]) /\ Stands(W[i], w, at[i - 1])
  BY DEF Framed
<1>4. /\ Len(w) \in Nat /\ Len(u) \in Nat /\ Len(v) = Len(w) + Len(u)
      /\ \A j \in 1 .. Len(w) + Len(u) : v[j] = IF j <= Len(w) THEN w[j] ELSE u[j - Len(w)]
  BY ConcatProperties, LenProperties
<1> HIDE DEF v
<1>5. /\ A \in [0 .. n + 1 -> 0 .. Len(v)] /\ A[n + 1] = Len(v)
      /\ \A k \in 0 .. n : A[k] = at[k]
  BY <1>2, <1>4 DEF Longer
<1> HIDE DEF A
<1>6. ASSUME NEW i \in 1 .. n + 1
      PROVE  Len(V[i]) \in Nat /\ A[i] = A[i - 1] + Len(V[i]) /\ Stands(V[i], v, A[i - 1])
  <2> USE DEF Extends
  <2>1. CASE i = n + 1
    <3>1. i - 1 = n /\ n \in 0 .. n
      BY <2>1
    <3>2. A[i - 1] = Len(w) /\ A[i] = Len(w) + Len(u) /\ V[i] = u
      BY <1>2, <1>4, <1>5, <2>1, <3>1
    <3>3. ASSUME NEW j \in 1 .. Len(u) PROVE v[Len(w) + j] = u[j]
      <4>1. /\ Len(w) + j \in 1 .. Len(w) + Len(u) /\ ~ (Len(w) + j <= Len(w))
            /\ Len(w) + j - Len(w) = j
        BY <1>4
      <4> QED
        BY <1>4, <4>1
    <3>4. Stands(u, v, Len(w))
      BY <1>4, <3>3 DEF Stands
    <3> QED
      BY <3>2, <3>4
  <2>2. CASE i # n + 1
    <3>1. i \in 1 .. n /\ i - 1 \in 0 .. n /\ i \in 0 .. n
      BY <2>2
    <3>2. A[i] = at[i] /\ A[i - 1] = at[i - 1] /\ V[i] = W[i]
      BY <1>5, <3>1
    <3> DEFINE z == W[i]
    <3>3. Len(z) \in Nat /\ at[i] = at[i - 1] + Len(z) /\ Stands(z, w, at[i - 1])
      BY <1>2, <3>1
    <3>4. at[i] \in 0 .. Len(w) /\ at[i - 1] \in 0 .. Len(w)
      BY <1>2, <3>1
    <3> HIDE DEF z
    <3>5. Stands(z, v, at[i - 1])
      <4>1. /\ Len(z) \in Nat /\ at[i - 1] \in Nat
            /\ at[i - 1] + Len(z) <= Len(w) /\ Len(w) <= Len(v)
        BY <1>4, <3>3, <3>4, LenProperties
      <4>2. at[i - 1] + Len(z) <= Len(v)
        BY <1>4, <4>1
      <4>3. ASSUME NEW j \in 1 .. Len(z) PROVE v[at[i - 1] + j] = z[j]
        <5> DEFINE y == at[i - 1]
                   x == y + j
        <5>0. y \in Nat /\ y + Len(z) <= Len(w) /\ Len(z) \in Nat
          BY <4>1
        <5> HIDE DEF y
        <5>1. x \in 1 .. Len(w) /\ x \in 1 .. Len(w) + Len(u) /\ x <= Len(w)
          <6> DEFINE lw == Len(w)
                     lz == Len(z)
                     lu == Len(u)
          <6>1. /\ lw \in Nat /\ lu \in Nat /\ lz \in Nat /\ j \in 1 .. lz
                /\ y \in Nat /\ y + lz <= lw
            BY <1>4, <5>0
          <6> HIDE DEF lw, lz, lu
          <6>2. x \in 1 .. lw /\ x \in 1 .. lw + lu /\ x <= lw
            BY <6>1
          <6> QED
            BY <6>2 DEF lw, lu
        <5>2. w[x] = z[j]
          BY <3>3 DEF Stands, y
        <5> HIDE DEF x
        <5>3. v[x] = w[x]
          BY <1>4, <5>1
        <5> QED
          BY <5>2, <5>3 DEF x, y
      <4> QED
        BY <4>2, <4>3 DEF Stands
    <3> QED
      BY <3>2, <3>3, <3>5 DEF z
  <2> QED
    BY <2>1, <2>2
<1>7. A[0] = 0
  BY <1>2, <1>5
<1>8. Framed(n + 1, V, v, A)
  BY <1>5, <1>6, <1>7 DEF Framed
<1> QED
  BY <1>5, <1>8 DEF A, v

\* Words are not empty: only the last one ends where the wire ends.
LEMMA FramedEnd ==
  ASSUME NEW T, NEW n \in Nat, NEW w \in Seq(T), NEW at, NEW W, Framed(n, W, w, at),
         \A i \in 1 .. n : Len(W[i]) \in Nat \ {0},
         NEW m \in 0 .. n, at[m] = Len(w)
  PROVE  m = n
<1> SUFFICES ASSUME m # n PROVE FALSE
  OBVIOUS
<1> DEFINE k == m + 1
           S == {j \in Nat : j \in k .. n /\ at[j] <= at[m]}
<1>1. k \in 1 .. n /\ k - 1 = m
  OBVIOUS
<1>2. Len(w) \in Nat /\ \A j \in 0 .. n : at[j] \in Nat
  <2>1. Len(w) \in Nat
    BY LenProperties
  <2>2. at \in [0 .. n -> 0 .. Len(w)] /\ \A j \in 0 .. Len(w) : j \in Nat
    BY <2>1 DEF Framed
  <2> QED
    BY <2>1, <2>2, Zenon
<1>3. ASSUME NEW j \in 1 .. n PROVE at[j - 1] < at[j]
  <2>1. at[j] = at[j - 1] + Len(W[j]) /\ Len(W[j]) \in Nat \ {0} /\ j - 1 \in 0 .. n
    BY DEF Framed
  <2>2. at[j - 1] \in Nat
    BY <1>2, <2>1
  <2> QED
    BY <2>1, <2>2
<1>4. n \in S
  <2>1. at[n] = Len(w)
    BY DEF Framed
  <2> QED
    BY <1>1, <1>2, <2>1
<1>5. PICK j \in S : \A i \in S : j <= i
  <2>1. S \subseteq Nat
    OBVIOUS
  <2> HIDE DEF S
  <2> QED
    BY <1>4, <2>1, LeastNumber
<1>6. j \in k .. n /\ at[j] <= at[m] /\ j \in 1 .. n
  BY <1>1
<1>7. at[j - 1] < at[j]
  BY <1>3, <1>6
<1>8. at[j - 1] \in Nat /\ at[j] \in Nat /\ at[m] \in Nat
  <2>1. j - 1 \in 0 .. n /\ j \in 0 .. n
    BY <1>6
  <2> QED
    BY <1>2, <2>1
<1>9. CASE j = k
  BY <1>1, <1>6, <1>7, <1>8, <1>9
<1>10. CASE j # k
  <2>1. j - 1 \in S
    BY <1>1, <1>6, <1>7, <1>8, <1>10
  <2> HIDE DEF S
  <2>2. j <= j - 1
    BY <1>5, <2>1
  <2> QED
    BY <1>6, <2>2
<1> QED
  BY <1>9, <1>10
-----------------------------------------------------------------------------
(* What the nodes of a dictionary stand for.                               *)

\* W spells the nodes of the first n entries of F: what their parents spell
\* and one more character.
Spells(W, n, F, roots, root) ==
  /\ \A id \in 0 .. roots - 1 : W[id] = root[id]
  /\ \A t \in 1 .. n : /\ F[t].parent \in 0 .. roots + t - 2
                       /\ W[roots - 1 + t] = Append(W[F[t].parent], F[t].c)

\* The equation of a spelling function has one solution.
LEMMA SpellingUnique ==
  ASSUME NEW n \in Nat, NEW F, NEW roots \in Nat, NEW root,
         NEW V, NEW W, Spells(V, n, F, roots, root), Spells(W, n, F, roots, root)
  PROVE  \A id \in 0 .. roots + n - 1 : V[id] = W[id]
<1> DEFINE S == {id \in 0 .. roots + n - 1 : V[id] # W[id]}
<1> SUFFICES ASSUME S # {} PROVE FALSE
  OBVIOUS
<1>1. PICK k \in S : \A j \in S : k <= j
  <2>1. S \subseteq Nat
    OBVIOUS
  <2> HIDE DEF S
  <2> QED
    BY <2>1, LeastNumber
<1>2. k \in 0 .. roots + n - 1 /\ V[k] # W[k]
  OBVIOUS
<1>3. ~ (k \in 0 .. roots - 1)
  BY <1>2 DEF Spells
<1>4. PICK t \in 1 .. n : roots - 1 + t = k
  <2>1. k - roots + 1 \in 1 .. n /\ roots - 1 + (k - roots + 1) = k
    BY <1>2, <1>3
  <2> QED
    BY <2>1
<1> DEFINE j == F[t].parent
<1>5. j \in 0 .. roots + t - 2
  BY DEF Spells
<1>6. V[k] = Append(V[j], F[t].c) /\ W[k] = Append(W[j], F[t].c)
  BY <1>4 DEF Spells
<1> HIDE DEF j
<1>7. j \in 0 .. roots + n - 1 /\ j < k
  BY <1>4, <1>5
<1>8. V[j] # W[j]
  BY <1>2, <1>6
<1>9. k <= j
  BY <1>1, <1>7, <1>8
<1> QED
  BY <1>2, <1>7, <1>9

\* The dictionary's phrases are those of any function that spells its nodes.
LEMMA PhrasesAre ==
  ASSUME NEW F, Len(F) \in Nat, NEW roots \in Nat \ {0}, NEW root,
         NEW W, Spells(W, Len(F), F, roots, root)
  PROVE  /\ DOMAIN Phrases(F, roots, root) = 0 .. Size(F, roots) - 1
         /\ \A id \in 0 .. Size(F, roots) - 1 : Phrases(F, roots, root)[id] = W[id]
<1> DEFINE n == Len(F)
           D == 0 .. Size(F, roots) - 1
           V == CHOOSE f : f = [id \in D |->
                  IF id < roots THEN root[id]
                  ELSE Append(f[F[id - roots + 1].parent], F[id - roots + 1].c)]
           U == [id \in D |-> W[id]]
<1>1. n \in Nat /\ D = 0 .. roots + n - 1
  BY DEF Size
<1>2. Phrases(F, roots, root) = V
  BY Zenon DEF Phrases, V
<1> HIDE DEF n, D
<1>3. \A id \in D : U[id] = W[id]
  OBVIOUS
<1>4. ASSUME NEW id \in D, ~ (id < roots)
      PROVE  LET t == id - roots + 1
             IN  t \in 1 .. n /\ roots - 1 + t = id /\ F[t].parent \in D
  <2> DEFINE t == id - roots + 1
  <2>1. t \in 1 .. n /\ roots - 1 + t = id
    BY <1>1, <1>4
  <2> HIDE DEF t
  <2>2. F[t].parent \in 0 .. roots + t - 2
    BY <2>1 DEF Spells, n
  <2> DEFINE p == F[t].parent
  <2>3. p \in D
    <3>1. p \in 0 .. roots + t - 2 /\ t \in 1 .. n
      BY <2>1, <2>2
    <3> HIDE DEF p
    <3> QED
      BY <1>1, <3>1
  <2> QED
    BY <2>1, <2>3 DEF t
<1>5. ASSUME NEW id \in D
      PROVE  U[id] = IF id < roots THEN root[id]
                     ELSE Append(U[F[id - roots + 1].parent], F[id - roots + 1].c)
  <2>1. CASE id < roots
    <3>1. id \in 0 .. roots - 1
      BY <1>1, <2>1
    <3> QED
      BY <1>3, <2>1, <3>1 DEF Spells
  <2>2. CASE ~ (id < roots)
    <3> DEFINE t == id - roots + 1
    <3>1. t \in 1 .. n /\ roots - 1 + t = id /\ F[t].parent \in D
      BY <1>4, <2>2
    <3> HIDE DEF t
    <3>2. W[id] = Append(W[F[t].parent], F[t].c)
      BY <3>1 DEF Spells, n
    <3>3. U[id] = Append(U[F[t].parent], F[t].c)
      BY <1>3, <3>1, <3>2
    <3> QED
      BY <2>2, <3>3 DEF t
  <2> QED
    BY <2>1, <2>2
<1>6. U = [id \in D |-> IF id < roots THEN root[id]
                        ELSE Append(U[F[id - roots + 1].parent], F[id - roots + 1].c)]
  <2>1. U = [id \in D |-> U[id]]
    OBVIOUS
  <2> HIDE DEF U
  <2> QED
    BY <1>5, <2>1, Zenon
<1>7. V = [id \in D |-> IF id < roots THEN root[id]
                        ELSE Append(V[F[id - roots + 1].parent], F[id - roots + 1].c)]
  <2> HIDE DEF U
  <2> QED
    BY <1>6, Zenon DEF V
<1> HIDE DEF V, U
<1>8. Spells(V, n, F, roots, root)
  <2>1. ASSUME NEW id \in 0 .. roots - 1 PROVE V[id] = root[id]
    <3>1. id \in D /\ id < roots
      BY <1>1
    <3> QED
      BY <1>7, <3>1
  <2>2. ASSUME NEW t \in 1 .. n
        PROVE  /\ F[t].parent \in 0 .. roots + t - 2
               /\ V[roots - 1 + t] = Append(V[F[t].parent], F[t].c)
    <3> DEFINE k == roots - 1 + t
    <3>1. k \in D /\ ~ (k < roots) /\ k - roots + 1 = t
      BY <1>1
    <3>2. F[t].parent \in 0 .. roots + t - 2
      <4>1. \A i \in 1 .. n : F[i].parent \in 0 .. roots + i - 2
        BY Zenon DEF Spells, n
      <4> QED
        BY <4>1, Zenon
    <3> HIDE DEF k
    <3>3. V[k] = Append(V[F[t].parent], F[t].c)
      BY <1>7, <3>1, Zenon
    <3> QED
      BY <3>2, <3>3 DEF k
  <2> QED
    BY <2>1, <2>2 DEF Spells
<1>9. \A id \in D : V[id] = W[id]
  BY <1>1, <1>8, SpellingUnique DEF n
<1>10. DOMAIN V = D
  BY <1>7
<1> QED
  BY <1>2, <1>9, <1>10 DEF D

\* The roots spell different sequences of one length; entries are labelled with
\* symbols, and there are no two of the same.
Rooted(S, W, roots, h) ==
  /\ \A id \in 0 .. roots - 1 : W[id] \in Seq(S) /\ Len(W[id]) = h
  /\ \A i, j \in 0 .. roots - 1 : W[i] = W[j] => i = j
Labelled(S, F, n) ==
  \A t \in 1 .. n : F[t].c \in S /\ F[t] = [parent |-> F[t].parent, c |-> F[t].c]
Distinct(F, n) == \A i, j \in 1 .. n : F[i] = F[j] => i = j

\* A node below the roots spells more than the roots do.
LEMMA SpellingLength ==
  ASSUME NEW S, NEW n \in Nat, NEW F, NEW roots \in Nat, NEW root, NEW W,
         Spells(W, n, F, roots, root), NEW h \in Nat,
         Rooted(S, W, roots, h), Labelled(S, F, n)
  PROVE  /\ \A id \in 0 .. roots + n - 1 : W[id] \in Seq(S) /\ Len(W[id]) >= h
         /\ \A t \in 1 .. n : Len(W[roots - 1 + t]) > h
<1> DEFINE Long(id) == W[id] \in Seq(S) /\ Len(W[id]) >= h
           Bad == {id \in 0 .. roots + n - 1 : ~ Long(id)}
<1>0. /\ \A id \in 0 .. roots - 1 : W[id] \in Seq(S) /\ Len(W[id]) = h
      /\ \A t \in 1 .. n : F[t].c \in S
  BY DEF Rooted, Labelled
<1>1. ASSUME NEW t \in 1 .. n, Long(F[t].parent)
      PROVE  W[roots - 1 + t] \in Seq(S) /\ Len(W[roots - 1 + t]) > h
  <2>1. W[roots - 1 + t] = Append(W[F[t].parent], F[t].c)
    BY DEF Spells
  <2> DEFINE p == W[F[t].parent]
             c == F[t].c
  <2>2. p \in Seq(S) /\ Len(p) >= h /\ c \in S
    BY <1>0, <1>1
  <2> HIDE DEF p, c
  <2>3. Append(p, c) \in Seq(S) /\ Len(Append(p, c)) > h
    BY <2>2, LengthAppend
  <2> QED
    BY <2>1, <2>3 DEF p, c
<1>2. Bad = {}
  <2> SUFFICES ASSUME Bad # {} PROVE FALSE
    OBVIOUS
  <2>1. PICK k \in Bad : \A j \in Bad : k <= j
    <3>1. Bad \subseteq Nat
      OBVIOUS
    <3> HIDE DEF Bad
    <3> QED
      BY <3>1, LeastNumber
  <2>2. k \in 0 .. roots + n - 1 /\ ~ Long(k)
    OBVIOUS
  <2>3. ~ (k \in 0 .. roots - 1)
    BY <1>0, <2>2
  <2>4. PICK t \in 1 .. n : roots - 1 + t = k
    <3>1. k - roots + 1 \in 1 .. n /\ roots - 1 + (k - roots + 1) = k
      BY <2>2, <2>3
    <3> QED
      BY <3>1
  <2> DEFINE j == F[t].parent
  <2>5. j \in 0 .. roots + t - 2
    BY DEF Spells
  <2>6. j \in 0 .. roots + n - 1 /\ ~ (k <= j)
    <3> HIDE DEF j
    <3> QED
      BY <2>4, <2>5
  <2>7. Long(j)
    <3>1. j \notin Bad
      <4> HIDE DEF Bad, j
      <4> QED
        BY <2>1, <2>6
    <3> QED
      BY <2>6, <3>1
  <2>8. W[k] \in Seq(S) /\ Len(W[k]) > h
    BY <1>1, <2>4, <2>7
  <2>9. Len(W[k]) \in Nat
    BY <2>8, LenProperties
  <2> QED
    BY <2>2, <2>8, <2>9
<1>3. \A id \in 0 .. roots + n - 1 : Long(id)
  BY <1>2
<1>4. ASSUME NEW t \in 1 .. n PROVE Len(W[roots - 1 + t]) > h
  <2>1. F[t].parent \in 0 .. roots + t - 2
    BY DEF Spells
  <2>2. F[t].parent \in 0 .. roots + n - 1
    BY <2>1
  <2> QED
    BY <1>1, <1>3, <2>2
<1> QED
  BY <1>3, <1>4

\* No two nodes spell the same if no two entries are the same.
LEMMA SpellingDistinct ==
  ASSUME NEW S, NEW n \in Nat, NEW F, NEW roots \in Nat, NEW root, NEW W,
         Spells(W, n, F, roots, root), NEW h \in Nat,
         Rooted(S, W, roots, h), Labelled(S, F, n), Distinct(F, n)
  PROVE  \A i, j \in 0 .. roots + n - 1 : W[i] = W[j] => i = j
<1> DEFINE T == {i \in 0 .. roots + n - 1 : \E j \in 0 .. roots + n - 1 : W[i] = W[j] /\ i # j}
<1>1. /\ \A id \in 0 .. roots + n - 1 : W[id] \in Seq(S) /\ Len(W[id]) >= h
      /\ \A t \in 1 .. n : Len(W[roots - 1 + t]) > h
  BY SpellingLength
<1> USE DEF Rooted, Labelled, Distinct
<1>2. ASSUME NEW k \in 0 .. roots + n - 1, k \notin 0 .. roots - 1
      PROVE  \E t \in 1 .. n : roots - 1 + t = k
  <2>1. k - roots + 1 \in 1 .. n /\ roots - 1 + (k - roots + 1) = k
    BY <1>2
  <2> QED
    BY <2>1
<1> SUFFICES ASSUME T # {} PROVE FALSE
  OBVIOUS
<1>3. PICK i \in T : \A j \in T : i <= j
  <2>1. T \subseteq Nat
    OBVIOUS
  <2> HIDE DEF T
  <2> QED
    BY <2>1, LeastNumber
<1>4. PICK j \in 0 .. roots + n - 1 : W[i] = W[j] /\ i # j
  OBVIOUS
<1>5. i \in 0 .. roots + n - 1 /\ j \in T
  BY <1>4
<1> HIDE DEF T
<1>6. ASSUME NEW k \in 0 .. roots + n - 1, NEW m \in 0 .. roots + n - 1, W[k] = W[m],
             k \in 0 .. roots - 1
      PROVE  m \in 0 .. roots - 1
  <2> SUFFICES ASSUME m \notin 0 .. roots - 1 PROVE FALSE
    OBVIOUS
  <2>1. PICK t \in 1 .. n : roots - 1 + t = m
    BY <1>2
  <2>2. Len(W[m]) > h
    BY <1>1, <2>1
  <2>3. Len(W[m]) = h
    BY <1>6
  <2> QED
    BY <2>2, <2>3
<1>7. i \notin 0 .. roots - 1 /\ j \notin 0 .. roots - 1
  BY <1>4, <1>5, <1>6
<1>8. PICK t \in 1 .. n : roots - 1 + t = i
  BY <1>2, <1>5, <1>7
<1>9. PICK u \in 1 .. n : roots - 1 + u = j
  BY <1>2, <1>4, <1>7
<1> DEFINE p == F[t].parent
           q == F[u].parent
<1>10. p \in 0 .. roots + t - 2 /\ q \in 0 .. roots + u - 2
  BY DEF Spells
<1>11. W[i] = Append(W[p], F[t].c) /\ W[j] = Append(W[q], F[u].c)
  BY <1>8, <1>9 DEF Spells
<1> HIDE DEF p, q
<1>12. p \in 0 .. roots + n - 1 /\ q \in 0 .. roots + n - 1 /\ p < i
  BY <1>8, <1>10
<1>13. W[p] = W[q] /\ F[t].c = F[u].c
  <2> DEFINE x == W[p]
             a == F[t].c
             y == W[q]
             b == F[u].c
  <2>1. x \in Seq(S) /\ y \in Seq(S) /\ a \in S /\ b \in S /\ Append(x, a) = Append(y, b)
    BY <1>1, <1>4, <1>11, <1>12
  <2> HIDE DEF x, y, a, b
  <2>2. x = y /\ a = b
    BY <2>1, AppendInjective
  <2> QED
    BY <2>2 DEF x, y, a, b
<1>14. CASE p = q
  <2>1. F[t] = F[u]
    BY <1>13, <1>14 DEF p, q
  <2>2. t = u
    BY <2>1
  <2> QED
    BY <1>4, <1>8, <1>9, <2>2
<1>15. CASE p # q
  <2>1. p \in T
    BY <1>12, <1>13, <1>15 DEF T
  <2>2. i <= p
    BY <1>3, <2>1
  <2> QED
    BY <1>5, <1>12, <2>2
<1> QED
  BY <1>14, <1>15
-----------------------------------------------------------------------------
(* Texts that are put together of phrases.                                 *)

\* V[i] is the first i of the phrases P, one after the other.
Joins(V, P, n) == V = [i \in 0 .. n |-> IF i = 0 THEN <<>> ELSE V[i - 1] \o P[i]]

\* The n phrases P are the parts of s between the boundaries b.
Parts(P, s, b, n) ==
  /\ b \in [0 .. n -> 0 .. Len(s)] /\ b[0] = 0
  /\ \A i \in 1 .. n : b[i - 1] < b[i] /\ P[i] = SubSeq(s, b[i - 1] + 1, b[i])

\* There is one way to put phrases together: what comes out are the beginnings of
\* the text.
LEMMA JoinIs ==
  ASSUME NEW S, NEW s \in Seq(S), NEW n \in Nat, NEW b, NEW P, Parts(P, s, b, n)
  PROVE  /\ \E W : Joins(W, P, n)
         /\ \A V : Joins(V, P, n) => \A i \in 0 .. n : V[i] = SubSeq(s, 1, b[i])
<1> DEFINE W == [i \in 0 .. n |-> SubSeq(s, 1, b[i])]
<1>1. Len(s) \in Nat
  BY LenProperties
<1>2. /\ b[0] = 0 /\ \A i \in 0 .. n : b[i] \in 0 .. Len(s)
      /\ \A i \in 1 .. n : b[i - 1] < b[i] /\ P[i] = SubSeq(s, b[i - 1] + 1, b[i])
  BY DEF Parts
<1>3. \A i \in 0 .. n : W[i] = SubSeq(s, 1, b[i])
  OBVIOUS
<1> HIDE DEF W
<1>4. ASSUME NEW i \in 0 .. n
      PROVE  W[i] = IF i = 0 THEN <<>> ELSE W[i - 1] \o P[i]
  <2>1. CASE i = 0
    <3>1. W[i] = SubSeq(s, 1, 0)
      BY <1>2, <1>3, <2>1
    <3>2. SubSeq(s, 1, 0) = <<>>
      BY SubSeqEmpty
    <3> QED
      BY <2>1, <3>1, <3>2
  <2>2. CASE i # 0
    <3> DEFINE x == b[i - 1]
               y == b[i]
    <3>1. i \in 1 .. n /\ i - 1 \in 0 .. n
      BY <2>2
    <3>2. x \in 0 .. Len(s) /\ y \in 0 .. Len(s) /\ x < y
      BY <1>2, <3>1
    <3>3. W[i - 1] = SubSeq(s, 1, x) /\ W[i] = SubSeq(s, 1, y) /\ P[i] = SubSeq(s, x + 1, y)
      BY <1>2, <1>3, <3>1
    <3> HIDE DEF x, y
    <3>4. x \in 1 - 1 .. Len(s) /\ y \in x .. Len(s) /\ 1 \in 1 .. Len(s) + 1
      BY <1>1, <3>2
    <3>5. SubSeq(s, 1, x) \o SubSeq(s, x + 1, y) = SubSeq(s, 1, y)
      BY <3>4, ConcatAdjacentSubSeq
    <3> QED
      BY <2>2, <3>3, <3>5
  <2> QED
    BY <2>1, <2>2
<1>5. Joins(W, P, n)
  <2>1. W = [i \in 0 .. n |-> W[i]]
    BY DEF W
  <2> QED
    BY <1>4, <2>1 DEF Joins
<1>6. ASSUME NEW V, Joins(V, P, n) PROVE \A i \in 0 .. n : V[i] = W[i]
  <2> DEFINE D == {i \in 0 .. n : V[i] # W[i]}
  <2> SUFFICES ASSUME D # {} PROVE FALSE
    OBVIOUS
  <2>1. PICK i \in D : \A j \in D : i <= j
    <3>1. D \subseteq Nat
      OBVIOUS
    <3> HIDE DEF D
    <3> QED
      BY <3>1, LeastNumber
  <2>2. i \in 0 .. n /\ V[i] # W[i]
    OBVIOUS
  <2>3. V[i] = IF i = 0 THEN <<>> ELSE V[i - 1] \o P[i]
    BY <1>6, <2>2 DEF Joins
  <2>4. i # 0
    BY <1>4, <2>2, <2>3
  <2>5. i - 1 \in 0 .. n /\ ~ (i <= i - 1)
    BY <2>2, <2>4
  <2>6. i - 1 \notin D
    <3> HIDE DEF D
    <3> QED
      BY <2>1, <2>5
  <2>7. V[i - 1] = W[i - 1]
    BY <2>5, <2>6
  <2> QED
    BY <1>4, <2>2, <2>3, <2>4, <2>7
<1> QED
  BY <1>3, <1>5, <1>6
=============================================================================
