----------------------------- MODULE LZWProofs -----------------------------
(***************************************************************************)
(* Proofs about LZW, for every alphabet, every text and every set of       *)
(* options that satisfies Sizes: the compressor's parse is greedy and      *)
(* complete, the decompressor, whose dictionary lags by an entry, never    *)
(* meets a factor it cannot decode, and what it writes is the text.  The   *)
(* resets of both dictionaries are included.  At the end, the theorems of  *)
(* LZ78 and LZW are joined into theorems about MCPhrases.                  *)
(*                                                                         *)
(* The argument follows the factors.  The i-th of them codes the node      *)
(* ks[i] and ends at b[i] in the text and at at[i] on the wire.  At any    *)
(* time the dictionary consists of the entries of the last Age factors, so *)
(* it is a window of ks, and each side is described by how far it has got. *)
(***************************************************************************)
EXTENDS MCPhrases, DataProofs

-----------------------------------------------------------------------------
(* Widths.                                                                 *)

\* Numbers between two of the same width have that width.
LEMMA SameWidth ==
  ASSUME NEW x \in Nat \ {0}, NEW y \in Nat, NEW z \in Nat, x <= y, y <= z, z < 2 ^ 64,
         BitsFor(x) = BitsFor(z)
  PROVE  BitsFor(y) = BitsFor(x)
<1> DEFINE IsWidth(v, n) == 2 ^ (n - 1) <= v /\ v < 2 ^ n
<1> DEFINE top == 2 ^ 64
<1>0. top \in Nat
  BY PowerNext
<1>1. ASSUME NEW v \in Nat \ {0}, v < top
      PROVE  BitsFor(v) \in 1 .. 64 /\ IsWidth(v, BitsFor(v))
  <2>1. BitsFor(v) = CHOOSE n \in 1 .. 64 : 2 ^ (n - 1) <= v /\ v < 2 ^ n
    BY DEF BitsFor
  <2>2. PICK n \in 1 .. 64 : 2 ^ (n - 1) <= v /\ v < 2 ^ n
    <3> DEFINE S == {k \in Nat : v < 2 ^ k}
    <3>1. 64 \in S
      BY <1>1
    <3>2. PICK n \in S : \A m \in S : n <= m
      <4> HIDE DEF S
      <4>1. S \subseteq Nat
        BY DEF S
      <4> QED
        BY <3>1, <4>1, LeastNumber
    <3>3. n \in Nat /\ n <= 64 /\ v < 2 ^ n
      BY <3>1, <3>2
    <3>4. n # 0
      <4> SUFFICES ASSUME n = 0 PROVE FALSE
        OBVIOUS
      <4>1. 2 ^ n = 1
        BY PowerStart
      <4> QED
        BY <3>3, <4>1
    <3>5. n - 1 \in Nat /\ n - 1 \notin S
      BY <3>2, <3>3, <3>4
    <3>6. 2 ^ (n - 1) \in Nat
      BY <3>5, PowerNext
    <3>7. 2 ^ (n - 1) <= v
      BY <3>5, <3>6
    <3>8. n \in 1 .. 64
      BY <3>3, <3>4
    <3> QED
      BY <3>3, <3>7, <3>8
  <2> QED
    BY <2>1, <2>2
<1> HIDE DEF top
<1>2. y \in Nat \ {0} /\ z \in Nat \ {0} /\ x < top /\ y < top
  <2>1. z < top
    BY DEF top
  <2> QED
    BY <1>0, <2>1
<1>3. z < top
  BY DEF top
<1> DEFINE w == BitsFor(x)
           u == BitsFor(y)
<1>4. w \in 1 .. 64 /\ u \in 1 .. 64 /\ IsWidth(x, w) /\ IsWidth(z, w) /\ IsWidth(y, u)
  BY <1>1, <1>2, <1>3
<1> HIDE DEF w, u
<1>5. /\ w - 1 \in Nat /\ w \in Nat /\ u - 1 \in Nat /\ u \in Nat
      /\ 2 ^ (w - 1) \in Nat /\ 2 ^ w \in Nat /\ 2 ^ (u - 1) \in Nat /\ 2 ^ u \in Nat
  <2>1. w - 1 \in Nat /\ w \in Nat /\ u - 1 \in Nat /\ u \in Nat
    BY <1>4
  <2> QED
    BY <2>1, PowerNext
<1>6. ~ (u < w)
  <2> SUFFICES ASSUME u < w PROVE FALSE
    OBVIOUS
  <2>1. 2 ^ u <= 2 ^ (w - 1)
    <3>1. u <= w - 1
      BY <1>5
    <3> QED
      BY <1>5, <3>1, PowerMonotone
  <2>2. 2 ^ (w - 1) <= x /\ y < 2 ^ u
    BY <1>4
  <2> QED
    BY <1>5, <2>1, <2>2
<1>7. ~ (w < u)
  <2> SUFFICES ASSUME w < u PROVE FALSE
    OBVIOUS
  <2>1. 2 ^ w <= 2 ^ (u - 1)
    <3>1. w <= u - 1
      BY <1>5
    <3> QED
      BY <1>5, <3>1, PowerMonotone
  <2>2. 2 ^ (u - 1) <= y /\ z < 2 ^ w
    BY <1>4
  <2> QED
    BY <1>5, <2>1, <2>2
<1> QED
  BY <1>5, <1>6, <1>7 DEF w, u

\* Of the range only the width matters, and nothing to a coder that writes numbers.
LEMMA SameCode ==
  ASSUME NEW binary \in BOOLEAN, NEW w, NEW p, NEW x, NEW y,
         binary => BitsFor(x) = BitsFor(y)
  PROVE  Decoded(binary, w, p, x) = Decoded(binary, w, p, y)
<1>1. CASE binary
  <2>1. BitsFor(x) = BitsFor(y)
    BY <1>1
  <2> QED
    BY <2>1, Zenon DEF Decoded
<1>2. CASE ~binary
  BY <1>2, Zenon DEF Decoded
<1> QED
  BY <1>1, <1>2

-----------------------------------------------------------------------------
(* The age of the dictionary.                                              *)

\* A quotient and a remainder below the divisor are those of a division.
LEMMA Remainder ==
  ASSUME NEW a \in Nat, NEW d \in Nat \ {0}, NEW q \in Nat, NEW r \in Nat,
         r < d, a = q * d + r
  PROVE  a % d = r
<1>1. a \div d = q
  BY Quotient
<1> DEFINE p == a \div d
           m == a % d
<1>2. p \in Nat /\ m \in Nat /\ a = p * d + m
  OBVIOUS
<1>3. p = q
  BY <1>1
<1> HIDE DEF p, m
<1>4. m = r
  BY <1>2, <1>3
<1> QED
  BY <1>4 DEF m

\* How many factors were written since the dictionary was empty, after n factors
\* with the limit l for its size.
Age(l, n) == IF l = 0 THEN n ELSE n % (l - Sigma)

\* A limit leaves room for an entry.
Limit(l) == l \in Nat /\ (l = 0 \/ l > Sigma)

\* The age stays below the limit, and grows by one or starts again.
LEMMA AgeFacts ==
  ASSUME NEW l, Limit(l), NEW n \in Nat
  PROVE  /\ Age(l, n) \in 0 .. n /\ Age(l, 0) = 0
         /\ l # 0 => Sigma + Age(l, n) < l
         /\ Age(l, n + 1) = IF Sigma + Age(l, n) + 1 = l THEN 0 ELSE Age(l, n) + 1
<1>0. Sigma \in Nat \ {0} /\ l \in Nat
  BY LZWAssumption DEF Limit
<1>1. CASE l = 0
  BY <1>0, <1>1 DEF Age
<1>2. CASE l # 0
  <2> DEFINE d == l - Sigma
             a == n % d
             q == n \div d
  <2>1. d \in Nat \ {0} /\ Sigma + d = l
    BY <1>0, <1>2 DEF Limit
  <2> HIDE DEF d
  <2>2. a \in Nat /\ a < d /\ q \in Nat /\ n = q * d + a /\ q * d \in Nat
    BY <2>1
  <2> HIDE DEF a, q
  <2>3. a \in 0 .. n
    BY <2>2
  <2>4. (n + 1) % d = IF a + 1 = d THEN 0 ELSE a + 1
    <3>1. CASE a + 1 = d
      <4>1. n + 1 = (q + 1) * d + 0 /\ n + 1 \in Nat /\ q + 1 \in Nat /\ 0 < d
        <5>1. (q + 1) * d = q * d + d
          BY <2>1, <2>2
        <5> QED
          BY <2>1, <2>2, <3>1, <5>1
      <4>2. (n + 1) % d = 0
        <5> DEFINE N == n + 1
                   Q == q + 1
        <5>1. N \in Nat /\ Q \in Nat /\ 0 < d /\ N = Q * d + 0
          BY <4>1
        <5> HIDE DEF N, Q
        <5>2. N % d = 0
          BY <2>1, <5>1, Remainder
        <5> QED
          BY <5>2 DEF N
      <4> QED
        BY <3>1, <4>2
    <3>2. CASE a + 1 # d
      <4> DEFINE N == n + 1
                 R == a + 1
      <4>1. N \in Nat /\ R \in Nat /\ R < d /\ N = q * d + R
        BY <2>1, <2>2, <3>2
      <4> HIDE DEF N, R
      <4>2. N % d = R
        BY <2>1, <2>2, <4>1, Remainder
      <4> QED
        BY <3>2, <4>2 DEF N, R
    <3> QED
      BY <3>1, <3>2
  <2>5. 0 % d = 0
    <3>1. 0 \in Nat /\ 0 < d /\ 0 = 0 * d + 0
      BY <2>1
    <3> QED
      BY <2>1, <3>1, Remainder
  <2>6. Age(l, n) = a /\ Age(l, 0) = 0 /\ Age(l, n + 1) = (n + 1) % d
    BY <1>2, <2>5 DEF Age, a, d
  <2>7. Sigma + a + 1 = l <=> a + 1 = d
    BY <1>0, <2>1, <2>2
  <2> QED
    BY <1>0, <2>1, <2>2, <2>3, <2>4, <2>6, <2>7
<1> QED
  BY <1>1, <1>2

\* Since then the dictionary has grown by an entry with every factor.
LEMMA AgeWindow ==
  ASSUME NEW l, Limit(l), NEW n \in Nat, NEW j \in 0 .. Age(l, n)
  PROVE  Age(l, n - j) = Age(l, n) - j
<1> DEFINE a == Age(l, n)
           S == {i \in Nat : i <= a /\ Age(l, n - i) # a - i}
<1>1. a \in 0 .. n
  BY AgeFacts
<1> HIDE DEF a
<1> SUFFICES ASSUME S # {} PROVE FALSE
  BY <1>1 DEF a
<1>2. PICK i \in S : \A k \in S : i <= k
  <2>1. S \subseteq Nat
    OBVIOUS
  <2> HIDE DEF S
  <2> QED
    BY <2>1, LeastNumber
<1>3. i \in Nat /\ i <= a /\ Age(l, n - i) # a - i
  OBVIOUS
<1>4. i # 0
  BY <1>1, <1>3 DEF a
<1> DEFINE k == i - 1
           x == n - i
<1>5. k \in Nat /\ k <= a /\ ~ (i <= k) /\ n - k = x + 1 /\ x \in Nat
  BY <1>1, <1>3, <1>4
<1>6. Age(l, n - k) = a - k
  <2>1. k \notin S
    <3> HIDE DEF S, k
    <3> QED
      BY <1>2, <1>5
  <2> QED
    BY <1>5, <2>1
<1>7. Age(l, x + 1) = a - k /\ a - k # 0
  BY <1>1, <1>3, <1>5, <1>6
<1> HIDE DEF x
<1>8. Age(l, x) + 1 = a - k /\ Age(l, x) \in Nat
  <2>1. Age(l, x) \in 0 .. x /\ Age(l, x + 1) = IF Sigma + Age(l, x) + 1 = l THEN 0 ELSE Age(l, x) + 1
    BY <1>5, AgeFacts
  <2> QED
    BY <1>5, <1>7, <2>1
<1> QED
  BY <1>1, <1>3, <1>8 DEF x

-----------------------------------------------------------------------------
(* Texts that are cut into phrases.                                        *)

\* What the i-th factor stands for ends at b[i]; the next character makes an entry
\* of the dictionary of it.
Phrase(s, b, i) == SubSeq(s, b[i - 1] + 1, b[i])
Extended(s, b, i) == SubSeq(s, b[i - 1] + 1, b[i] + 1)

\* The phrase of node k, in a dictionary whose first entry is that of factor lo + 1.
Spelled(s, b, lo, k) == IF k < Sigma THEN <<k>> ELSE Extended(s, b, lo + (k - Sigma + 1))

\* This dictionary after a factors; ks are their nodes.
Entry(ks, s, b, i) == [parent |-> ks[i], c |-> s[b[i] + 1]]
Window(ks, s, b, lo, a) == [t \in 1 .. a |-> Entry(ks, s, b, lo + t)]

\* The number of factors before those of the dictionary that n factors leave.
First(l, n) == n - Age(l, n)

\* Every phrase is that of a node of its time.
Parsed(l, ks, n, s, b) ==
  /\ ks \in [1 .. n -> Nat] /\ b \in [0 .. n -> 0 .. Len(s)] /\ b[0] = 0
  /\ \A i \in 1 .. n :
       /\ b[i - 1] < b[i] /\ ks[i] < Sigma + Age(l, i - 1)
       /\ Phrase(s, b, i) = Spelled(s, b, First(l, i - 1), ks[i])

\* The text goes on behind each of the first m phrases.
Within(s, b, m) == \A i \in 1 .. m : b[i] < Len(s)

\* The a factors behind lo were written with one dictionary.
Fresh(l, lo, a) == \A t \in 1 .. a : Age(l, lo + (t - 1)) = t - 1

\* The factors since the last reset were written with one dictionary.
LEMMA FreshFacts ==
  ASSUME NEW l, Limit(l), NEW n \in Nat
  PROVE  First(l, n) \in 0 .. n /\ Fresh(l, First(l, n), Age(l, n) + 1)
<1> DEFINE a == Age(l, n)
<1>1. a \in 0 .. n
  BY AgeFacts
<1> HIDE DEF a
<1>2. First(l, n) = n - a /\ n - a \in 0 .. n
  BY <1>1 DEF First, a
<1>3. ASSUME NEW t \in 1 .. a + 1 PROVE Age(l, (n - a) + (t - 1)) = t - 1
  <2> DEFINE j == a - (t - 1)
  <2>1. j \in 0 .. a /\ n - j = (n - a) + (t - 1) /\ a - j = t - 1
    BY <1>1
  <2> HIDE DEF j
  <2>2. Age(l, n - j) = a - j
    BY <2>1, AgeWindow DEF a
  <2> QED
    BY <2>1, <2>2
<1> QED
  BY <1>2, <1>3 DEF Fresh, a

\* A part of a text.
LEMMA SpanFacts ==
  ASSUME NEW S, NEW s \in Seq(S), NEW x \in Nat, NEW y \in 0 .. Len(s), x <= y
  PROVE  /\ SubSeq(s, x + 1, y) \in Seq(S) /\ Len(SubSeq(s, x + 1, y)) = y - x
         /\ \A i \in 1 .. y - x : SubSeq(s, x + 1, y)[i] = s[x + i]
<1>1. Len(s) \in Nat /\ \A i \in 1 .. Len(s) : s[i] \in S
  BY LenProperties, ElementOfSeq
<1>2. \A i \in x + 1 .. y : s[i] \in S
  <2>1. \A i \in x + 1 .. y : i \in 1 .. Len(s)
    BY <1>1
  <2> QED
    BY <1>1, <2>1
<1> DEFINE m == x + 1
           u == SubSeq(s, m, y)
<1>3. m \in Int /\ y \in Int /\ \A i \in m .. y : s[i] \in S
  BY <1>1, <1>2
<1>4. (IF m <= y THEN y - m + 1 ELSE 0) = y - x /\ y - m + 1 = y - x
  BY <1>1
<1>5. \A i \in 1 .. y - x : m + i - 1 = x + i
  BY <1>1
<1> HIDE DEF m
<1>6. /\ Len(u) = IF m <= y THEN y - m + 1 ELSE 0
      /\ u \in Seq(S) /\ \A i \in 1 .. y - m + 1 : u[i] = s[m + i - 1]
  BY <1>3, SubSeqProperties
<1> HIDE DEF u
<1>7. u \in Seq(S) /\ Len(u) = y - x /\ \A i \in 1 .. y - x : u[i] = s[x + i]
  BY <1>4, <1>5, <1>6
<1> QED
  BY <1>7 DEF u, m

\* One character more of it.
LEMMA SpanExtends ==
  ASSUME NEW S, NEW s \in Seq(S), NEW x \in Nat, NEW y \in Nat, x <= y, y < Len(s)
  PROVE  SubSeq(s, x + 1, y + 1) = Append(SubSeq(s, x + 1, y), s[y + 1])
<1>1. Len(s) \in Nat /\ \A i \in 1 .. Len(s) : s[i] \in S
  BY LenProperties, ElementOfSeq
<1> DEFINE m == x + 1
           n == y + 1
           u == SubSeq(s, m, n - 1)
<1>2. m \in 1 .. Len(s) /\ n \in m .. Len(s) /\ n - 1 = y /\ s[n] \in S /\ y \in 0 .. Len(s)
  BY <1>1
<1>3. SubSeq(s, m, y) \in Seq(S)
  BY <1>2, SpanFacts
<1> HIDE DEF m, n
<1>4. SubSeq(s, m, n) = u \o <<s[n]>>
  BY <1>2, SubSeqRecursiveSecond
<1>5. u \in Seq(S)
  BY <1>2, <1>3
<1> HIDE DEF u
<1>6. Append(u, s[n]) = u \o <<s[n]>>
  BY <1>2, <1>5, AppendIsConcat
<1>7. SubSeq(s, m, n) = Append(u, s[n]) /\ u = SubSeq(s, m, y)
  BY <1>2, <1>4, <1>6 DEF u
<1> QED
  BY <1>7 DEF m, n

\* lo and a describe a dictionary of the parsed text s.
Dictionary(l, s, n, ks, b, lo, a) ==
  /\ Limit(l) /\ s \in Seq(Literal) /\ n \in Nat /\ Parsed(l, ks, n, s, b)
  /\ lo \in Nat /\ a \in Nat /\ lo + a <= n
  /\ Within(s, b, lo + a) /\ Fresh(l, lo, a)

\* An entry stands for the phrase of its parent and its label.
LEMMA SpelledExtends ==
  ASSUME NEW l, NEW s, NEW n, NEW ks, NEW b, NEW lo, NEW a,
         Dictionary(l, s, n, ks, b, lo, a), NEW t \in 1 .. a
  PROVE  /\ ks[lo + t] \in 0 .. Sigma + t - 2
         /\ s[b[lo + t] + 1] \in Literal
         /\ Phrase(s, b, lo + t) = Spelled(s, b, lo, ks[lo + t])
         /\ Spelled(s, b, lo, Sigma - 1 + t)
              = Append(Spelled(s, b, lo, ks[lo + t]), s[b[lo + t] + 1])
<1> DEFINE i == lo + t
           m == lo + a
<1>0. /\ Limit(l) /\ s \in Seq(Literal) /\ n \in Nat /\ Parsed(l, ks, n, s, b)
      /\ lo \in Nat /\ a \in Nat /\ m <= n /\ Within(s, b, m) /\ Fresh(l, lo, a)
  BY DEF Dictionary
<1>1. i \in 1 .. n /\ i \in 0 .. m /\ i \in 0 .. n /\ i - 1 = lo + (t - 1) /\ i - 1 \in 0 .. n
  BY <1>0
<1>2. Sigma \in Nat \ {0} /\ Len(s) \in Nat
  BY <1>0, LZWAssumption, LenProperties
<1>3. Age(l, i - 1) = t - 1 /\ First(l, i - 1) = lo
  <2>1. Age(l, lo + (t - 1)) = t - 1
    BY <1>0 DEF Fresh
  <2>2. Age(l, i - 1) = t - 1
    BY <1>1, <2>1
  <2>3. (lo + (t - 1)) - (t - 1) = lo
    BY <1>0
  <2> HIDE DEF i
  <2> QED
    BY <1>1, <2>2, <2>3 DEF First
<1> HIDE DEF i, m
<1>4. /\ ks[i] \in Nat /\ b[i - 1] \in Nat /\ b[i] \in Nat /\ b[i - 1] < b[i]
      /\ ks[i] < Sigma + Age(l, i - 1)
      /\ Phrase(s, b, i) = Spelled(s, b, First(l, i - 1), ks[i])
  BY <1>0, <1>1, <1>2 DEF Parsed
<1>5. b[i] < Len(s)
  BY <1>0, <1>1 DEF Within
<1>6. ks[i] \in 0 .. Sigma + t - 2
  BY <1>2, <1>3, <1>4
<1> DEFINE x == b[i - 1]
           y == b[i]
<1>7. x \in Nat /\ y \in Nat /\ x <= y /\ y < Len(s)
  BY <1>4, <1>5
<1>8. s[y + 1] \in Literal
  <2>1. y + 1 \in 1 .. Len(s)
    BY <1>2, <1>7
  <2> HIDE DEF y
  <2> QED
    BY <1>0, <2>1, ElementOfSeq
<1>9. Extended(s, b, i) = Append(Phrase(s, b, i), s[b[i] + 1])
  <2> HIDE DEF x, y
  <2>1. SubSeq(s, x + 1, y + 1) = Append(SubSeq(s, x + 1, y), s[y + 1])
    BY <1>0, <1>7, SpanExtends
  <2> QED
    BY <2>1, Zenon DEF Extended, Phrase, x, y
<1>10. Spelled(s, b, lo, Sigma - 1 + t) = Extended(s, b, i)
  <2>1. ~ (Sigma - 1 + t < Sigma) /\ lo + ((Sigma - 1 + t) - Sigma + 1) = i
    BY <1>0, <1>2 DEF i
  <2> QED
    BY <2>1 DEF Spelled
<1> QED
  BY <1>3, <1>4, <1>6, <1>8, <1>9, <1>10 DEF i

Letters == [id \in Literal |-> <<id>>]
Spelling(s, b, lo, a) == [k \in 0 .. Sigma + a - 1 |-> Spelled(s, b, lo, k)]

\* Such a dictionary is a trie, and spells what its nodes stand for.
LEMMA WindowFacts ==
  ASSUME NEW l, NEW s, NEW n, NEW ks, NEW b, NEW lo, NEW a,
         Dictionary(l, s, n, ks, b, lo, a)
  PROVE  LET D == Window(ks, s, b, lo, a)
             W == Spelling(s, b, lo, a)
         IN  /\ D \in Seq([parent : Nat, c : Literal]) /\ Len(D) = a
             /\ Labelled(Literal, D, a)
             /\ Spells(W, a, D, Sigma, Letters) /\ Rooted(Literal, W, Sigma, 1)
<1> DEFINE D == Window(ks, s, b, lo, a)
           W == Spelling(s, b, lo, a)
<1>1. Sigma \in Nat \ {0} /\ a \in Nat
  BY LZWAssumption DEF Dictionary
<1>2. ASSUME NEW t \in 1 .. a
      PROVE  /\ D[t] = [parent |-> D[t].parent, c |-> D[t].c]
             /\ D[t].parent \in 0 .. Sigma + t - 2 /\ D[t].c \in Literal
             /\ Spelled(s, b, lo, Sigma - 1 + t) = Append(Spelled(s, b, lo, D[t].parent), D[t].c)
  <2>1. D[t] = [parent |-> ks[lo + t], c |-> s[b[lo + t] + 1]]
    BY DEF Window, Entry
  <2> HIDE DEF D
  <2>2. D[t].parent = ks[lo + t] /\ D[t].c = s[b[lo + t] + 1]
    BY <2>1
  <2>3. /\ ks[lo + t] \in 0 .. Sigma + t - 2 /\ s[b[lo + t] + 1] \in Literal
        /\ Spelled(s, b, lo, Sigma - 1 + t)
             = Append(Spelled(s, b, lo, ks[lo + t]), s[b[lo + t] + 1])
    BY SpelledExtends
  <2> QED
    BY <2>1, <2>2, <2>3
<1>3. D = [t \in 1 .. a |-> D[t]]
  BY DEF Window
<1>4. \A k \in 0 .. Sigma + a - 1 : W[k] = Spelled(s, b, lo, k)
  BY DEF Spelling
<1> HIDE DEF D, W
<1>5. \A t \in 1 .. a : D[t] \in [parent : Nat, c : Literal]
  <2> SUFFICES ASSUME NEW t \in 1 .. a PROVE D[t] \in [parent : Nat, c : Literal]
    OBVIOUS
  <2> DEFINE p == D[t].parent
             c == D[t].c
  <2>1. D[t] = [parent |-> p, c |-> c] /\ c \in Literal /\ p \in 0 .. Sigma + t - 2
    BY <1>2
  <2>2. p \in Nat
    <3> HIDE DEF p, c
    <3> QED
      BY <1>1, <2>1
  <2> HIDE DEF p, c
  <2> QED
    BY <2>1, <2>2
<1>6. D \in Seq([parent : Nat, c : Literal]) /\ Len(D) = a
  <2>1. D \in [1 .. a -> [parent : Nat, c : Literal]]
    BY <1>3, <1>5
  <2> DEFINE E == [parent : Nat, c : Literal]
  <2>2. D \in Seq([parent : Nat, c : Literal])
    <3>1. D \in [1 .. a -> E] /\ a \in Nat
      BY <1>1, <2>1
    <3> HIDE DEF E
    <3>2. D \in Seq(E)
      BY <3>1, SeqDef
    <3> QED
      BY <3>2 DEF E
  <2>3. DOMAIN D = 1 .. a
    BY <2>1
  <2> QED
    BY <1>1, <2>2, <2>3, LengthOf
<1>7. Labelled(Literal, D, a)
  <2>1. ASSUME NEW t \in 1 .. a PROVE D[t] = [parent |-> D[t].parent, c |-> D[t].c]
    BY <1>2
  <2> QED
    BY <1>2, <2>1 DEF Labelled
<1>8. ASSUME NEW k \in 0 .. Sigma - 1 PROVE W[k] = <<k>> /\ k \in Literal
  <2>1. k \in 0 .. Sigma + a - 1 /\ k < Sigma
    BY <1>1
  <2> QED
    BY <1>4, <2>1 DEF Spelled, Literal
<1>9. Spells(W, a, D, Sigma, Letters)
  <2>1. \A k \in 0 .. Sigma - 1 : W[k] = Letters[k]
    BY <1>8 DEF Letters
  <2>2. ASSUME NEW t \in 1 .. a
        PROVE  /\ D[t].parent \in 0 .. Sigma + t - 2
               /\ W[Sigma - 1 + t] = Append(W[D[t].parent], D[t].c)
    <3> DEFINE p == D[t].parent
               k == Sigma - 1 + t
    <3>1. p \in 0 .. Sigma + t - 2
      BY <1>2
    <3>2. k \in 0 .. Sigma + a - 1
      BY <1>1
    <3>3. p \in 0 .. Sigma + a - 1
      <4> HIDE DEF p
      <4> QED
        BY <1>1, <3>1
    <3>4. Spelled(s, b, lo, k) = Append(Spelled(s, b, lo, p), D[t].c)
      BY <1>2
    <3> HIDE DEF k, p
    <3>5. W[k] = Append(W[p], D[t].c)
      BY <1>4, <3>2, <3>3, <3>4
    <3> QED
      BY <3>1, <3>5 DEF k, p
  <2> QED
    BY <2>1, <2>2 DEF Spells
<1>10. Rooted(Literal, W, Sigma, 1)
  <2>1. ASSUME NEW k \in 0 .. Sigma - 1 PROVE W[k] \in Seq(Literal) /\ Len(W[k]) = 1
    <3>1. <<k>> \in Seq(Literal) /\ Len(<<k>>) = 1
      BY <1>8
    <3> QED
      BY <1>8, <3>1
  <2>2. ASSUME NEW i \in 0 .. Sigma - 1, NEW j \in 0 .. Sigma - 1, W[i] = W[j] PROVE i = j
    <3>1. <<i>> = <<j>>
      BY <1>8, <2>2
    <3>2. <<i>>[1] = <<j>>[1]
      BY <3>1
    <3> QED
      BY <3>2
  <2> QED
    BY <2>1, <2>2 DEF Rooted
<1> QED
  BY <1>6, <1>7, <1>9, <1>10 DEF D, W

\* rebuild_string spells the same, as no node has the number of the sentinel.
LEMMA RebuildIs ==
  ASSUME NEW d, Len(d) \in Nat, Dms \in Nat, Size(d, Sigma) <= Dms,
         NEW W, Spells(W, Len(d), d, Sigma, Letters), NEW k \in 0 .. Size(d, Sigma) - 1
  PROVE  Rebuild(d, k) = W[k]
<1> DEFINE n == Len(d)
           D == 0 .. Size(d, Sigma) - 1
           Step(f, id) == IF id = Dms THEN <<>>
                          ELSE IF id < Sigma THEN <<id>>
                          ELSE LET e == d[id - Sigma + 1]
                               IN  Append(IF e.parent = Dms THEN <<>> ELSE f[e.parent], e.c)
           V == CHOOSE f : f = [id \in D |-> Step(f, id)]
           Z == [id \in D |-> W[id]]
<1>1. n \in Nat /\ D = 0 .. Sigma + n - 1 /\ Sigma \in Nat \ {0}
  BY LZWAssumption DEF Size
<1>2. \A id \in D : id # Dms
  BY <1>1 DEF Size
<1>3. Rebuild(d, k) = V[k]
  <2>1. Rebuild(d, k) = IF k = Dms THEN <<>> ELSE V[k]
    BY Zenon DEF Rebuild, V
  <2> QED
    BY <1>2, <2>1
<1> HIDE DEF n, D
<1>4. \A id \in D : Z[id] = W[id]
  OBVIOUS
<1>5. ASSUME NEW id \in D, ~ (id < Sigma)
      PROVE  LET t == id - Sigma + 1
             IN  t \in 1 .. n /\ Sigma - 1 + t = id /\ d[t].parent \in D
  <2> DEFINE t == id - Sigma + 1
  <2>1. t \in 1 .. n /\ Sigma - 1 + t = id
    BY <1>1, <1>5
  <2> HIDE DEF t
  <2>2. d[t].parent \in 0 .. Sigma + t - 2
    BY <2>1 DEF Spells, n
  <2>3. d[t].parent \in D
    BY <1>1, <2>1, <2>2
  <2> QED
    BY <2>1, <2>3 DEF t
<1>6. ASSUME NEW f, NEW id \in D, id < Sigma PROVE Step(f, id) = <<id>> /\ Letters[id] = <<id>>
  <2>1. id \in Literal
    BY <1>1, <1>6 DEF Literal
  <2> QED
    BY <1>2, <1>6, <2>1 DEF Letters
<1>7. ASSUME NEW f, NEW id \in D, ~ (id < Sigma)
      PROVE  Step(f, id) = Append(f[d[id - Sigma + 1].parent], d[id - Sigma + 1].c)
  <2>1. d[id - Sigma + 1].parent # Dms
    BY <1>2, <1>5, <1>7
  <2> QED
    BY <1>2, <1>7, <2>1
<1> HIDE DEF Step
<1>8. ASSUME NEW id \in D PROVE Z[id] = Step(Z, id)
  <2>1. CASE id < Sigma
    <3>1. id \in 0 .. Sigma - 1
      BY <1>1, <2>1
    <3>2. W[id] = Letters[id]
      BY <3>1 DEF Spells
    <3> HIDE DEF Z
    <3> QED
      BY <1>4, <1>6, <2>1, <3>2
  <2>2. CASE ~ (id < Sigma)
    <3> DEFINE t == id - Sigma + 1
    <3>1. t \in 1 .. n /\ Sigma - 1 + t = id /\ d[t].parent \in D
      BY <1>5, <2>2
    <3>2. Step(Z, id) = Append(Z[d[t].parent], d[t].c)
      BY <1>7, <2>2
    <3> HIDE DEF t, Z
    <3>3. W[id] = Append(W[d[t].parent], d[t].c)
      BY <3>1 DEF Spells, n
    <3> QED
      BY <1>4, <3>1, <3>2, <3>3
  <2> QED
    BY <2>1, <2>2
<1>9. Z = [id \in D |-> Step(Z, id)]
  <2>1. Z = [id \in D |-> Z[id]]
    OBVIOUS
  <2> HIDE DEF Z
  <2> QED
    BY <1>8, <2>1
<1>10. V = [id \in D |-> Step(V, id)]
  <2> HIDE DEF Z
  <2> QED
    BY <1>9, Zenon DEF V
<1> HIDE DEF Z, V
<1>11. Spells(V, n, d, Sigma, Letters)
  <2>1. ASSUME NEW id \in 0 .. Sigma - 1 PROVE V[id] = Letters[id]
    <3>1. id \in D /\ id < Sigma
      BY <1>1
    <3> QED
      BY <1>6, <1>10, <3>1
  <2>2. ASSUME NEW t \in 1 .. n
        PROVE  /\ d[t].parent \in 0 .. Sigma + t - 2
               /\ V[Sigma - 1 + t] = Append(V[d[t].parent], d[t].c)
    <3> DEFINE j == Sigma - 1 + t
    <3>1. j \in D /\ ~ (j < Sigma) /\ j - Sigma + 1 = t
      BY <1>1
    <3>2. d[t].parent \in 0 .. Sigma + t - 2
      BY DEF Spells, n
    <3> HIDE DEF j
    <3>3. Step(V, j) = Append(V[d[t].parent], d[t].c)
      BY <1>7, <3>1
    <3>4. V[j] = Append(V[d[t].parent], d[t].c)
      BY <1>10, <3>1, <3>3
    <3> QED
      BY <3>2, <3>4 DEF j
  <2> QED
    BY <2>1, <2>2 DEF Spells
<1>12. \A id \in 0 .. Sigma + n - 1 : V[id] = W[id]
  BY <1>1, <1>11, SpellingUnique DEF n
<1> QED
  BY <1>1, <1>3, <1>12 DEF D

\* A dictionary without entries, and one with another entry.
LEMMA WindowEmpty ==
  ASSUME NEW ks, NEW s, NEW b, NEW lo
  PROVE  Window(ks, s, b, lo, 0) = <<>>
<1> DEFINE D == Window(ks, s, b, lo, 0)
<1>1. DOMAIN D = 1 .. 0 /\ D = [t \in 1 .. 0 |-> D[t]]
  BY DEF Window
<1> HIDE DEF D
<1>2. D \in [1 .. 0 -> Nat]
  BY <1>1
<1>3. D \in Seq(Nat) /\ Len(D) = 0
  BY <1>1, <1>2, LengthOf, SeqDef
<1>4. D = <<>>
  BY <1>3, EmptySeq
<1> QED
  BY <1>4 DEF D

\* An entry is inserted into a window by lengthening it.
LEMMA WindowGrows ==
  ASSUME NEW ks, NEW s, NEW b, NEW lo \in Nat, NEW a \in Nat
  PROVE  Insert(Window(ks, s, b, lo, a), ks[lo + (a + 1)], s[b[lo + (a + 1)] + 1])
           = Window(ks, s, b, lo, a + 1)
<1> DEFINE X == {Entry(ks, s, b, lo + t) : t \in 1 .. a + 1}
           D == Window(ks, s, b, lo, a)
           E == Window(ks, s, b, lo, a + 1)
           e == Entry(ks, s, b, lo + (a + 1))
<1>1. Insert(D, ks[lo + (a + 1)], s[b[lo + (a + 1)] + 1]) = Append(D, e)
  BY Zenon DEF Insert, Entry, e
<1>2. e \in X /\ \A t \in 1 .. a + 1 : Entry(ks, s, b, lo + t) \in X
  OBVIOUS
<1>3. /\ DOMAIN D = 1 .. a /\ D \in [1 .. a -> X]
      /\ \A t \in 1 .. a : D[t] = Entry(ks, s, b, lo + t)
  BY <1>2 DEF Window
<1>4. /\ DOMAIN E = 1 .. a + 1 /\ E \in [1 .. a + 1 -> X] /\ E[a + 1] = e
      /\ \A t \in 1 .. a : E[t] = Entry(ks, s, b, lo + t)
  <2> DEFINE c == a + 1
  <2>1. c \in 1 .. c /\ \A t \in 1 .. a : t \in 1 .. c
    OBVIOUS
  <2>2. DOMAIN E = 1 .. c /\ \A t \in 1 .. c : E[t] = Entry(ks, s, b, lo + t)
    BY DEF Window
  <2>3. E = [t \in 1 .. c |-> E[t]]
    BY DEF Window
  <2>4. \A t \in 1 .. c : Entry(ks, s, b, lo + t) \in X
    BY <1>2
  <2> HIDE DEF c, E, X
  <2>5. E \in [1 .. c -> X] /\ E[c] = Entry(ks, s, b, lo + c)
    BY <2>1, <2>2, <2>3, <2>4
  <2> QED
    BY <2>1, <2>2, <2>5 DEF c
<1> HIDE DEF D, E, X, e
<1>5. D \in Seq(X) /\ Len(D) = a
  BY <1>3, LengthOf, SeqDef
<1>6. E \in Seq(X) /\ Len(E) = a + 1
  <2> DEFINE c == a + 1
  <2>1. c \in Nat /\ DOMAIN E = 1 .. c /\ E \in [1 .. c -> X]
    BY <1>4
  <2> HIDE DEF c
  <2>2. E \in Seq(X) /\ Len(E) = c
    BY <2>1, LengthOf, SeqDef
  <2> QED
    BY <2>2 DEF c
<1>7. /\ Append(D, e) \in Seq(X) /\ Len(Append(D, e)) = a + 1
      /\ Append(D, e)[a + 1] = e /\ \A t \in 1 .. a : Append(D, e)[t] = D[t]
  BY <1>2, <1>5, LengthAppend
<1>8. \A t \in 1 .. Len(E) : Append(D, e)[t] = E[t]
  <2>1. \A t \in 1 .. a + 1 : t = a + 1 \/ t \in 1 .. a
    OBVIOUS
  <2> QED
    BY <1>3, <1>4, <1>6, <1>7, <2>1
<1>9. Append(D, e) = E
  BY <1>6, <1>7, <1>8, SeqEqual
<1> QED
  BY <1>1, <1>9 DEF D, E

\* The first m entries are the same.
Alike(T, B, s, b, m) ==
  \A j \in 1 .. m : Extended(T, B, j) = Extended(s, b, j) /\ T[B[j] + 1] = s[b[j] + 1]

\* Text behind the entries does not change them,
LEMMA AppendAlike ==
  ASSUME NEW s \in Seq(Literal), NEW c \in Literal, NEW n \in Nat, NEW b,
         b \in [0 .. n -> 0 .. Len(s)], NEW m \in 0 .. n, Within(s, b, m)
  PROVE  Alike(Append(s, c), b, s, b, m)
<1>1. /\ Len(s) \in Nat /\ \A i \in 1 .. Len(s) : Append(s, c)[i] = s[i]
  BY LengthAppend
<1>2. ASSUME NEW j \in 1 .. m
      PROVE  Extended(Append(s, c), b, j) = Extended(s, b, j) /\ Append(s, c)[b[j] + 1] = s[b[j] + 1]
  <2>1. j - 1 \in 0 .. n /\ j \in 0 .. n /\ j \in 1 .. m
    OBVIOUS
  <2>2. b[j - 1] \in Nat /\ b[j] \in 0 .. Len(s) /\ b[j] < Len(s)
    BY <1>1, <2>1 DEF Within
  <2> DEFINE x == b[j - 1]
             y == b[j] + 1
  <2>3. x \in Nat /\ y \in 0 .. Len(s) /\ y \in 1 .. Len(s)
    BY <1>1, <2>2
  <2> HIDE DEF x, y
  <2>4. SubSeq(Append(s, c), x + 1, y) = SubSeq(s, x + 1, y) /\ Append(s, c)[y] = s[y]
    BY <1>1, <2>3, SpanKept
  <2> QED
    BY <2>4, Zenon DEF Extended, x, y
<1> QED
  BY <1>2 DEF Alike

\* nor does a further boundary.
LEMMA LongerAlike ==
  ASSUME NEW s, NEW n \in Nat, NEW b, NEW x
  PROVE  Alike(s, Longer(b, n, x), s, b, n)
<1> DEFINE B == Longer(b, n, x)
<1>1. \A k \in 0 .. n : B[k] = b[k]
  BY DEF Longer
<1> HIDE DEF B
<1>2. \A j \in 1 .. n : B[j] = b[j] /\ B[j - 1] = b[j - 1]
  <2>1. \A j \in 1 .. n : j \in 0 .. n /\ j - 1 \in 0 .. n
    OBVIOUS
  <2> QED
    BY <1>1, <2>1
<1> QED
  BY <1>2 DEF Alike, Extended, B

\* The same entries spell the same phrases
LEMMA SpelledAlike ==
  ASSUME NEW T, NEW B, NEW s, NEW b, NEW m \in Nat, Alike(T, B, s, b, m),
         NEW lo \in Nat, NEW a \in Nat, lo + a <= m, NEW k \in Nat, k < Sigma + a
  PROVE  Spelled(T, B, lo, k) = Spelled(s, b, lo, k)
<1>1. CASE k < Sigma
  BY <1>1 DEF Spelled
<1>2. CASE ~ (k < Sigma)
  <2> DEFINE j == lo + (k - Sigma + 1)
  <2>1. j \in 1 .. m
    BY <1>2, LZWAssumption
  <2> HIDE DEF j
  <2>2. Extended(T, B, j) = Extended(s, b, j)
    BY <2>1 DEF Alike
  <2> QED
    BY <1>2, <2>2 DEF Spelled, j
<1> QED
  BY <1>1, <1>2

\* and make the same window.
LEMMA WindowAlike ==
  ASSUME NEW T, NEW B, NEW s, NEW b, NEW m \in Nat, Alike(T, B, s, b, m),
         NEW lo \in Nat, NEW a \in Nat, lo + a <= m,
         NEW K, NEW ks, \A i \in 1 .. m : K[i] = ks[i]
  PROVE  Window(K, T, B, lo, a) = Window(ks, s, b, lo, a)
<1>1. ASSUME NEW t \in 1 .. a PROVE Entry(K, T, B, lo + t) = Entry(ks, s, b, lo + t)
  <2>1. lo + t \in 1 .. m
    OBVIOUS
  <2> QED
    BY <2>1 DEF Alike, Entry
<1> QED
  BY <1>1 DEF Window

\* A parsed text stays parsed when it grows,
LEMMA ParsedKept ==
  ASSUME NEW s \in Seq(Literal), NEW c \in Literal, NEW l, Limit(l), NEW n \in Nat,
         NEW ks, NEW b, Parsed(l, ks, n, s, b), NEW m \in 0 .. n, n <= m + 1, Within(s, b, m)
  PROVE  Parsed(l, ks, n, Append(s, c), b) /\ Within(Append(s, c), b, n)
<1> DEFINE T == Append(s, c)
<1>1. Len(s) \in Nat /\ Len(T) = Len(s) + 1
  BY LengthAppend
<1>2. b \in [0 .. n -> 0 .. Len(s)] /\ b[0] = 0 /\ ks \in [1 .. n -> Nat]
  BY DEF Parsed
<1>3. Alike(T, b, s, b, m)
  BY <1>2, AppendAlike
<1> HIDE DEF T
<1>4. b \in [0 .. n -> 0 .. Len(T)]
  BY <1>1, <1>2
<1>5. ASSUME NEW i \in 1 .. n
      PROVE  /\ b[i - 1] < b[i] /\ ks[i] < Sigma + Age(l, i - 1)
             /\ Phrase(T, b, i) = Spelled(T, b, First(l, i - 1), ks[i])
  <2>1. /\ b[i - 1] < b[i] /\ ks[i] < Sigma + Age(l, i - 1) /\ ks[i] \in Nat
        /\ Phrase(s, b, i) = Spelled(s, b, First(l, i - 1), ks[i])
    BY DEF Parsed
  <2>2. Phrase(T, b, i) = Phrase(s, b, i)
    <3> DEFINE x == b[i - 1]
               y == b[i]
    <3>1. x \in Nat /\ y \in 0 .. Len(s)
      BY <1>1, <1>2
    <3> HIDE DEF x, y
    <3>2. SubSeq(T, x + 1, y) = SubSeq(s, x + 1, y)
      BY <3>1, SpanKept DEF T
    <3> QED
      BY <3>2, Zenon DEF Phrase, x, y
  <2>3. Spelled(T, b, First(l, i - 1), ks[i]) = Spelled(s, b, First(l, i - 1), ks[i])
    <3> DEFINE j == i - 1
               lo == First(l, j)
               a == Age(l, j)
    <3>1. j \in Nat /\ j <= m /\ m \in Nat
      OBVIOUS
    <3>2. a \in 0 .. j /\ lo \in 0 .. j
      BY <3>1, AgeFacts, FreshFacts
    <3>3. lo + a <= m
      <4>1. lo = j - a
        BY DEF First
      <4> HIDE DEF j, lo, a
      <4> QED
        BY <3>1, <3>2, <4>1
    <3>4. ks[i] \in Nat /\ ks[i] < Sigma + a
      BY <2>1
    <3> DEFINE k == ks[i]
    <3>5. k \in Nat /\ k < Sigma + a /\ lo \in Nat /\ a \in Nat
      <4> HIDE DEF j, lo, a
      <4> QED
        BY <3>1, <3>2, <3>4
    <3> HIDE DEF j, lo, a, k
    <3>6. Spelled(T, b, lo, k) = Spelled(s, b, lo, k)
      BY <1>3, <3>1, <3>3, <3>5, SpelledAlike
    <3> QED
      BY <3>6 DEF j, lo, k
  <2> QED
    BY <2>1, <2>2, <2>3
<1>6. Within(T, b, n)
  <2> SUFFICES ASSUME NEW i \in 1 .. n PROVE b[i] < Len(T)
    BY DEF Within
  <2>1. b[i] \in 0 .. Len(s)
    BY <1>2
  <2> QED
    BY <1>1, <2>1
<1> QED
  BY <1>2, <1>4, <1>5, <1>6 DEF Parsed, T

More(ks, n, k) == [i \in 1 .. n + 1 |-> IF i = n + 1 THEN k ELSE ks[i]]

\* What is left of s behind n phrases is the phrase of node k.
LastPhrase(l, n, s, b, k) ==
  /\ k \in Nat /\ k < Sigma + Age(l, n) /\ b[n] < Len(s)
  /\ SubSeq(s, b[n] + 1, Len(s)) = Spelled(s, b, First(l, n), k)

\* and when its rest is another phrase.
LEMMA ParsedGrows ==
  ASSUME NEW l, Limit(l), NEW n \in Nat, NEW s \in Seq(Literal), NEW ks, NEW b,
         Parsed(l, ks, n, s, b), NEW k, LastPhrase(l, n, s, b, k)
  PROVE  LET K == More(ks, n, k)
             B == Longer(b, n, Len(s))
         IN  /\ Parsed(l, K, n + 1, s, B) /\ Alike(s, B, s, b, n)
             /\ K[n + 1] = k /\ \A i \in 1 .. n : K[i] = ks[i]
             /\ B[n + 1] = Len(s) /\ \A i \in 0 .. n : B[i] = b[i]
<1> DEFINE K == More(ks, n, k)
           B == Longer(b, n, Len(s))
<1>0. Len(s) \in Nat
  BY LenProperties
<1>1. /\ b \in [0 .. n -> 0 .. Len(s)] /\ b[0] = 0 /\ ks \in [1 .. n -> Nat]
      /\ \A i \in 1 .. n :
           /\ b[i - 1] < b[i] /\ ks[i] < Sigma + Age(l, i - 1)
           /\ Phrase(s, b, i) = Spelled(s, b, First(l, i - 1), ks[i])
  BY DEF Parsed
<1>2. /\ k \in Nat /\ k < Sigma + Age(l, n) /\ b[n] < Len(s)
      /\ SubSeq(s, b[n] + 1, Len(s)) = Spelled(s, b, First(l, n), k)
  BY DEF LastPhrase
<1>3. B \in [0 .. n + 1 -> 0 .. Len(s)] /\ B[n + 1] = Len(s) /\ \A i \in 0 .. n : B[i] = b[i]
  BY <1>0, <1>1 DEF Longer
<1>4. K \in [1 .. n + 1 -> Nat] /\ K[n + 1] = k /\ \A i \in 1 .. n : K[i] = ks[i]
  BY <1>1, <1>2 DEF More
<1>5. Alike(s, B, s, b, n)
  BY LongerAlike
<1> HIDE DEF K, B
<1>6. ASSUME NEW j \in 0 .. n, NEW e \in Nat, e < Sigma + Age(l, j)
      PROVE  Spelled(s, B, First(l, j), e) = Spelled(s, b, First(l, j), e)
  <2> DEFINE lo == First(l, j)
             a == Age(l, j)
  <2>0. j \in Nat
    OBVIOUS
  <2>1. a \in 0 .. j /\ lo \in 0 .. j /\ lo = j - a
    <3>1. Age(l, j) \in 0 .. j
      BY <2>0, AgeFacts
    <3>2. First(l, j) \in 0 .. j
      BY <2>0, FreshFacts
    <3> QED
      BY <3>1, <3>2 DEF First
  <2>2. e < Sigma + a
    BY <1>6
  <2> HIDE DEF lo, a
  <2>3. lo \in Nat /\ a \in Nat /\ lo + a <= n
    BY <2>1
  <2>4. Spelled(s, B, lo, e) = Spelled(s, b, lo, e)
    BY <1>5, <2>2, <2>3, SpelledAlike
  <2> QED
    BY <2>4 DEF lo
<1>7. ASSUME NEW i \in 1 .. n + 1
      PROVE  /\ B[i - 1] < B[i] /\ K[i] < Sigma + Age(l, i - 1)
             /\ Phrase(s, B, i) = Spelled(s, B, First(l, i - 1), K[i])
  <2>1. CASE i = n + 1
    <3>1. i - 1 = n /\ n \in 0 .. n
      BY <2>1
    <3>2. B[i - 1] = b[n] /\ B[i] = Len(s) /\ K[i] = k
      BY <1>3, <1>4, <2>1, <3>1
    <3>3. Phrase(s, B, i) = SubSeq(s, b[n] + 1, Len(s))
      BY <3>2 DEF Phrase
    <3>4. Spelled(s, B, First(l, n), k) = Spelled(s, b, First(l, n), k)
      BY <1>2, <1>6, <3>1
    <3> QED
      BY <1>2, <3>1, <3>2, <3>3, <3>4
  <2>2. CASE i # n + 1
    <3>1. i \in 1 .. n /\ i - 1 \in 0 .. n /\ i \in 0 .. n
      BY <2>2
    <3>2. B[i - 1] = b[i - 1] /\ B[i] = b[i] /\ K[i] = ks[i]
      BY <1>3, <1>4, <3>1
    <3>3. Phrase(s, B, i) = Phrase(s, b, i)
      BY <3>2 DEF Phrase
    <3>4. ks[i] \in Nat /\ ks[i] < Sigma + Age(l, i - 1)
      BY <1>1, <3>1
    <3>5. Spelled(s, B, First(l, i - 1), ks[i]) = Spelled(s, b, First(l, i - 1), ks[i])
      BY <1>6, <3>1, <3>4
    <3> QED
      BY <1>1, <3>1, <3>2, <3>3, <3>5
  <2> QED
    BY <2>1, <2>2
<1>8. B[0] = 0
  BY <1>1, <1>3
<1>9. Parsed(l, K, n + 1, s, B)
  BY <1>3, <1>4, <1>7, <1>8 DEF Parsed
<1> QED
  BY <1>3, <1>4, <1>5, <1>9 DEF K, B

-----------------------------------------------------------------------------
(* The inductive invariant.                                                *)

\* What the theorems suppose of the options.  Without a limit the numbers of the
\* nodes stay below the sentinel.  A limit is above the number of roots; and if
\* codes are written in binary, it has the width of the number of roots, as the
\* two sides may use different ranges behind the first reset.
Sizes ==
  \A o \in Setups :
    IF o.limit = 0
    THEN Sigma + MaxLen < DmsMax /\ (o.binary => Sigma + MaxLen < 2 ^ 64)
    ELSE /\ o.limit > Sigma
         /\ o.binary => o.limit < 2 ^ 64 /\ BitsFor(o.limit) = BitsFor(Sigma)

\* The factors as they are written.
Code(k, i) == Encoded(setup.binary, k, Age(setup.limit, i - 1) + Sigma)
Codes(ks, n) == [i \in 1 .. n |-> Code(ks[i], i)]

TypeInv ==
  /\ setup \in Setups /\ sent \in Seq(Literal) /\ closed \in BOOLEAN
  /\ Len(sent) <= MaxLen /\ wire \in Seq(Nat)
  /\ node \in Nat /\ factors \in Nat /\ counter \in Nat /\ failed \in BOOLEAN

\* n factors parse the text; m of them have left their entries in the dictionary,
\* which is a trie, or a new one was begun.
EncInv(n, m, ks, b) ==
  /\ Parsed(setup.limit, ks, n, sent, b) /\ n <= b[n]
  /\ Within(sent, b, m)
  /\ dict = Window(ks, sent, b, First(setup.limit, m), Age(setup.limit, m))
  /\ Distinct(dict, Age(setup.limit, m))
  /\ IF sent = <<>> THEN n = 0 ELSE LastPhrase(setup.limit, m, sent, b, node)
  /\ IF closed THEN n = (IF sent = <<>> THEN 0 ELSE m + 1) /\ b[n] = Len(sent)
               ELSE n = m /\ factors = Age(setup.limit, m)

\* The decoder has read r factors; its dictionary is the one the encoder had for
\* the last of them, with the entry of the last but one.
DecInv(n, ks, b, at, r) ==
  /\ Framed(n, Codes(ks, n), wire, at)
  /\ ~closed => r = 0
  /\ pos = at[r] /\ got = SubSeq(sent, 1, b[r]) /\ ~failed
  /\ prev = IF r = 0 THEN Dms ELSE ks[r]
  /\ ddict = IF r < 2 THEN <<>>
             ELSE Window(ks, sent, b, First(setup.limit, r - 2), Age(setup.limit, r - 2) + 1)
  /\ counter <= Len(ddict) + 1
  /\ setup.limit = 0 \/ r = 0 => counter = r

LZWInv ==
  /\ TypeInv
  /\ \E n \in 0 .. Len(sent) : \E m \in 0 .. n, r \in 0 .. n :
       \E ks \in [1 .. n -> Nat], b \in [0 .. n -> 0 .. Len(sent)],
          at \in [0 .. n -> 0 .. Len(wire)] :
         EncInv(n, m, ks, b) /\ DecInv(n, ks, b, at, r)

\* The ranges: nodes stay below the sentinel, and fit into the machine's words.
LEMMA Ranges ==
  ASSUME Sizes, setup \in Setups, NEW n \in Nat, n <= MaxLen
  PROVE  /\ Limit(setup.limit) /\ setup.binary \in BOOLEAN /\ Dms \in Nat /\ Dms > Sigma
         /\ Age(setup.limit, n) \in 0 .. n /\ Sigma \in Nat \ {0}
         /\ Sigma + Age(setup.limit, n) < Dms
         /\ Fits(setup.binary, Age(setup.limit, n) + Sigma)
<1> DEFINE l == setup.limit
           a == Age(l, n)
           top == 2 ^ 64
<1>1. l \in Nat /\ setup.binary \in BOOLEAN
  BY LZWAssumption
<1>2. Sigma \in Nat \ {0} /\ MaxLen \in Nat /\ DmsMax \in Nat
  BY LZWAssumption
<1>3. IF l = 0
      THEN Sigma + MaxLen < DmsMax /\ (setup.binary => Sigma + MaxLen < top)
      ELSE l > Sigma /\ (setup.binary => l < top)
  BY DEF Sizes
<1>4. top \in Nat
  BY PowerNext
<1> HIDE DEF l, top
<1>5. Limit(l)
  BY <1>1, <1>3 DEF Limit
<1>6. a \in 0 .. n /\ (l # 0 => Sigma + a < l)
  BY <1>5, AgeFacts
<1> HIDE DEF a
<1>7. Dms = IF l = 0 THEN DmsMax ELSE l
  BY DEF Dms, l
<1>8. Dms \in Nat /\ Dms > Sigma /\ Sigma + a < Dms
  <2>1. CASE l = 0
    BY <1>2, <1>3, <1>6, <1>7, <2>1
  <2>2. CASE l # 0
    BY <1>1, <1>2, <1>3, <1>6, <1>7, <2>2
  <2> QED
    BY <2>1, <2>2
<1>9. setup.binary => a + Sigma < top
  <2>1. CASE l = 0
    BY <1>2, <1>3, <1>4, <1>6, <2>1
  <2>2. CASE l # 0
    BY <1>1, <1>2, <1>3, <1>4, <1>6, <2>2
  <2> QED
    BY <2>1, <2>2
<1> QED
  BY <1>1, <1>2, <1>5, <1>6, <1>8, <1>9 DEF l, a, top, Fits

\* The encoder's dictionary is one of the text.
LEMMA DictFacts ==
  ASSUME Sizes, TypeInv, NEW n \in 0 .. Len(sent), NEW m \in 0 .. n, NEW ks, NEW b,
         EncInv(n, m, ks, b)
  PROVE  LET lo == First(setup.limit, m)
             a == Age(setup.limit, m)
         IN  /\ n \in Nat /\ n <= MaxLen /\ m \in Nat /\ m <= n
             /\ lo \in 0 .. m /\ a \in 0 .. m /\ lo + a = m
             /\ Dictionary(setup.limit, sent, n, ks, b, lo, a)
             /\ Len(dict) = a
<1> DEFINE l == setup.limit
           lo == First(l, m)
           a == Age(l, m)
<1>1. Len(sent) \in Nat /\ MaxLen \in Nat /\ Len(sent) <= MaxLen /\ sent \in Seq(Literal)
  BY LZWAssumption, LenProperties DEF TypeInv
<1>2. n \in Nat /\ n <= MaxLen /\ m \in Nat /\ m <= n /\ m <= MaxLen
  BY <1>1
<1>3. Limit(l) /\ a \in 0 .. m
  BY <1>2, Ranges DEF TypeInv
<1>4. lo \in 0 .. m /\ Fresh(l, lo, a + 1) /\ lo = m - a
  BY <1>2, <1>3, FreshFacts DEF First
<1> HIDE DEF lo, a
<1>5. lo + a = m /\ lo \in Nat /\ a \in Nat /\ lo + a <= n
  BY <1>2, <1>3, <1>4
<1>6. Fresh(l, lo, a)
  <2>1. \A t \in 1 .. a : t \in 1 .. a + 1
    BY <1>5
  <2> QED
    BY <1>4, <2>1 DEF Fresh
<1>7. Parsed(l, ks, n, sent, b) /\ Within(sent, b, m)
  BY DEF EncInv
<1>8. Dictionary(l, sent, n, ks, b, lo, a)
  <2> HIDE DEF l
  <2> QED
    BY <1>1, <1>2, <1>3, <1>5, <1>6, <1>7 DEF Dictionary
<1>9. dict = Window(ks, sent, b, lo, a)
  BY DEF EncInv, lo, a
<1>10. Len(dict) = a
  BY <1>8, <1>9, WindowFacts
<1> QED
  BY <1>2, <1>3, <1>4, <1>5, <1>8, <1>10 DEF l, lo, a

\* The decoder has not begun.
Idle == pos = 0 /\ got = <<>> /\ prev = Dms /\ ddict = <<>> /\ counter = 0 /\ ~failed

\* A decoder that has not begun is at factor 0.
LEMMA IdleIs ==
  ASSUME NEW n \in Nat, NEW ks, NEW b, b[0] = 0, NEW at, Framed(n, Codes(ks, n), wire, at)
  PROVE  DecInv(n, ks, b, at, 0) <=> Idle
<1>1. at[0] = 0
  BY DEF Framed
<1>2. SubSeq(sent, 1, b[0]) = <<>>
  BY SubSeqEmpty
<1>3. Len(<<>>) = 0 /\ 0 \in 0 .. n
  OBVIOUS
<1>4. ASSUME Idle PROVE DecInv(n, ks, b, at, 0)
  BY <1>1, <1>2, <1>3, <1>4 DEF DecInv, Idle
<1>5. ASSUME DecInv(n, ks, b, at, 0) PROVE Idle
  <2>1. pos = 0 /\ ~failed
    BY <1>1, <1>5 DEF DecInv
  <2>2. prev = Dms /\ counter = 0
    BY <1>5 DEF DecInv
  <2>3. ddict = <<>>
    <3>1. ddict = IF 0 < 2 THEN <<>> ELSE
            Window(ks, sent, b, First(setup.limit, 0 - 2), Age(setup.limit, 0 - 2) + 1)
      BY <1>5, Zenon DEF DecInv
    <3> QED
      BY <3>1
  <2>4. got = <<>>
    BY <1>2, <1>5, Zenon DEF DecInv
  <2> QED
    BY <2>1, <2>2, <2>3, <2>4 DEF Idle
<1> QED
  BY <1>4, <1>5

\* The invariant holds at the start.
LEMMA InvInit == ASSUME Sizes, Init PROVE LZWInv
<1> DEFINE ks == [i \in 1 .. 0 |-> 0]
           z == [i \in 0 .. 0 |-> 0]
<1>1. /\ setup \in Setups /\ sent = <<>> /\ ~closed /\ closed \in BOOLEAN /\ dict = <<>>
      /\ node = Dms /\ factors = 0 /\ wire = <<>> /\ failed \in BOOLEAN /\ Idle
  BY DEF Init, Idle
<1>2. Len(<<>>) = 0 /\ <<>> \in Seq(Literal) /\ <<>> \in Seq(Nat) /\ 0 <= MaxLen /\ MaxLen \in Nat
  BY LZWAssumption
<1>3. Limit(setup.limit) /\ Dms \in Nat
  BY <1>1, <1>2, Ranges
<1>4. Age(setup.limit, 0) = 0 /\ First(setup.limit, 0) = 0
  BY <1>3, AgeFacts DEF First
<1>5. TypeInv
  BY <1>1, <1>2, <1>3 DEF TypeInv, Idle
<1>6. /\ ks \in [1 .. 0 -> Nat] /\ z \in [0 .. 0 -> 0 .. Len(sent)]
      /\ z \in [0 .. 0 -> 0 .. Len(wire)] /\ z[0] = 0
  BY <1>1, <1>2
<1> HIDE DEF ks, z
<1>7. EncInv(0, 0, ks, z)
  <2>1. Parsed(setup.limit, ks, 0, sent, z)
    BY <1>6 DEF Parsed
  <2>2. Window(ks, sent, z, 0, 0) = <<>>
    BY WindowEmpty
  <2> QED
    BY <1>1, <1>4, <1>6, <2>1, <2>2 DEF EncInv, Within, Distinct
<1>8. DecInv(0, ks, z, z, 0)
  <2>1. Framed(0, Codes(ks, 0), wire, z)
    BY <1>1, <1>2, <1>6 DEF Framed
  <2> QED
    BY <1>1, <1>6, <2>1, IdleIs
<1>9. 0 \in 0 .. 0 /\ 0 \in 0 .. Len(sent)
  BY <1>1, <1>2
<1> QED
  BY <1>5, <1>6, <1>7, <1>8, <1>9 DEF LZWInv

\* While the compressor runs, all factors have left their entries, and the decoder waits.
LEMMA Running ==
  ASSUME LZWInv, ~closed
  PROVE  \E n \in 0 .. Len(sent) :
           \E ks \in [1 .. n -> Nat], b \in [0 .. n -> 0 .. Len(sent)],
              at \in [0 .. n -> 0 .. Len(wire)] :
             EncInv(n, n, ks, b) /\ Framed(n, Codes(ks, n), wire, at) /\ Idle
<1>1. PICK n \in 0 .. Len(sent) : \E m \in 0 .. n, r \in 0 .. n :
        \E ks \in [1 .. n -> Nat], b \in [0 .. n -> 0 .. Len(sent)],
           at \in [0 .. n -> 0 .. Len(wire)] :
          EncInv(n, m, ks, b) /\ DecInv(n, ks, b, at, r)
  BY DEF LZWInv
<1>2. PICK m \in 0 .. n, r \in 0 .. n :
        \E ks \in [1 .. n -> Nat], b \in [0 .. n -> 0 .. Len(sent)],
           at \in [0 .. n -> 0 .. Len(wire)] :
          EncInv(n, m, ks, b) /\ DecInv(n, ks, b, at, r)
  BY <1>1
<1>3. PICK ks \in [1 .. n -> Nat], b \in [0 .. n -> 0 .. Len(sent)],
           at \in [0 .. n -> 0 .. Len(wire)] :
        EncInv(n, m, ks, b) /\ DecInv(n, ks, b, at, r)
  BY <1>2
<1>4. m = n /\ r = 0 /\ Framed(n, Codes(ks, n), wire, at) /\ b[0] = 0 /\ n \in Nat
  <2>1. Len(sent) \in Nat
    BY LenProperties DEF LZWInv, TypeInv
  <2> QED
    BY <1>3, <2>1 DEF EncInv, DecInv, Parsed
<1>5. EncInv(n, n, ks, b) /\ DecInv(n, ks, b, at, 0)
  BY <1>3, <1>4
<1>6. Idle
  BY <1>4, <1>5, IdleIs
<1> QED
  BY <1>4, <1>5, <1>6

\* What has to be shown of a step of the compressor.
LEMMA StillIdle ==
  ASSUME TypeInv', Idle', NEW n, NEW m, (n \in 0 .. Len(sent) /\ m \in 0 .. n)',
         NEW ks, NEW b, NEW at, EncInv(n, m, ks, b)', Framed(n, Codes(ks, n), wire, at)'
  PROVE  LZWInv'
<1>1. Len(sent') \in Nat
  BY LenProperties DEF TypeInv
<1>2. /\ n \in Nat /\ 0 \in 0 .. n /\ at \in [0 .. n -> 0 .. Len(wire')]
      /\ ks \in [1 .. n -> Nat] /\ b \in [0 .. n -> 0 .. Len(sent')] /\ b[0] = 0
  <2>1. n \in Nat /\ 0 \in 0 .. n
    BY <1>1
  <2>2. at \in [0 .. n -> 0 .. Len(wire')]
    BY DEF Framed
  <2>3. Parsed(setup'.limit, ks, n, sent', b)
    BY DEF EncInv
  <2> QED
    BY <2>1, <2>2, <2>3 DEF Parsed
<1>3. DecInv(n, ks, b, at, 0)'
  <2>1. at[0] = 0
    BY DEF Framed
  <2>2. SubSeq(sent', 1, b[0]) = <<>>
    BY <1>2, SubSeqEmpty
  <2>3. Len(<<>>) = 0
    OBVIOUS
  <2> QED
    <3>1. /\ pos' = 0 /\ got' = <<>> /\ prev' = Dms' /\ ddict' = <<>> /\ counter' = 0
          /\ ~failed'
      BY DEF Idle
    <3>2. counter' <= Len(ddict') + 1
      BY <2>3, <3>1
    <3>3. 0 < 2
      OBVIOUS
    <3> QED
      BY <1>2, <2>1, <2>2, <3>1, <3>2, <3>3, Zenon DEF DecInv
<1> QED
  BY <1>2, <1>3 DEF LZWInv

\* The node is coded with the age of the dictionary.
LEMMA Emitted ==
  ASSUME Sizes, TypeInv, NEW n \in 0 .. Len(sent), NEW ks, NEW b, EncInv(n, n, ks, b),
         NEW at, Framed(n, Codes(ks, n), wire, at), ~closed, sent # <<>>
  PROVE  LET u == EncodeFactor(node)
             K == More(ks, n, node)
         IN  u \in Seq(Nat) /\ Framed(n + 1, Codes(K, n + 1), wire \o u,
                                      Longer(at, n, Len(wire) + Len(u)))
<1> DEFINE a == Age(setup.limit, n)
           u == EncodeFactor(node)
           K == More(ks, n, node)
           W == Codes(ks, n)
           V == Codes(K, n + 1)
<1>1. n \in Nat /\ n <= MaxLen
  BY DictFacts
<1>2. a \in 0 .. n /\ setup.binary \in BOOLEAN /\ Fits(setup.binary, a + Sigma) /\ Sigma \in Nat
  BY <1>1, Ranges DEF TypeInv
<1>3. factors = a /\ node \in Nat /\ node < Sigma + a
  BY DEF EncInv, LastPhrase
<1>4. u = Encoded(setup.binary, node, a + Sigma)
  BY <1>3, Zenon DEF EncodeFactor
<1>5. u \in Seq(Nat)
  <2> HIDE DEF a
  <2>1. node \in 0 .. a + Sigma /\ a + Sigma \in Nat
    BY <1>1, <1>2, <1>3
  <2> QED
    BY <1>2, <1>4, <2>1, EncodedFacts
<1>6. Extends(V, W, n, u)
  <2>1. V[n + 1] = Code(K[n + 1], n + 1) /\ \A i \in 1 .. n : V[i] = Code(K[i], i)
    <3>1. n + 1 \in 1 .. n + 1 /\ \A i \in 1 .. n : i \in 1 .. n + 1
      BY <1>1
    <3> HIDE DEF K
    <3> QED
      BY <3>1 DEF Codes
  <2>2. K[n + 1] = node /\ \A i \in 1 .. n : K[i] = ks[i]
    BY <1>1 DEF More
  <2>3. Code(node, n + 1) = u
    <3>1. (n + 1) - 1 = n
      BY <1>1
    <3> QED
      BY <1>4, <3>1 DEF Code
  <2>4. \A i \in 1 .. n : W[i] = Code(ks[i], i)
    BY DEF Codes
  <2> HIDE DEF K, V, W, u
  <2> QED
    BY <2>1, <2>2, <2>3, <2>4 DEF Extends
<1>7. wire \in Seq(Nat) /\ Framed(n, W, wire, at)
  BY DEF TypeInv
<1> HIDE DEF u, V, W
<1>8. Framed(n + 1, V, wire \o u, Longer(at, n, Len(wire) + Len(u)))
  BY <1>1, <1>5, <1>6, <1>7, FramedGrows
<1> QED
  BY <1>5, <1>8 DEF u, V

Grown(ks, s, b, lo, t) ==
  Spelled(s, b, lo, Sigma - 1 + t) = Append(Spelled(s, b, lo, ks[lo + t]), s[b[lo + t] + 1])

LEMMA EntrySpelled ==
  ASSUME NEW l, NEW s, NEW n, NEW ks, NEW b, NEW lo, NEW a, Dictionary(l, s, n, ks, b, lo, a)
  PROVE  \A t \in 1 .. a : Grown(ks, s, b, lo, t)
BY SpelledExtends DEF Grown

\* The first character.
LEMMA InvFirst ==
  ASSUME Sizes, LZWInv, NEW c \in Literal, CompressFirst(c)
  PROVE  LZWInv'
<1>1. /\ ~closed /\ sent = <<>> /\ MaxLen > 0 /\ sent' = <<c>> /\ node' = c /\ setup' = setup
      /\ closed' = closed /\ dict' = dict /\ factors' = factors /\ wire' = wire
      /\ pos' = pos /\ ddict' = ddict /\ prev' = prev /\ counter' = counter
      /\ failed' = failed /\ got' = got
  BY DEF CompressFirst, dec
<1>2. PICK n \in 0 .. Len(sent) :
        \E ks \in [1 .. n -> Nat], b \in [0 .. n -> 0 .. Len(sent)],
           at \in [0 .. n -> 0 .. Len(wire)] :
          EncInv(n, n, ks, b) /\ Framed(n, Codes(ks, n), wire, at) /\ Idle
  BY <1>1, Running
<1>3. PICK ks \in [1 .. n -> Nat], b \in [0 .. n -> 0 .. Len(sent)],
           at \in [0 .. n -> 0 .. Len(wire)] :
        EncInv(n, n, ks, b) /\ Framed(n, Codes(ks, n), wire, at) /\ Idle
  BY <1>2
<1>4. n = 0 /\ TypeInv
  BY <1>1, <1>3 DEF EncInv, LZWInv
<1>5. c \in Nat /\ c < Sigma /\ <<c>> \in Seq(Literal) /\ Len(<<c>>) = 1 /\ <<c>> # <<>>
      /\ MaxLen \in Nat /\ Sigma \in Nat
  BY LZWAssumption DEF Literal
<1>6. TypeInv' /\ Idle'
  BY <1>1, <1>3, <1>4, <1>5 DEF TypeInv, Idle, Dms
<1>7. Limit(setup.limit) /\ Age(setup.limit, 0) = 0 /\ First(setup.limit, 0) = 0
  <2>1. 0 <= MaxLen
    BY <1>5
  <2>2. Limit(setup.limit)
    BY <1>4, <2>1, Ranges DEF TypeInv
  <2> QED
    BY <2>2, AgeFacts DEF First
<1>8. b[0] = 0 /\ ks \in [1 .. 0 -> Nat]
  BY <1>3, <1>4 DEF EncInv, Parsed
<1>9. EncInv(0, 0, ks, b)'
  <2>1. b \in [0 .. 0 -> 0 .. 1]
    BY <1>3, <1>4, <1>8
  <2>2. Parsed(setup.limit, ks, 0, <<c>>, b)
    <3>1. Len(<<c>>) = 1 /\ 1 .. 0 = {}
      OBVIOUS
    <3> QED
      BY <1>8, <2>1, <3>1 DEF Parsed
  <2>3. Window(ks, <<c>>, b, 0, 0) = dict
    BY <1>3, <1>4, <1>7, WindowEmpty DEF EncInv
  <2>4. SubSeq(<<c>>, 1, 1) = <<c>>
    BY <1>5, SubSeqFull
  <2>5. LastPhrase(setup.limit, 0, <<c>>, b, c)
    BY <1>5, <1>7, <1>8, <2>4 DEF LastPhrase, Spelled
  <2>6. factors = 0
    BY <1>1, <1>3, <1>4, <1>7 DEF EncInv
  <2> QED
    BY <1>1, <1>5, <1>7, <1>8, <2>2, <2>3, <2>5, <2>6 DEF EncInv, Within, Distinct
<1>10. Framed(0, Codes(ks, 0), wire, at)'
  <2>1. Codes(ks, 0)' = Codes(ks, 0)
    BY <1>1 DEF Codes, Code
  <2> QED
    BY <1>1, <1>3, <1>4, <2>1
<1>11. 0 \in 0 .. Len(sent') /\ 0 \in 0 .. 0
  BY <1>1, <1>5
<1> QED
  BY <1>6, <1>9, <1>10, <1>11, StillIdle

\* A character that the trie has a child for.
LEMMA InvDescend ==
  ASSUME Sizes, LZWInv, NEW c \in Literal, CompressChar(c), HasChild(dict, node, c)
  PROVE  LZWInv'
<1>1. /\ ~closed /\ sent # <<>> /\ Len(sent) < MaxLen /\ sent' = Append(sent, c)
      /\ node' = Child(dict, Sigma, node, c) /\ setup' = setup
      /\ closed' = closed /\ dict' = dict /\ factors' = factors /\ wire' = wire
      /\ pos' = pos /\ ddict' = ddict /\ prev' = prev /\ counter' = counter
      /\ failed' = failed /\ got' = got
  BY DEF CompressChar, dec
<1>2. PICK n \in 0 .. Len(sent) :
        \E ks \in [1 .. n -> Nat], b \in [0 .. n -> 0 .. Len(sent)],
           at \in [0 .. n -> 0 .. Len(wire)] :
          EncInv(n, n, ks, b) /\ Framed(n, Codes(ks, n), wire, at) /\ Idle
  BY <1>1, Running
<1>3. PICK ks \in [1 .. n -> Nat], b \in [0 .. n -> 0 .. Len(sent)],
           at \in [0 .. n -> 0 .. Len(wire)] :
        EncInv(n, n, ks, b) /\ Framed(n, Codes(ks, n), wire, at) /\ Idle
  BY <1>2
<1>4. TypeInv /\ sent \in Seq(Literal) /\ Len(sent) \in Nat /\ Sigma \in Nat \ {0} /\ MaxLen \in Nat
  BY LZWAssumption, LenProperties DEF LZWInv, TypeInv
<1> DEFINE l == setup.limit
           lo == First(l, n)
           a == Age(l, n)
           D == Dictionary(l, sent, n, ks, b, lo, a)
<1>5. /\ n \in Nat /\ n <= MaxLen /\ lo \in 0 .. n /\ a \in 0 .. n /\ lo + a = n /\ D
      /\ Len(dict) = a
  <2>1. n \in 0 .. n
    BY <1>4
  <2> QED
    BY <1>3, <1>4, <2>1, DictFacts
<1>6. /\ Parsed(l, ks, n, sent, b) /\ Within(sent, b, n) /\ n <= b[n]
      /\ dict = Window(ks, sent, b, lo, a)
      /\ node \in Nat /\ node < Sigma + a /\ b[n] < Len(sent)
      /\ SubSeq(sent, b[n] + 1, Len(sent)) = Spelled(sent, b, lo, node)
  BY <1>1, <1>3 DEF EncInv, LastPhrase
<1>7. Limit(l) /\ b \in [0 .. n -> 0 .. Len(sent)]
  BY <1>4, <1>5, <1>6, Ranges DEF TypeInv, Parsed
<1> HIDE DEF lo, a, D
<1>8. PICK i \in 1 .. a : /\ ks[lo + i] = node /\ sent[b[lo + i] + 1] = c
                          /\ node' = Sigma - 1 + i
  <2> DEFINE k == CHOOSE i \in 1 .. Len(dict) : dict[i].parent = node /\ dict[i].c = c
  <2>1. k \in 1 .. a /\ dict[k].parent = node /\ dict[k].c = c
    BY <1>5 DEF HasChild
  <2>2. node' = Sigma - 1 + k
    BY <1>1 DEF Child
  <2> HIDE DEF k
  <2>3. dict[k] = [parent |-> ks[lo + k], c |-> sent[b[lo + k] + 1]]
    BY <1>6, <2>1 DEF Window, Entry
  <2>4. dict[k].parent = ks[lo + k] /\ dict[k].c = sent[b[lo + k] + 1]
    BY <2>3
  <2>5. k \in 1 .. a /\ ks[lo + k] = node /\ sent[b[lo + k] + 1] = c
    BY <2>1, <2>4, Zenon
  <2> QED
    BY <2>2, <2>5, Zenon
<1> DEFINE T == Append(sent, c)
<1>9. T \in Seq(Literal) /\ Len(T) = Len(sent) + 1 /\ T # <<>>
  <2>1. T \in Seq(Literal) /\ Len(T) = Len(sent) + 1
    BY <1>4, LengthAppend
  <2>2. Len(<<>>) = 0
    OBVIOUS
  <2> HIDE DEF T
  <2> QED
    BY <1>4, <2>1, <2>2
<1>10. Alike(T, b, sent, b, n)
  <2>1. n \in 0 .. n
    BY <1>5
  <2> QED
    BY <1>4, <1>5, <1>6, <1>7, <2>1, AppendAlike
<1>11. Parsed(l, ks, n, T, b) /\ Within(T, b, n)
  <2>1. n \in 0 .. n /\ n <= n + 1
    BY <1>5
  <2> QED
    BY <1>4, <1>5, <1>6, <1>7, <2>1, ParsedKept
<1>12. SubSeq(T, b[n] + 1, Len(T)) = Append(SubSeq(sent, b[n] + 1, Len(sent)), c)
  <2> DEFINE x == b[n]
  <2>1. x \in 0 .. Len(sent)
    BY <1>5, <1>7
  <2> HIDE DEF x
  <2>2. SubSeq(T, x + 1, Len(sent) + 1) = Append(SubSeq(sent, x + 1, Len(sent)), c)
    BY <1>4, <2>1, SpanGrows
  <2> QED
    BY <1>9, <2>2 DEF x
<1> HIDE DEF T
<1>13. Spelled(T, b, lo, node') = Append(Spelled(sent, b, lo, node), c)
  <2>1. Spelled(sent, b, lo, Sigma - 1 + i)
          = Append(Spelled(sent, b, lo, ks[lo + i]), sent[b[lo + i] + 1])
    <3>1. Dictionary(l, sent, n, ks, b, lo, a)
      BY <1>5 DEF D
    <3> HIDE DEF l
    <3>2. Grown(ks, sent, b, lo, i)
      BY <3>1, EntrySpelled
    <3> QED
      BY <3>2 DEF Grown
  <2> DEFINE e == Sigma - 1 + i
  <2>2. e \in Nat /\ e < Sigma + a /\ lo \in Nat /\ a \in Nat /\ lo + a <= n
    BY <1>4, <1>5
  <2> HIDE DEF e
  <2>3. Spelled(T, b, lo, e) = Spelled(sent, b, lo, e)
    BY <1>5, <1>10, <2>2, SpelledAlike
  <2> QED
    BY <1>8, <2>1, <2>3 DEF e
<1>14. LastPhrase(l, n, T, b, node')
  <2>1. node' \in Nat /\ node' < Sigma + a
    BY <1>4, <1>5, <1>8
  <2>2. b[n] < Len(T)
    <3>1. b[n] \in 0 .. Len(sent)
      BY <1>5, <1>7
    <3> QED
      BY <1>4, <1>6, <1>9, <3>1
  <2> QED
    BY <1>6, <1>12, <1>13, <2>1, <2>2 DEF LastPhrase, lo, a
<1>15. Window(ks, T, b, lo, a) = dict
  <2>1. lo \in Nat /\ a \in Nat /\ lo + a <= n
    BY <1>5
  <2>2. Window(ks, T, b, lo, a) = Window(ks, sent, b, lo, a)
    BY <1>5, <1>10, <2>1, WindowAlike
  <2> QED
    BY <1>6, <2>2
<1>16. TypeInv' /\ Idle'
  <2>1. node' \in Nat
    BY <1>14 DEF LastPhrase
  <2>2. Len(T) <= MaxLen
    BY <1>1, <1>4, <1>9
  <2> QED
    BY <1>1, <1>3, <1>4, <1>9, <2>1, <2>2 DEF TypeInv, Idle, Dms, T
<1>17. EncInv(n, n, ks, b)'
  <2>1. sent' = T /\ setup'.limit = l
    BY <1>1 DEF T
  <2>2. Distinct(dict, a) /\ factors = a
    BY <1>1, <1>3 DEF EncInv, a
  <2> QED
    BY <1>1, <1>6, <1>9, <1>11, <1>14, <1>15, <2>1, <2>2 DEF EncInv, lo, a
<1>18. Framed(n, Codes(ks, n), wire, at)'
  <2>1. Codes(ks, n)' = Codes(ks, n)
    BY <1>1 DEF Codes, Code
  <2> QED
    BY <1>1, <1>3, <2>1
<1>19. n \in 0 .. Len(sent') /\ n \in 0 .. n
  BY <1>1, <1>4, <1>5, <1>9 DEF T
<1> QED
  BY <1>16, <1>17, <1>18, <1>19, StillIdle

\* What is behind the end of a phrase begins the next one.
LEMMA SpanStarts ==
  ASSUME NEW S, NEW s \in Seq(S), NEW c \in S
  PROVE  SubSeq(Append(s, c), Len(s) + 1, Len(Append(s, c))) = <<c>>
<1> DEFINE x == Len(s)
<1>1. x \in 0 .. Len(s) /\ Len(Append(s, c)) = Len(s) + 1
  BY LengthAppend
<1>2. SubSeq(s, x + 1, Len(s)) = <<>>
  BY SubSeqEmpty, LenProperties
<1>3. Append(<<>>, c) = <<c>>
  OBVIOUS
<1>4. SubSeq(Append(s, c), x + 1, Len(s) + 1) = Append(SubSeq(s, x + 1, Len(s)), c)
  <2> HIDE DEF x
  <2> QED
    BY <1>1, SpanGrows
<1> QED
  BY <1>1, <1>2, <1>3, <1>4

\* An entry is inserted only where there is no such child.
LEMMA DistinctGrows ==
  ASSUME NEW S, NEW F \in Seq(S), NEW a \in Nat, Len(F) = a, Distinct(F, a),
         NEW p, NEW c, [parent |-> p, c |-> c] \in S, ~ HasChild(F, p, c)
  PROVE  Distinct(Insert(F, p, c), a + 1)
<1> DEFINE e == [parent |-> p, c |-> c]
           G == Insert(F, p, c)
<1>1. e.parent = p /\ e.c = c
  OBVIOUS
<1>2. \A i \in 1 .. a : F[i] # e
  BY <1>1 DEF HasChild
<1>3. G[a + 1] = e /\ \A i \in 1 .. a : G[i] = F[i]
  BY LengthAppend DEF Insert
<1>4. \A i, j \in 1 .. a : F[i] = F[j] => i = j
  BY DEF Distinct
<1> HIDE DEF e, G
<1>5. ASSUME NEW i \in 1 .. a + 1, NEW j \in 1 .. a + 1, G[i] = G[j] PROVE i = j
  <2>1. i \in 1 .. a \/ i = a + 1
    OBVIOUS
  <2>2. j \in 1 .. a \/ j = a + 1
    OBVIOUS
  <2> QED
    BY <1>2, <1>3, <1>4, <1>5, <2>1, <2>2
<1> QED
  BY <1>5 DEF Distinct, G

\* The dictionary after another factor.
Follows(l, n, ks, s, b) ==
  Window(ks, s, b, First(l, n + 1), Age(l, n + 1)) =
    IF Sigma + Age(l, n) + 1 = l THEN <<>>
    ELSE Insert(Window(ks, s, b, First(l, n), Age(l, n)), ks[n + 1], s[b[n + 1] + 1])

\* The dictionary behind one more factor: empty, or with one more entry.
LEMMA WindowNext ==
  ASSUME NEW l, Limit(l), NEW n \in Nat, NEW ks, NEW s, NEW b
  PROVE  Follows(l, n, ks, s, b)
<1> DEFINE m == n + 1
           a == Age(l, n)
           lo == First(l, n)
<1>1. a \in 0 .. n /\ Age(l, m) = (IF Sigma + a + 1 = l THEN 0 ELSE a + 1)
      /\ First(l, m) = m - Age(l, m) /\ lo = n - a
  BY AgeFacts DEF First
<1> HIDE DEF a, lo
<1>2. CASE Sigma + a + 1 = l
  <2>1. Age(l, m) = 0
    BY <1>1, <1>2
  <2> HIDE DEF m
  <2> QED
    BY <1>2, <2>1, WindowEmpty DEF a, m, Follows
<1>3. CASE ~ (Sigma + a + 1 = l)
  <2>1. Age(l, m) = a + 1
    BY <1>1, <1>3
  <2>2. First(l, m) = lo /\ lo \in Nat /\ a \in Nat /\ lo + (a + 1) = m
    <3>1. First(l, m) = m - (a + 1)
      BY <1>1, <2>1
    <3>2. a \in Nat /\ n \in Nat /\ a <= n /\ lo = n - a
      BY <1>1
    <3>3. lo \in Nat /\ m - (a + 1) = lo /\ lo + (a + 1) = m
      BY <3>2
    <3> HIDE DEF m
    <3> QED
      BY <3>1, <3>2, <3>3
  <2>3. Insert(Window(ks, s, b, lo, a), ks[lo + (a + 1)], s[b[lo + (a + 1)] + 1])
          = Window(ks, s, b, lo, a + 1)
    BY <2>2, WindowGrows
  <2> HIDE DEF m
  <2>4. Window(ks, s, b, First(l, m), Age(l, m)) = Insert(Window(ks, s, b, lo, a), ks[m], s[b[m] + 1])
    BY <2>1, <2>2, <2>3
  <2> QED
    BY <1>3, <2>4 DEF a, lo, m, Follows
<1> QED
  BY <1>2, <1>3

\* The text s grows by a character that ends the phrase of node k.
Inserts(l, n, s, c, ks, b, k, K, B) ==
  LET T == Append(s, c)
  IN  /\ K = More(ks, n, k) /\ Parsed(l, K, n + 1, T, B)
      /\ Within(T, B, n + 1) /\ LastPhrase(l, n + 1, T, B, c)
      /\ K[n + 1] = k /\ B[n + 1] = Len(s) /\ T[B[n + 1] + 1] = c
      /\ Window(K, T, B, First(l, n), Age(l, n)) = Window(ks, s, b, First(l, n), Age(l, n))

\* A factor that is written within the text leaves a parse of the text,
LEMMA ParsedInserts ==
  ASSUME NEW l, Limit(l), NEW n \in Nat, NEW s \in Seq(Literal), NEW c \in Literal,
         NEW ks, NEW b, Parsed(l, ks, n, s, b), Within(s, b, n),
         NEW k, LastPhrase(l, n, s, b, k)
  PROVE  \E K, B : Inserts(l, n, s, c, ks, b, k, K, B)
<1> DEFINE K == More(ks, n, k)
           B == Longer(b, n, Len(s))
           T == Append(s, c)
           lo == First(l, n)
           a == Age(l, n)
<1>1. /\ Parsed(l, K, n + 1, s, B) /\ Alike(s, B, s, b, n)
      /\ K[n + 1] = k /\ \A i \in 1 .. n : K[i] = ks[i]
      /\ B[n + 1] = Len(s) /\ \A i \in 0 .. n : B[i] = b[i]
  BY ParsedGrows
<1> HIDE DEF B
<1>2. T \in Seq(Literal) /\ Len(T) = Len(s) + 1 /\ T[Len(s) + 1] = c /\ Len(s) \in Nat
  BY LengthAppend
<1> HIDE DEF K
<1>3. n \in 0 .. n + 1 /\ n + 1 \in Nat /\ n + 1 <= n + 1
  OBVIOUS
<1>4. Within(s, B, n)
  <2>1. \A i \in 1 .. n : i \in 0 .. n
    OBVIOUS
  <2> QED
    BY <1>1, <2>1 DEF Within
<1>5. Parsed(l, K, n + 1, T, B) /\ Within(T, B, n + 1)
  BY <1>1, <1>3, <1>4, ParsedKept
<1>6. Alike(T, B, s, b, n)
  <2>1. B \in [0 .. n + 1 -> 0 .. Len(s)]
    BY <1>1 DEF Parsed
  <2>2. Alike(T, B, s, B, n)
    BY <1>3, <1>4, <2>1, AppendAlike
  <2>3. ASSUME NEW j \in 1 .. n
        PROVE  Extended(T, B, j) = Extended(s, b, j) /\ T[B[j] + 1] = s[b[j] + 1]
    <3>1. Extended(T, B, j) = Extended(s, B, j) /\ T[B[j] + 1] = s[B[j] + 1]
      BY <2>2 DEF Alike
    <3>2. Extended(s, B, j) = Extended(s, b, j) /\ s[B[j] + 1] = s[b[j] + 1]
      BY <1>1 DEF Alike
    <3> QED
      BY <3>1, <3>2
  <2> QED
    BY <2>3 DEF Alike
<1> HIDE DEF T
<1>7. Window(K, T, B, lo, a) = Window(ks, s, b, lo, a)
  <2>1. lo \in Nat /\ a \in Nat /\ lo + a <= n
    <3>1. a \in 0 .. n
      BY AgeFacts
    <3>2. lo = n - a
      BY DEF First
    <3> HIDE DEF lo, a
    <3> QED
      BY <3>1, <3>2
  <2> HIDE DEF lo, a
  <2> QED
    BY <1>1, <1>6, <2>1, WindowAlike
<1>8. LastPhrase(l, n + 1, T, B, c)
  <2>1. c \in Nat /\ c < Sigma
    BY LZWAssumption DEF Literal
  <2>2. Age(l, n + 1) \in Nat
    <3>1. Age(l, n + 1) \in 0 .. n + 1
      BY <1>3, AgeFacts
    <3> QED
      BY <3>1
  <2>3. c < Sigma + Age(l, n + 1)
    BY <2>1, <2>2, LZWAssumption
  <2>4. SubSeq(T, Len(s) + 1, Len(T)) = <<c>>
    BY SpanStarts DEF T
  <2>5. Len(s) < Len(T)
    BY <1>2
  <2>6. Spelled(T, B, First(l, n + 1), c) = <<c>>
    BY <2>1 DEF Spelled
  <2> QED
    BY <1>1, <2>1, <2>3, <2>4, <2>5, <2>6 DEF LastPhrase
<1>9. T[B[n + 1] + 1] = c
  BY <1>1, <1>2
<1>10. /\ K = More(ks, n, k) /\ Parsed(l, K, n + 1, T, B)
       /\ Within(T, B, n + 1) /\ LastPhrase(l, n + 1, T, B, c)
       /\ K[n + 1] = k /\ B[n + 1] = Len(s) /\ T[B[n + 1] + 1] = c
       /\ Window(K, T, B, lo, a) = Window(ks, s, b, lo, a)
  BY <1>1, <1>5, <1>7, <1>8, <1>9 DEF K
<1>11. Inserts(l, n, s, c, ks, b, k, K, B)
  BY <1>10, Zenon DEF Inserts, T, lo, a
<1> HIDE DEF K
<1> QED
  BY <1>11

\* A character without a child: a factor is written, and an entry made or the
\* dictionary begun anew.
LEMMA InvInsert ==
  ASSUME Sizes, LZWInv, NEW c \in Literal, CompressChar(c), ~ HasChild(dict, node, c)
  PROVE  LZWInv'
<1> DEFINE reset == Size(dict, Sigma) + 1 = setup.limit
           u == EncodeFactor(node)
<1>1. /\ ~closed /\ sent # <<>> /\ Len(sent) < MaxLen /\ sent' = Append(sent, c)
      /\ node' = c /\ setup' = setup /\ closed' = closed
      /\ dict' = (IF reset THEN <<>> ELSE Insert(dict, node, c))
      /\ factors' = (IF reset THEN 0 ELSE factors + 1) /\ wire' = wire \o u
      /\ pos' = pos /\ ddict' = ddict /\ prev' = prev /\ counter' = counter
      /\ failed' = failed /\ got' = got
  BY DEF CompressChar, dec
<1>2. PICK n \in 0 .. Len(sent) :
        \E ks \in [1 .. n -> Nat], b \in [0 .. n -> 0 .. Len(sent)],
           at \in [0 .. n -> 0 .. Len(wire)] :
          EncInv(n, n, ks, b) /\ Framed(n, Codes(ks, n), wire, at) /\ Idle
  BY <1>1, Running
<1>3. PICK ks \in [1 .. n -> Nat], b \in [0 .. n -> 0 .. Len(sent)],
           at \in [0 .. n -> 0 .. Len(wire)] :
        EncInv(n, n, ks, b) /\ Framed(n, Codes(ks, n), wire, at) /\ Idle
  BY <1>2
<1>4. TypeInv /\ sent \in Seq(Literal) /\ Len(sent) \in Nat /\ Sigma \in Nat \ {0} /\ MaxLen \in Nat
  BY LZWAssumption, LenProperties DEF LZWInv, TypeInv
<1> DEFINE l == setup.limit
           lo == First(l, n)
           a == Age(l, n)
           D == Dictionary(l, sent, n, ks, b, lo, a)
           T == Append(sent, c)
<1>5. /\ n \in Nat /\ n <= MaxLen /\ lo \in 0 .. n /\ a \in 0 .. n /\ lo + a = n /\ D
      /\ Len(dict) = a
  <2>1. n \in 0 .. n
    BY <1>4
  <2> QED
    BY <1>3, <1>4, <2>1, DictFacts
<1>6. /\ Parsed(l, ks, n, sent, b) /\ Within(sent, b, n) /\ n <= b[n]
      /\ dict = Window(ks, sent, b, lo, a) /\ Distinct(dict, a) /\ factors = a
      /\ LastPhrase(l, n, sent, b, node) /\ b[n] < Len(sent) /\ node \in Nat
  BY <1>1, <1>3 DEF EncInv, LastPhrase
<1>7. Limit(l) /\ b \in [0 .. n -> 0 .. Len(sent)]
  BY <1>4, <1>5, <1>6, Ranges DEF TypeInv, Parsed
<1>8. PICK K : \E B : Inserts(l, n, sent, c, ks, b, node, K, B)
  <2> HIDE DEF l
  <2> QED
    BY <1>4, <1>5, <1>6, <1>7, ParsedInserts
<1>9. PICK B : Inserts(l, n, sent, c, ks, b, node, K, B)
  BY <1>8
<1>10. /\ K = More(ks, n, node) /\ Parsed(l, K, n + 1, T, B)
       /\ Within(T, B, n + 1) /\ LastPhrase(l, n + 1, T, B, c)
       /\ K[n + 1] = node /\ B[n + 1] = Len(sent) /\ T[B[n + 1] + 1] = c
       /\ Window(K, T, B, lo, a) = Window(ks, sent, b, lo, a)
  BY <1>9 DEF Inserts
<1> HIDE DEF lo, a, D, u, reset, l, T
<1>11. u \in Seq(Nat)
  BY <1>1, <1>3, <1>4, Emitted DEF u
<1>12. PICK A : Framed(n + 1, Codes(K, n + 1), wire \o u, A)
  <2>1. Framed(n + 1, Codes(More(ks, n, node), n + 1), wire \o u, Longer(at, n, Len(wire) + Len(u)))
    BY <1>1, <1>3, <1>4, Emitted DEF u
  <2>2. K = More(ks, n, node)
    BY <1>10
  <2> QED
    BY <2>1, <2>2
<1>13. /\ dict' = Window(K, T, B, First(l, n + 1), Age(l, n + 1))
       /\ Distinct(dict', Age(l, n + 1)) /\ factors' = Age(l, n + 1)
  <2>1. reset <=> Sigma + a + 1 = l
    BY <1>5 DEF Size, reset, l
  <2>2. Age(l, n + 1) = IF reset THEN 0 ELSE a + 1
    BY <1>5, <1>7, <2>1, AgeFacts DEF a
  <2>3. Window(K, T, B, First(l, n + 1), Age(l, n + 1))
          = IF reset THEN <<>> ELSE Insert(Window(K, T, B, lo, a), K[n + 1], T[B[n + 1] + 1])
    <3>1. n \in Nat /\ Limit(l)
      BY <1>5, <1>7
    <3>2. Window(K, T, B, First(l, n + 1), Age(l, n + 1))
            = IF Sigma + a + 1 = l THEN <<>>
              ELSE Insert(Window(K, T, B, lo, a), K[n + 1], T[B[n + 1] + 1])
      <4>1. Follows(l, n, K, T, B)
        BY <3>1, WindowNext
      <4> QED
        BY <4>1, Zenon DEF Follows, lo, a
    <3> QED
      BY <2>1, <3>2
  <2>4. Window(K, T, B, lo, a) = dict /\ K[n + 1] = node /\ T[B[n + 1] + 1] = c
    BY <1>6, <1>10
  <2>5. dict' = Window(K, T, B, First(l, n + 1), Age(l, n + 1))
    BY <1>1, <2>3, <2>4, Zenon
  <2>6. factors' = Age(l, n + 1)
    BY <1>1, <1>6, <2>2
  <2>7. CASE reset
    <3>1. Age(l, n + 1) = 0
      BY <2>2, <2>7
    <3> QED
      BY <2>5, <2>6, <3>1 DEF Distinct
  <2>8. CASE ~ reset
    <3>1. Age(l, n + 1) = a + 1 /\ dict' = Insert(dict, node, c)
      BY <1>1, <2>2, <2>8
    <3>2. Dictionary(l, sent, n, ks, b, lo, a) /\ a \in Nat
      BY <1>5 DEF D
    <3>3. Window(ks, sent, b, lo, a) \in Seq([parent : Nat, c : Literal])
      BY <3>2, WindowFacts
    <3>4. dict \in Seq([parent : Nat, c : Literal]) /\ [parent |-> node, c |-> c] \in [parent : Nat, c : Literal]
      BY <1>6, <3>3
    <3>5. Distinct(Insert(dict, node, c), a + 1)
      BY <1>1, <1>5, <1>6, <3>2, <3>4, DistinctGrows
    <3> QED
      BY <2>5, <2>6, <3>1, <3>5
  <2> QED
    BY <2>7, <2>8
<1>14. T \in Seq(Literal) /\ Len(T) = Len(sent) + 1 /\ T # <<>>
  <2>1. T \in Seq(Literal) /\ Len(T) = Len(sent) + 1
    BY <1>4, LengthAppend DEF T
  <2>2. Len(<<>>) = 0
    OBVIOUS
  <2> QED
    BY <1>4, <2>1, <2>2
<1>15. n + 1 <= B[n + 1]
  <2>1. n \in Nat /\ b[n] \in Nat
    <3>1. n \in 0 .. n /\ n \in Nat
      BY <1>5
    <3> QED
      BY <1>4, <1>7, <3>1
  <2>2. n <= b[n] /\ b[n] < Len(sent) /\ B[n + 1] = Len(sent) /\ Len(sent) \in Nat
    BY <1>4, <1>6, <1>10
  <2> QED
    BY <2>1, <2>2
<1>16. TypeInv' /\ Idle'
  <2>1. wire \o u \in Seq(Nat)
    BY <1>4, <1>11, ConcatProperties DEF TypeInv
  <2>2. Len(T) <= MaxLen
    BY <1>1, <1>4, <1>14
  <2>3. c \in Nat /\ factors' \in Nat
    <3>1. n + 1 \in Nat
      BY <1>5
    <3>2. Age(l, n + 1) \in 0 .. n + 1
      BY <1>7, <3>1, AgeFacts
    <3> QED
      BY <1>4, <1>13, <3>1, <3>2 DEF Literal
  <2> QED
    BY <1>1, <1>3, <1>4, <1>14, <2>1, <2>2, <2>3 DEF TypeInv, Idle, Dms, T, u
<1>17. EncInv(n + 1, n + 1, K, B)'
  <2>1. sent' = T /\ setup'.limit = l /\ node' = c /\ ~ closed'
    BY <1>1 DEF T, l
  <2> QED
    BY <1>10, <1>13, <1>14, <1>15, <2>1 DEF EncInv
<1>18. Framed(n + 1, Codes(K, n + 1), wire, A)'
  <2>1. Codes(K, n + 1)' = Codes(K, n + 1)
    BY <1>1 DEF Codes, Code
  <2> QED
    BY <1>1, <1>12, <2>1 DEF u
<1>19. n + 1 \in 0 .. Len(sent') /\ n + 1 \in 0 .. n + 1
  <2>1. Len(sent') = Len(sent) + 1
    BY <1>1, <1>14 DEF T
  <2> QED
    BY <1>4, <1>5, <2>1
<1> QED
  BY <1>16, <1>17, <1>18, <1>19, StillIdle

\* The end of the text ends the phrase of node k.
Ends(l, n, s, ks, b, k, K, B) ==
  /\ K = More(ks, n, k) /\ Parsed(l, K, n + 1, s, B) /\ Within(s, B, n)
  /\ LastPhrase(l, n, s, B, k) /\ B[n + 1] = Len(s)
  /\ Window(K, s, B, First(l, n), Age(l, n)) = Window(ks, s, b, First(l, n), Age(l, n))

\* and so does the one at its end.
LEMMA ParsedEnds ==
  ASSUME NEW l, Limit(l), NEW n \in Nat, NEW s \in Seq(Literal),
         NEW ks, NEW b, Parsed(l, ks, n, s, b), Within(s, b, n),
         NEW k, LastPhrase(l, n, s, b, k)
  PROVE  \E K, B : Ends(l, n, s, ks, b, k, K, B)
<1> DEFINE K == More(ks, n, k)
           B == Longer(b, n, Len(s))
           lo == First(l, n)
           a == Age(l, n)
<1>1. /\ Parsed(l, K, n + 1, s, B) /\ Alike(s, B, s, b, n)
      /\ K[n + 1] = k /\ \A i \in 1 .. n : K[i] = ks[i]
      /\ B[n + 1] = Len(s) /\ \A i \in 0 .. n : B[i] = b[i]
  BY ParsedGrows
<1> HIDE DEF B, K
<1>2. n \in 0 .. n /\ \A i \in 1 .. n : i \in 0 .. n
  OBVIOUS
<1>3. Within(s, B, n)
  BY <1>1, <1>2 DEF Within
<1>4. lo \in Nat /\ a \in Nat /\ lo + a <= n
  <2>1. a \in 0 .. n
    BY AgeFacts
  <2>2. lo = n - a
    BY DEF First
  <2> HIDE DEF lo, a
  <2> QED
    BY <2>1, <2>2
<1>5. /\ k \in Nat /\ k < Sigma + a /\ b[n] < Len(s)
      /\ SubSeq(s, b[n] + 1, Len(s)) = Spelled(s, b, lo, k)
  BY DEF LastPhrase
<1> HIDE DEF lo, a
<1>6. Window(K, s, B, lo, a) = Window(ks, s, b, lo, a)
  BY <1>1, <1>4, WindowAlike
<1>7. Spelled(s, B, lo, k) = Spelled(s, b, lo, k)
  <2>1. k \in Nat /\ k < Sigma + a
    BY <1>5
  <2> QED
    BY <1>1, <1>4, <2>1, SpelledAlike
<1>8. LastPhrase(l, n, s, B, k)
  <2>1. B[n] = b[n]
    BY <1>1, <1>2
  <2> QED
    BY <1>5, <1>7, <2>1 DEF LastPhrase, lo, a
<1>9. Ends(l, n, s, ks, b, k, K, B)
  BY <1>1, <1>3, <1>6, <1>8, Zenon DEF Ends, K, lo, a
<1> QED
  BY <1>9

\* The empty text has no factors.
LEMMA InvFinishEmpty == ASSUME Sizes, LZWInv, Finish, sent = <<>> PROVE LZWInv'
<1>1. /\ ~closed /\ closed' /\ closed' = TRUE /\ wire' = wire /\ factors' = factors /\ setup' = setup
      /\ sent' = sent /\ dict' = dict /\ node' = node
      /\ pos' = pos /\ ddict' = ddict /\ prev' = prev /\ counter' = counter
      /\ failed' = failed /\ got' = got
  BY DEF Finish, dec
<1>2. PICK n \in 0 .. Len(sent) :
        \E ks \in [1 .. n -> Nat], b \in [0 .. n -> 0 .. Len(sent)],
           at \in [0 .. n -> 0 .. Len(wire)] :
          EncInv(n, n, ks, b) /\ Framed(n, Codes(ks, n), wire, at) /\ Idle
  BY <1>1, Running
<1>3. PICK ks \in [1 .. n -> Nat], b \in [0 .. n -> 0 .. Len(sent)],
           at \in [0 .. n -> 0 .. Len(wire)] :
        EncInv(n, n, ks, b) /\ Framed(n, Codes(ks, n), wire, at) /\ Idle
  BY <1>2
<1>4. Len(sent) = 0 /\ n = 0 /\ 0 \in 0 .. 0
  <2>1. Len(<<>>) = 0
    OBVIOUS
  <2> QED
    BY <2>1
<1>5. b[n] = Len(sent)
  BY <1>3, <1>4 DEF EncInv, Parsed
<1>6. TypeInv' /\ Idle'
  BY <1>1, <1>3 DEF LZWInv, TypeInv, Idle, Dms
<1>7. EncInv(n, n, ks, b)'
  BY <1>1, <1>3, <1>4, <1>5 DEF EncInv
<1>8. Framed(n, Codes(ks, n), wire, at)'
  <2>1. Codes(ks, n)' = Codes(ks, n)
    BY <1>1 DEF Codes, Code
  <2> QED
    BY <1>1, <1>3, <2>1
<1>9. n \in 0 .. Len(sent') /\ n \in 0 .. n
  BY <1>1, <1>4
<1> QED
  BY <1>6, <1>7, <1>8, <1>9, StillIdle

\* The last factor leaves no entry.
LEMMA InvFinish == ASSUME Sizes, LZWInv, Finish, sent # <<>> PROVE LZWInv'
<1> DEFINE u == EncodeFactor(node)
<1>1. /\ ~closed /\ closed' /\ closed' = TRUE /\ wire' = wire \o u /\ factors' = factors + 1
      /\ setup' = setup /\ sent' = sent /\ dict' = dict /\ node' = node
      /\ pos' = pos /\ ddict' = ddict /\ prev' = prev /\ counter' = counter
      /\ failed' = failed /\ got' = got
  BY DEF Finish, dec
<1>2. PICK n \in 0 .. Len(sent) :
        \E ks \in [1 .. n -> Nat], b \in [0 .. n -> 0 .. Len(sent)],
           at \in [0 .. n -> 0 .. Len(wire)] :
          EncInv(n, n, ks, b) /\ Framed(n, Codes(ks, n), wire, at) /\ Idle
  BY <1>1, Running
<1>3. PICK ks \in [1 .. n -> Nat], b \in [0 .. n -> 0 .. Len(sent)],
           at \in [0 .. n -> 0 .. Len(wire)] :
        EncInv(n, n, ks, b) /\ Framed(n, Codes(ks, n), wire, at) /\ Idle
  BY <1>2
<1>4. TypeInv /\ sent \in Seq(Literal) /\ Len(sent) \in Nat /\ MaxLen \in Nat
  BY LZWAssumption, LenProperties DEF LZWInv, TypeInv
<1> DEFINE l == setup.limit
<1>5. n \in Nat /\ n <= MaxLen
  <2>1. Len(sent) <= MaxLen
    BY <1>4 DEF TypeInv
  <2> QED
    BY <1>4, <2>1
<1>6. /\ Parsed(l, ks, n, sent, b) /\ Within(sent, b, n) /\ n <= b[n]
      /\ dict = Window(ks, sent, b, First(l, n), Age(l, n)) /\ Distinct(dict, Age(l, n))
      /\ LastPhrase(l, n, sent, b, node) /\ b[n] < Len(sent)
  BY <1>3 DEF EncInv, LastPhrase
<1>7. Limit(l) /\ b[n] \in Nat
  <2>1. Limit(l) /\ b \in [0 .. n -> 0 .. Len(sent)]
    BY <1>4, <1>5, <1>6, Ranges DEF TypeInv, Parsed
  <2>2. n \in 0 .. n
    BY <1>5
  <2> QED
    BY <1>4, <2>1, <2>2
<1>8. PICK K : \E B : Ends(l, n, sent, ks, b, node, K, B)
  <2> HIDE DEF l
  <2> QED
    BY <1>4, <1>5, <1>6, <1>7, ParsedEnds
<1>9. PICK B : Ends(l, n, sent, ks, b, node, K, B)
  BY <1>8
<1>10. /\ K = More(ks, n, node) /\ Parsed(l, K, n + 1, sent, B) /\ Within(sent, B, n)
       /\ LastPhrase(l, n, sent, B, node) /\ B[n + 1] = Len(sent)
       /\ dict = Window(K, sent, B, First(l, n), Age(l, n))
  BY <1>6, <1>9 DEF Ends
<1>11. u \in Seq(Nat)
  BY <1>1, <1>3, <1>4, Emitted
<1> HIDE DEF l, u
<1>12. PICK A : Framed(n + 1, Codes(K, n + 1), wire \o u, A)
  <2>1. Framed(n + 1, Codes(More(ks, n, node), n + 1), wire \o u, Longer(at, n, Len(wire) + Len(u)))
    BY <1>1, <1>3, <1>4, Emitted DEF u
  <2>2. K = More(ks, n, node)
    BY <1>10
  <2> QED
    BY <2>1, <2>2
<1>13. n + 1 <= B[n + 1]
  BY <1>4, <1>5, <1>6, <1>7, <1>10
<1>14. TypeInv' /\ Idle'
  <2>1. wire \o u \in Seq(Nat)
    BY <1>4, <1>11, ConcatProperties DEF TypeInv
  <2> QED
    BY <1>1, <1>3, <1>4, <2>1 DEF TypeInv, Idle, Dms
<1>15. EncInv(n + 1, n, K, B)'
  <2>1. setup'.limit = l
    BY <1>1 DEF l
  <2> QED
    BY <1>1, <1>6, <1>10, <1>13, <2>1 DEF EncInv
<1>16. Framed(n + 1, Codes(K, n + 1), wire, A)'
  <2>1. Codes(K, n + 1)' = Codes(K, n + 1)
    BY <1>1 DEF Codes, Code
  <2> QED
    BY <1>1, <1>12, <2>1
<1>17. n + 1 \in 0 .. Len(sent') /\ n \in 0 .. n + 1
  BY <1>1, <1>4, <1>5, <1>10, <1>13
<1> QED
  BY <1>14, <1>15, <1>16, <1>17, StillIdle

-----------------------------------------------------------------------------
(* The decoder's step.                                                     *)

\* The length of a window is its age.
LEMMA WindowLength ==
  ASSUME NEW ks, NEW s, NEW b, NEW lo, NEW a \in Nat
  PROVE  Len(Window(ks, s, b, lo, a)) = a
<1> DEFINE D == Window(ks, s, b, lo, a)
<1>1. DOMAIN D = 1 .. a
  BY DEF Window
<1> HIDE DEF D
<1>2. Len(D) = a
  BY <1>1, LengthOf
<1> QED
  BY <1>2 DEF D

\* The string x begins with c.
Begins(x, c) == x # <<>> /\ x[1] = c

\* A phrase with a first character has one front.
LEMMA BeginsOne == ASSUME NEW x, NEW c, Begins(x, c) PROVE Fronts(x) = {c}
BY Zenon DEF Begins, Fronts

\* A part of the text begins with its first character.
LEMMA SpanBegins ==
  ASSUME NEW S, NEW s \in Seq(S), NEW x \in Nat, NEW y \in 0 .. Len(s), x < y
  PROVE  Begins(SubSeq(s, x + 1, y), s[x + 1])
<1> DEFINE u == SubSeq(s, x + 1, y)
<1>1. Len(s) \in Nat
  BY LenProperties
<1>2. y - x \in Nat \ {0} /\ 1 \in 1 .. y - x /\ x <= y
  BY <1>1
<1>3. Len(u) = y - x /\ \A i \in 1 .. y - x : u[i] = s[x + i]
  BY <1>2, SpanFacts
<1>4. u[1] = s[x + 1]
  BY <1>2, <1>3
<1>5. u # <<>>
  <2>1. Len(<<>>) = 0
    OBVIOUS
  <2> HIDE DEF u
  <2> QED
    BY <1>2, <1>3, <2>1
<1> QED
  BY <1>4, <1>5 DEF Begins

\* The phrase of factor r + 1 is that of its node in the dictionary that factor r
\* completes; it begins with the character that completes it.
Completes(l, s, ks, b, r) ==
  LET lo == First(l, r - 1)
      a == Age(l, r - 1)
      c == s[b[r] + 1]
  IN  /\ lo \in Nat /\ a \in Nat /\ lo + (a + 1) = r
      /\ ks[r] \in 0 .. Sigma + a - 1 /\ ks[r + 1] \in 0 .. Sigma + a
      /\ Phrase(s, b, r + 1) = Spelled(s, b, lo, ks[r + 1])
      /\ Begins(Spelled(s, b, lo, IF ks[r + 1] < Sigma + a THEN ks[r + 1] ELSE ks[r]), c)

\* A factor completes the entry of the one before.
LEMMA FactorCompletes ==
  ASSUME NEW l, Limit(l), NEW s \in Seq(Literal), NEW n \in Nat, NEW ks, NEW b,
         Parsed(l, ks, n, s, b), NEW r \in 1 .. n - 1, Within(s, b, r)
  PROVE  Completes(l, s, ks, b, r)
<1> DEFINE q == r - 1
           t == r + 1
           lo == First(l, q)
           a == Age(l, q)
           c == s[b[r] + 1]
<1>0. Sigma \in Nat \ {0} /\ Len(s) \in Nat
  BY LZWAssumption, LenProperties
<1>1. /\ r \in Nat /\ q \in Nat /\ t \in Nat /\ q + 1 = r /\ t - 1 = r
      /\ r \in 1 .. n /\ t \in 1 .. n /\ q \in 0 .. n /\ r \in 0 .. n /\ t \in 0 .. n
  OBVIOUS
<1>2. /\ a \in 0 .. q /\ lo = q - a
      /\ Age(l, r) = IF Sigma + a + 1 = l THEN 0 ELSE a + 1
  <2>1. q \in Nat /\ q + 1 = r
    BY <1>1
  <2>2. lo = q - a
    BY DEF First
  <2> HIDE DEF q, lo
  <2>3. a \in 0 .. q /\ Age(l, q + 1) = IF Sigma + a + 1 = l THEN 0 ELSE a + 1
    BY <2>1, AgeFacts
  <2> QED
    BY <2>1, <2>2, <2>3
<1>3. First(l, r) = r - Age(l, r)
  BY DEF First
<1> HIDE DEF q, t, lo, a
<1>4. lo \in Nat /\ a \in Nat /\ lo + (a + 1) = r
  BY <1>1, <1>2
<1>5. /\ ks \in [1 .. n -> Nat] /\ b \in [0 .. n -> 0 .. Len(s)]
      /\ \A i \in 1 .. n :
           /\ b[i - 1] < b[i] /\ ks[i] < Sigma + Age(l, i - 1)
           /\ Phrase(s, b, i) = Spelled(s, b, First(l, i - 1), ks[i])
  BY DEF Parsed
<1>6. ks[r] \in Nat /\ ks[r] < Sigma + a /\ Phrase(s, b, r) = Spelled(s, b, lo, ks[r]) /\ b[q] < b[r]
  BY <1>1, <1>5 DEF a, lo, q
<1>7. ks[t] \in Nat /\ ks[t] < Sigma + Age(l, r)
      /\ Phrase(s, b, t) = Spelled(s, b, First(l, r), ks[t]) /\ b[r] < b[t]
  BY <1>1, <1>5
<1>8. b[q] \in 0 .. Len(s) /\ b[r] \in 0 .. Len(s) /\ b[t] \in 0 .. Len(s) /\ b[r] < Len(s)
  <2>1. r \in 1 .. r
    BY <1>1
  <2> QED
    BY <1>1, <1>5, <2>1 DEF Within
<1>9. ks[r] \in 0 .. Sigma + a - 1 /\ ks[t] \in 0 .. Sigma + a
  <2> DEFINE x == ks[r]
             y == ks[t]
             z == Age(l, r)
  <2>1. x \in Nat /\ x < Sigma + a /\ y \in Nat /\ y < Sigma + z
    BY <1>6, <1>7
  <2>2. z \in Nat /\ z <= a + 1
    BY <1>2, <1>4
  <2> HIDE DEF x, y, z
  <2>3. x \in 0 .. Sigma + a - 1 /\ y \in 0 .. Sigma + a
    BY <1>0, <1>4, <2>1, <2>2
  <2> QED
    BY <2>3 DEF x, y
<1>10. Phrase(s, b, t) = Spelled(s, b, lo, ks[t])
  <2>1. CASE Sigma + a + 1 = l
    <3>1. ks[t] < Sigma
      BY <1>0, <1>2, <1>7, <2>1
    <3> QED
      BY <1>7, <3>1 DEF Spelled
  <2>2. CASE ~ (Sigma + a + 1 = l)
    <3>1. First(l, r) = lo
      BY <1>2, <1>3, <1>4, <2>2
    <3> QED
      BY <1>7, <3>1
  <2> QED
    BY <2>1, <2>2
<1>11. Begins(Phrase(s, b, t), c)
  <2> DEFINE x == b[r]
             y == b[t]
  <2>1. x \in Nat /\ y \in 0 .. Len(s) /\ x < y
    BY <1>0, <1>7, <1>8
  <2> HIDE DEF x, y
  <2>2. Begins(SubSeq(s, x + 1, y), s[x + 1])
    BY <2>1, SpanBegins
  <2>3. Phrase(s, b, t) = SubSeq(s, x + 1, y)
    BY <1>1 DEF Phrase, x, y
  <2> QED
    BY <2>2, <2>3 DEF x
<1>12. ASSUME ~ (ks[t] < Sigma + a)
       PROVE  Begins(Spelled(s, b, lo, ks[r]), c)
  <2> DEFINE x == b[q]
             y == b[r]
  <2>1. x \in Nat /\ y \in Nat /\ y \in 0 .. Len(s) /\ x < y /\ y + 1 \in 0 .. Len(s) /\ x < y + 1
    BY <1>0, <1>6, <1>8
  <2> HIDE DEF x, y
  <2>2. Begins(SubSeq(s, x + 1, y), s[x + 1])
    BY <2>1, SpanBegins
  <2>3. Begins(SubSeq(s, x + 1, y + 1), s[x + 1])
    <3> DEFINE z == y + 1
    <3>1. z \in 0 .. Len(s) /\ x < z
      BY <2>1
    <3> HIDE DEF z
    <3>2. Begins(SubSeq(s, x + 1, z), s[x + 1])
      BY <2>1, <3>1, SpanBegins
    <3> QED
      BY <3>2 DEF z
  <2>4. Phrase(s, b, r) = SubSeq(s, x + 1, y) /\ Extended(s, b, r) = SubSeq(s, x + 1, y + 1)
    BY <1>1 DEF Phrase, Extended, x, y, q
  <2>5. ks[t] = Sigma + a
    BY <1>0, <1>4, <1>9, <1>12
  <2>6. Phrase(s, b, t) = Extended(s, b, r)
    <3>1. ~ (ks[t] < Sigma) /\ lo + (ks[t] - Sigma + 1) = r
      BY <1>0, <1>4, <2>5
    <3> QED
      BY <1>10, <3>1 DEF Spelled
  <2>7. s[x + 1] = c
    BY <1>11, <2>3, <2>4, <2>6 DEF Begins
  <2> QED
    BY <1>6, <2>2, <2>4, <2>7
<1>13. Begins(Spelled(s, b, lo, IF ks[t] < Sigma + a THEN ks[t] ELSE ks[r]), c)
  <2>1. CASE ks[t] < Sigma + a
    BY <1>10, <1>11, <2>1
  <2>2. CASE ~ (ks[t] < Sigma + a)
    BY <1>12, <2>2
  <2> QED
    BY <2>1, <2>2
<1> QED
  BY <1>4, <1>9, <1>10, <1>13, Zenon DEF Completes, lo, a, q, t

\* The dictionary that the decoder has behind n factors, at the top of its loop.
Behind(l, ks, s, b, r) == IF r = 0 THEN <<>> ELSE Window(ks, s, b, First(l, r - 1), Age(l, r - 1))

\* What the decoder's loop begins with is the dictionary behind its factors.
LEMMA CurrentIs ==
  ASSUME Sizes, TypeInv, NEW n \in 0 .. Len(sent), NEW ks, NEW b, NEW at, NEW r \in 0 .. n,
         DecInv(n, ks, b, at, r)
  PROVE  /\ Current.prev = prev /\ Current.d = Behind(setup.limit, ks, sent, b, r)
         /\ Current.counter \in Nat /\ Current.counter <= Len(Current.d) + 1
         /\ Size(Current.d, Sigma) \in Nat /\ Size(Current.d, Sigma) < Dms
         /\ setup.limit = 0 => Current.counter = r
         /\ setup.limit # 0 => Current.counter + Sigma <= setup.limit
<1> DEFINE l == setup.limit
<1>1. Len(sent) \in Nat /\ Len(sent) <= MaxLen /\ MaxLen \in Nat /\ setup \in Setups
      /\ counter \in Nat
  BY LenProperties, LZWAssumption DEF TypeInv
<1>2. n \in Nat /\ r \in Nat /\ r <= MaxLen /\ r <= n /\ MaxLen \in Nat
  BY <1>1
<1>3. /\ Limit(l) /\ l \in Nat /\ Dms \in Nat /\ Dms > Sigma /\ Sigma \in Nat \ {0}
      /\ Dms = IF l = 0 THEN DmsMax ELSE l
  BY <1>1, <1>2, Ranges DEF Limit, Dms
<1>4. /\ ddict = (IF r < 2 THEN <<>> ELSE Window(ks, sent, b, First(l, r - 2), Age(l, r - 2) + 1))
      /\ counter <= Len(ddict) + 1 /\ (l = 0 \/ r = 0 => counter = r)
  BY DEF DecInv
<1>5. Current = IF Size(ddict, Sigma) = Dms THEN [d |-> <<>>, counter |-> 0, prev |-> prev]
                                            ELSE [d |-> ddict, counter |-> counter, prev |-> prev]
  BY Zenon DEF Current
<1>6. Len(<<>>) = 0 /\ Size(<<>>, Sigma) = Sigma
  BY <1>3 DEF Size
<1> HIDE DEF l
<1>7. CASE r < 2
  <2>1. ddict = <<>> /\ Size(ddict, Sigma) = Sigma /\ Size(ddict, Sigma) # Dms
    BY <1>3, <1>4, <1>6, <1>7
  <2>2. Current = [d |-> <<>>, counter |-> counter, prev |-> prev]
    BY <1>5, <2>1
  <2>3. Behind(l, ks, sent, b, r) = <<>>
    <3>1. CASE r = 0
      BY <3>1 DEF Behind
    <3>2. CASE r = 1
      <4>1. Age(l, 0) = 0 /\ r - 1 = 0
        BY <1>3, <3>2, AgeFacts
      <4>2. Behind(l, ks, sent, b, r) = Window(ks, sent, b, First(l, 0), 0)
        BY <3>2, <4>1 DEF Behind
      <4> QED
        BY <4>2, WindowEmpty
    <3> QED
      BY <1>2, <1>7, <3>1, <3>2
  <2>4. counter <= 1
    BY <1>1, <1>4, <1>6, <2>1
  <2>5. l # 0 => counter + Sigma <= l
    BY <1>1, <1>3, <2>4
  <2> QED
    BY <1>1, <1>3, <1>4, <1>6, <2>1, <2>2, <2>3, <2>4, <2>5 DEF l
<1>8. CASE ~ (r < 2)
  <2> DEFINE q == r - 2
             p == r - 1
             a == Age(l, q)
  <2>1. q \in Nat /\ q <= MaxLen /\ p \in Nat /\ q + 1 = p /\ r # 0
    BY <1>2, <1>8
  <2>2. /\ a \in 0 .. q /\ Sigma + a < Dms /\ (l # 0 => Sigma + a < l)
        /\ Age(l, p) = (IF Sigma + a + 1 = l THEN 0 ELSE a + 1)
    <3>1. Sigma + a < Dms
      BY <1>1, <2>1, Ranges DEF l
    <3>2. /\ a \in 0 .. q /\ (l # 0 => Sigma + a < l)
          /\ Age(l, q + 1) = (IF Sigma + a + 1 = l THEN 0 ELSE a + 1)
      BY <1>3, <2>1, AgeFacts
    <3> QED
      BY <2>1, <3>1, <3>2
  <2>3. Sigma + Age(l, p) < Dms /\ Age(l, p) \in Nat
    <3>1. p <= MaxLen
      BY <1>2, <2>1
    <3>2. Sigma + Age(l, p) < Dms /\ Age(l, p) \in 0 .. p
      BY <1>1, <2>1, <3>1, Ranges DEF l
    <3> QED
      BY <3>2
  <2>4. ddict = Window(ks, sent, b, First(l, q), a + 1)
    BY <1>4, <1>8
  <2>5. Behind(l, ks, sent, b, r) = Window(ks, sent, b, First(l, p), Age(l, p))
    BY <2>1 DEF Behind
  <2>6. First(l, q) = q - a /\ First(l, p) = p - Age(l, p)
    BY DEF First
  <2> HIDE DEF q, p, a
  <2>7. a \in Nat /\ a + 1 \in Nat
    BY <2>2
  <2>8. Len(ddict) = a + 1 /\ Size(ddict, Sigma) = Sigma + a + 1
    <3>1. Len(ddict) = a + 1
      BY <2>4, <2>7, WindowLength
    <3> QED
      BY <1>3, <2>7, <3>1 DEF Size
  <2>9. CASE Sigma + a + 1 = l
    <3>1. l # 0
      BY <1>3, <2>7, <2>9
    <3>2. Size(ddict, Sigma) = Dms
      BY <1>3, <2>8, <2>9, <3>1
    <3>3. Current = [d |-> <<>>, counter |-> 0, prev |-> prev]
      BY <1>5, <3>2
    <3>4. Age(l, p) = 0
      BY <2>2, <2>9
    <3>5. Behind(l, ks, sent, b, r) = <<>>
      BY <2>5, <3>4, WindowEmpty
    <3>6. 0 + Sigma <= l
      BY <1>3, <2>7, <2>9
    <3> QED
      BY <1>3, <1>6, <3>1, <3>3, <3>5, <3>6 DEF l
  <2>10. CASE ~ (Sigma + a + 1 = l)
    <3>1. Age(l, p) = a + 1
      BY <2>2, <2>10
    <3>2. Size(ddict, Sigma) < Dms /\ Size(ddict, Sigma) # Dms /\ Size(ddict, Sigma) \in Nat
      BY <1>3, <2>3, <2>7, <2>8, <3>1
    <3>3. Current = [d |-> ddict, counter |-> counter, prev |-> prev]
      BY <1>5, <3>2
    <3>4. First(l, p) = First(l, q)
      BY <2>1, <2>6, <2>7, <3>1
    <3>5. Behind(l, ks, sent, b, r) = ddict
      BY <2>4, <2>5, <3>1, <3>4
    <3>6. l # 0 => counter + Sigma <= l
      <4>1. counter <= a + 1 + 1
        BY <1>4, <2>8
      <4>2. l # 0 => Sigma + a + 1 < l
        BY <1>3, <2>2, <2>7, <2>10
      <4> QED
        BY <1>1, <1>3, <2>7, <4>1, <4>2
    <3> QED
      BY <1>1, <1>4, <3>2, <3>3, <3>5, <3>6 DEF l
  <2> QED
    BY <2>9, <2>10
<1> QED
  BY <1>7, <1>8

\* The next code is read, though the decoder may suppose another range.
LEMMA CodeRead ==
  ASSUME Sizes, TypeInv, NEW n \in 0 .. Len(sent), NEW ks, NEW b, NEW at, NEW r \in 0 .. n,
         DecInv(n, ks, b, at, r), Parsed(setup.limit, ks, n, sent, b), r < n
  PROVE  Decoded(setup.binary, wire, pos, Current.counter + Sigma)
           = [v |-> ks[r + 1], next |-> at[r + 1]]
<1> DEFINE l == setup.limit
           t == r + 1
           x == Age(l, r) + Sigma
           y == Current.counter + Sigma
           k == ks[t]
           u == Code(k, t)
<1>1. /\ Len(sent) \in Nat /\ Len(sent) <= MaxLen /\ MaxLen \in Nat /\ setup \in Setups
      /\ wire \in Seq(Nat) /\ Len(wire) \in Nat
  BY LenProperties, LZWAssumption DEF TypeInv
<1>2. /\ n \in Nat /\ r \in Nat /\ r <= MaxLen /\ MaxLen \in Nat /\ t \in Nat /\ t - 1 = r
      /\ t \in 1 .. n /\ r \in 0 .. n
  BY <1>1
<1>3. /\ Limit(l) /\ l \in Nat /\ Sigma \in Nat \ {0} /\ setup.binary \in BOOLEAN
      /\ Age(l, r) \in 0 .. r /\ Fits(setup.binary, x)
  BY <1>1, <1>2, Ranges DEF Limit
<1>4. x \in Nat /\ Age(l, r) \in Nat
  BY <1>2, <1>3
<1>5. k \in 0 .. x
  <2>1. k \in Nat /\ k < Sigma + Age(l, r)
    BY <1>2 DEF Parsed
  <2> HIDE DEF k
  <2> QED
    BY <1>3, <1>4, <2>1
<1>6. /\ Current.counter \in Nat /\ (l = 0 => Current.counter = r)
      /\ (l # 0 => Current.counter + Sigma <= l)
  BY CurrentIs
<1>7. setup.binary => BitsFor(x) = BitsFor(y)
  <2> SUFFICES ASSUME setup.binary PROVE BitsFor(x) = BitsFor(y)
    OBVIOUS
  <2>1. CASE l = 0
    <3>1. Age(l, r) = r
      BY <2>1 DEF Age
    <3> QED
      BY <1>6, <2>1, <3>1
  <2>2. CASE l # 0
    <3>1. l < 2 ^ 64 /\ BitsFor(l) = BitsFor(Sigma) /\ l > Sigma
      BY <1>1, <2>2 DEF Sizes
    <3>2. Sigma + Age(l, r) < l
      BY <1>2, <1>3, <2>2, AgeFacts
    <3>3. y \in Nat /\ Sigma <= y /\ y <= l /\ Sigma <= x /\ x <= l
      <4> DEFINE cur == Current.counter
                 age == Age(l, r)
      <4>1. cur \in Nat /\ cur + Sigma <= l /\ age \in Nat /\ Sigma + age < l /\ Sigma \in Nat /\ l \in Nat
        BY <1>3, <1>4, <1>6, <2>2, <3>2
      <4> HIDE DEF cur, age, l
      <4>2. cur + Sigma \in Nat /\ Sigma <= cur + Sigma /\ Sigma <= age + Sigma /\ age + Sigma <= l
        BY <4>1
      <4> QED
        BY <4>1, <4>2 DEF cur, age
    <3> HIDE DEF x, y, l
    <3>4. BitsFor(x) = BitsFor(Sigma)
      BY <1>3, <1>4, <3>1, <3>3, SameWidth
    <3>5. BitsFor(y) = BitsFor(Sigma)
      BY <1>3, <3>1, <3>3, SameWidth
    <3> QED
      BY <3>4, <3>5
  <2> QED
    BY <2>1, <2>2
<1>8. u = Encoded(setup.binary, k, x)
  BY <1>2 DEF Code
<1>9. at[r] \in Nat /\ at[t] = at[r] + Len(u) /\ Stands(u, wire, at[r]) /\ pos = at[r]
  <2>1. Framed(n, Codes(ks, n), wire, at) /\ pos = at[r]
    BY DEF DecInv
  <2>2. Codes(ks, n)[t] = u
    BY <1>2 DEF Codes
  <2>3. at[r] \in 0 .. Len(wire)
    BY <1>2, <2>1 DEF Framed
  <2>4. at[t] = at[t - 1] + Len(Codes(ks, n)[t]) /\ Stands(Codes(ks, n)[t], wire, at[t - 1])
    BY <1>2, <2>1 DEF Framed
  <2> HIDE DEF t, u
  <2> QED
    BY <1>1, <1>2, <2>1, <2>2, <2>3, <2>4
<1> HIDE DEF x, y, k, u, l, t
<1>10. Decoded(setup.binary, wire, pos, x) = [v |-> k, next |-> pos + Len(u)]
  <2>1. Stands(Encoded(setup.binary, k, x), wire, pos) /\ pos \in Nat
    BY <1>8, <1>9
  <2>2. Decoded(setup.binary, wire, pos, x) = [v |-> k, next |-> pos + Len(Encoded(setup.binary, k, x))]
    BY <1>1, <1>3, <1>4, <1>5, <2>1, ReadBack
  <2> QED
    BY <1>8, <2>2
<1>11. Decoded(setup.binary, wire, pos, x) = Decoded(setup.binary, wire, pos, y)
  BY <1>3, <1>7, SameCode
<1>12. Decoded(setup.binary, wire, pos, y) = [v |-> k, next |-> at[t]]
  BY <1>9, <1>10, <1>11
<1> QED
  BY <1>12 DEF y, k, t

\* A dictionary of the text spells what its nodes stand for.
LEMMA RebuildWindow ==
  ASSUME NEW s, NEW n, NEW ks, NEW b, NEW lo, NEW a,
         Dictionary(setup.limit, s, n, ks, b, lo, a), Dms \in Nat, Sigma + a <= Dms,
         NEW k \in 0 .. Sigma + a - 1
  PROVE  Rebuild(Window(ks, s, b, lo, a), k) = Spelled(s, b, lo, k)
<1> DEFINE D == Window(ks, s, b, lo, a)
           W == Spelling(s, b, lo, a)
<1>1. a \in Nat /\ Sigma \in Nat \ {0}
  BY LZWAssumption DEF Dictionary
<1>2. Len(D) = a /\ Spells(W, a, D, Sigma, Letters)
  BY WindowFacts
<1>3. W[k] = Spelled(s, b, lo, k)
  BY DEF Spelling
<1> HIDE DEF D, W
<1>4. Size(D, Sigma) = Sigma + a /\ Len(D) \in Nat /\ Spells(W, Len(D), D, Sigma, Letters)
  BY <1>1, <1>2 DEF Size
<1>5. k \in 0 .. Size(D, Sigma) - 1 /\ Size(D, Sigma) <= Dms
  BY <1>1, <1>4
<1>6. Rebuild(D, k) = W[k]
  BY <1>4, <1>5, RebuildIs
<1> QED
  BY <1>3, <1>6 DEF D

\* What a step of the decoder does.
Writes(d, k) ==
  Decodable(k, d) =>
    \E c \in Fronts(Rebuild(d, IF k < Size(d, Sigma) THEN k ELSE prev)) :
      /\ ddict' = IF k < Size(d, Sigma) /\ prev = Dms THEN d ELSE Insert(d, prev, c)
      /\ got' = got \o Rebuild(ddict', k)

\* An iteration reads the next factor and writes its phrase.
LEMMA DecodeFacts ==
  ASSUME Sizes, TypeInv, DecodeStep, NEW n \in 0 .. Len(sent), NEW m \in 0 .. n,
         NEW ks, NEW b, NEW at, NEW r \in 0 .. n,
         EncInv(n, m, ks, b), DecInv(n, ks, b, at, r)
  PROVE  LET d == Current.d
             k == ks[r + 1]
         IN  /\ r + 1 \in 1 .. n /\ r <= m /\ closed
             /\ pos' = at[r + 1] /\ counter' = Current.counter + 1 /\ prev' = k
             /\ failed' = ~Decodable(k, d) /\ Writes(d, k)
<1> DEFINE d == Current.d
           D == Decoded(setup.binary, wire, pos, Current.counter + Sigma)
<1>1. /\ closed /\ ~failed /\ pos < Len(wire)
      /\ pos' = D.next /\ counter' = Current.counter + 1 /\ prev' = D.v
      /\ failed' = ~Decodable(D.v, d)
      /\ Decodable(D.v, d) =>
           \E c \in Fronts(Rebuild(d, IF D.v < Size(d, Sigma) THEN D.v ELSE Current.prev)) :
             /\ ddict' = IF D.v < Size(d, Sigma) /\ Current.prev = Dms THEN d
                         ELSE Insert(d, Current.prev, c)
             /\ got' = got \o Rebuild(ddict', D.v)
  BY Zenon DEF DecodeStep
<1>2. Len(sent) \in Nat /\ Len(wire) \in Nat
  BY LenProperties DEF TypeInv
<1>3. r # n
  <2>1. at[n] = Len(wire) /\ pos = at[r]
    BY DEF DecInv, Framed
  <2> QED
    BY <1>1, <1>2, <2>1
<1>4. n \in Nat /\ r \in Nat /\ r < n /\ m \in Nat /\ r + 1 \in 1 .. n
  BY <1>2, <1>3
<1>5. n = IF sent = <<>> THEN 0 ELSE m + 1
  BY <1>1 DEF EncInv
<1>6. r <= m
  BY <1>4, <1>5
<1>7. Parsed(setup.limit, ks, n, sent, b)
  BY DEF EncInv
<1>8. D = [v |-> ks[r + 1], next |-> at[r + 1]]
  BY <1>4, <1>7, CodeRead
<1> HIDE DEF D
<1>9. D.v = ks[r + 1] /\ D.next = at[r + 1]
  BY <1>8
<1>10. Current.prev = prev
  BY CurrentIs
<1>11. Writes(d, ks[r + 1])
  BY <1>1, <1>9, <1>10, Zenon DEF Writes
<1> QED
  BY <1>1, <1>4, <1>6, <1>9, <1>11, Zenon

\* The first factor: a literal.
LEMMA DecodeFirst ==
  ASSUME Sizes, TypeInv, DecodeStep, NEW n \in 0 .. Len(sent), NEW m \in 0 .. n,
         NEW ks, NEW b, NEW at, EncInv(n, m, ks, b), DecInv(n, ks, b, at, 0)
  PROVE  failed' = FALSE /\ ddict' = <<>> /\ got' = got \o Phrase(sent, b, 1) /\ counter' = 1
<1> DEFINE l == setup.limit
           k == ks[1]
           d == Current.d
<1>0. Len(sent) \in Nat /\ MaxLen \in Nat /\ Sigma \in Nat \ {0} /\ setup \in Setups
      /\ sent \in Seq(Literal)
  BY LZWAssumption, LenProperties DEF TypeInv
<1>1. 0 \in 0 .. n /\ 0 <= MaxLen /\ 0 + 1 = 1 /\ n \in Nat
  BY <1>0
<1>2. /\ 1 \in 1 .. n /\ failed' = ~Decodable(k, d) /\ counter' = Current.counter + 1
      /\ Writes(d, k)
  BY <1>1, DecodeFacts
<1>3. d = <<>> /\ Current.counter \in Nat /\ prev = Dms /\ counter = 0
  <2>1. d = Behind(l, ks, sent, b, 0) /\ Current.counter \in Nat
    BY <1>1, CurrentIs
  <2>2. prev = Dms /\ counter = 0
    BY DEF DecInv
  <2> QED
    BY <2>1, <2>2 DEF Behind
<1>4. Len(<<>>) = 0 /\ Size(<<>>, Sigma) = Sigma
  BY <1>0 DEF Size
<1>5. Current.counter = 0
  <2>1. Current = [d |-> <<>>, counter |-> 0, prev |-> prev] \/
        Current = [d |-> ddict, counter |-> counter, prev |-> prev]
    BY DEF Current
  <2> QED
    BY <1>3, <2>1
<1>6. Limit(l) /\ Dms \in Nat /\ Dms > Sigma /\ Age(l, 0) = 0 /\ First(l, 0) = 0
  <2>1. Limit(l) /\ Dms \in Nat /\ Dms > Sigma
    BY <1>0, <1>1, Ranges
  <2> HIDE DEF l
  <2>2. Age(l, 0) = 0 /\ 0 - 0 = 0
    BY <2>1, AgeFacts
  <2> QED
    BY <2>1, <2>2 DEF First
<1>7. Parsed(l, ks, n, sent, b)
  BY DEF EncInv
<1> HIDE DEF l
<1>8. k \in 0 .. Sigma - 1 /\ Phrase(sent, b, 1) = Spelled(sent, b, 0, k)
  <2>1. ks \in [1 .. n -> Nat] /\ ks[1] < Sigma + Age(l, 1 - 1)
        /\ Phrase(sent, b, 1) = Spelled(sent, b, First(l, 1 - 1), ks[1])
    BY <1>2, <1>7 DEF Parsed
  <2>2. 1 - 1 = 0 /\ ks[1] \in Nat
    BY <1>2, <2>1
  <2> QED
    BY <1>0, <1>6, <2>1, <2>2
<1>9. Rebuild(<<>>, k) = Phrase(sent, b, 1)
  <2>1. Dictionary(l, sent, n, ks, b, 0, 0)
    BY <1>0, <1>1, <1>6, <1>7 DEF Dictionary, Within, Fresh
  <2>2. k \in 0 .. Sigma + 0 - 1 /\ Sigma + 0 <= Dms
    BY <1>0, <1>6, <1>8
  <2> HIDE DEF k
  <2>3. Rebuild(Window(ks, sent, b, 0, 0), k) = Spelled(sent, b, 0, k)
    BY <1>6, <2>1, <2>2, RebuildWindow DEF l
  <2> QED
    BY <1>8, <2>3, WindowEmpty
<1> HIDE DEF d
<1>10. Decodable(k, d) /\ k < Size(d, Sigma)
  BY <1>0, <1>3, <1>4, <1>8 DEF Decodable
<1>11. PICK c : /\ ddict' = IF k < Size(d, Sigma) /\ prev = Dms THEN d ELSE Insert(d, prev, c)
                /\ got' = got \o Rebuild(ddict', k)
  BY <1>2, <1>10 DEF Writes
<1>12. ddict' = <<>>
  BY <1>3, <1>10, <1>11
<1>13. failed' = FALSE /\ counter' = 1
  <2>1. failed' = ~Decodable(k, d) /\ counter' = Current.counter + 1
    BY <1>2
  <2>2. failed' = FALSE
    BY <1>10, <2>1, Zenon
  <2> QED
    BY <1>5, <2>1, <2>2
<1>14. got' = got \o Phrase(sent, b, 1)
  BY <1>9, <1>11, <1>12
<1> QED
  BY <1>12, <1>13, <1>14

\* A later one.
LEMMA DecodeLater ==
  ASSUME Sizes, TypeInv, DecodeStep, NEW n \in 0 .. Len(sent), NEW m \in 0 .. n,
         NEW ks, NEW b, NEW at, NEW r \in 0 .. n, r # 0,
         EncInv(n, m, ks, b), DecInv(n, ks, b, at, r)
  PROVE  /\ failed' = FALSE /\ got' = got \o Phrase(sent, b, r + 1)
         /\ ddict' = Window(ks, sent, b, First(setup.limit, r - 1), Age(setup.limit, r - 1) + 1)
         /\ counter' <= Len(ddict') + 1 /\ (setup.limit = 0 => counter' = r + 1)
<1> DEFINE l == setup.limit
           k == ks[r + 1]
           p == ks[r]
           d == Current.d
           lo == First(l, r - 1)
           a == Age(l, r - 1)
           g == sent[b[r] + 1]
<1>0. Len(sent) \in Nat /\ MaxLen \in Nat /\ Sigma \in Nat \ {0} /\ setup \in Setups
      /\ sent \in Seq(Literal) /\ Len(sent) <= MaxLen
  BY LZWAssumption, LenProperties DEF TypeInv
<1>1. n \in Nat /\ r \in Nat /\ m \in Nat /\ r - 1 \in Nat /\ r - 1 <= MaxLen /\ r - 1 <= n
      /\ (r - 1) + 1 = r
  BY <1>0
<1>2. /\ r + 1 \in 1 .. n /\ r <= m /\ failed' = ~Decodable(k, d) /\ counter' = Current.counter + 1
      /\ Writes(d, k)
  BY DecodeFacts
<1>3. /\ d = Behind(l, ks, sent, b, r) /\ Current.counter \in Nat
      /\ Current.counter <= Len(d) + 1 /\ (l = 0 => Current.counter = r)
  BY CurrentIs
<1>4. Limit(l) /\ Dms \in Nat /\ Sigma + a < Dms
  BY <1>0, <1>1, Ranges
<1>5. Parsed(l, ks, n, sent, b) /\ Within(sent, b, r)
  <2>1. Parsed(l, ks, n, sent, b) /\ Within(sent, b, m)
    BY DEF EncInv
  <2>2. \A i \in 1 .. r : i \in 1 .. m
    BY <1>1, <1>2
  <2> QED
    BY <2>1, <2>2 DEF Within
<1> HIDE DEF l
<1>6. Completes(l, sent, ks, b, r)
  <2>1. r \in 1 .. n - 1
    BY <1>1, <1>2
  <2> QED
    BY <1>0, <1>1, <1>4, <1>5, <2>1, FactorCompletes
<1>7. /\ lo \in Nat /\ a \in Nat /\ lo + (a + 1) = r
      /\ p \in 0 .. Sigma + a - 1 /\ k \in 0 .. Sigma + a
      /\ Phrase(sent, b, r + 1) = Spelled(sent, b, lo, k)
      /\ Begins(Spelled(sent, b, lo, IF k < Sigma + a THEN k ELSE p), g)
  BY <1>6 DEF Completes
<1>8. Fresh(l, lo, a + 1) /\ Fresh(l, lo, a)
  <2>1. Fresh(l, lo, a + 1)
    BY <1>1, <1>4, FreshFacts
  <2>2. \A t \in 1 .. a : t \in 1 .. a + 1
    BY <1>7
  <2> QED
    BY <2>1, <2>2 DEF Fresh
<1>9. d = Window(ks, sent, b, lo, a)
  BY <1>3 DEF Behind
<1>10. prev = p /\ p # Dms
  <2>1. prev = p
    BY DEF DecInv
  <2>2. p \in 0 .. Sigma + a - 1 /\ a \in Nat
    BY <1>7
  <2> HIDE DEF p, a
  <2>3. p # Dms
    BY <1>0, <1>4, <2>2
  <2> QED
    BY <2>1, <2>3
<1> HIDE DEF d, lo, a, k, p, g
<1>11. Dictionary(l, sent, n, ks, b, lo, a)
  <2>1. lo + a <= n /\ \A i \in 1 .. lo + a : i \in 1 .. r
    BY <1>1, <1>2, <1>7
  <2>2. Within(sent, b, lo + a)
    BY <1>5, <2>1 DEF Within
  <2> QED
    BY <1>0, <1>1, <1>4, <1>5, <1>7, <1>8, <2>1, <2>2 DEF Dictionary
<1>12. Dictionary(l, sent, n, ks, b, lo, a + 1)
  <2>1. r <= n /\ a + 1 \in Nat
    BY <1>1, <1>2, <1>7
  <2> QED
    BY <1>0, <1>1, <1>4, <1>5, <1>7, <1>8, <2>1 DEF Dictionary
<1>13. Len(d) = a /\ Size(d, Sigma) = Sigma + a
  <2>1. Len(d) = a
    BY <1>7, <1>9, WindowLength
  <2> QED
    BY <2>1 DEF Size
<1>14. Decodable(k, d)
  BY <1>0, <1>7, <1>13 DEF Decodable
<1>15. PICK c \in Fronts(Rebuild(d, IF k < Size(d, Sigma) THEN k ELSE prev)) :
         /\ ddict' = IF k < Size(d, Sigma) /\ prev = Dms THEN d ELSE Insert(d, prev, c)
         /\ got' = got \o Rebuild(ddict', k)
  BY <1>2, <1>14 DEF Writes
<1>16. c = g
  <2> DEFINE e == IF k < Sigma + a THEN k ELSE p
  <2>1. e \in 0 .. Sigma + a - 1 /\ Sigma + a <= Dms
    BY <1>0, <1>4, <1>7
  <2>2. c \in Fronts(Rebuild(d, e))
    BY <1>10, <1>13, <1>15
  <2>3. Begins(Spelled(sent, b, lo, e), g)
    BY <1>7
  <2> HIDE DEF e
  <2>4. Rebuild(d, e) = Spelled(sent, b, lo, e)
    BY <1>4, <1>9, <1>11, <2>1, RebuildWindow DEF l
  <2>5. Fronts(Rebuild(d, e)) = {g}
    BY <2>3, <2>4, BeginsOne
  <2> QED
    BY <2>2, <2>5
<1>17. ddict' = Window(ks, sent, b, lo, a + 1)
  <2>1. ddict' = Insert(d, p, g)
    BY <1>10, <1>15, <1>16
  <2>2. Insert(Window(ks, sent, b, lo, a), ks[lo + (a + 1)], sent[b[lo + (a + 1)] + 1])
          = Window(ks, sent, b, lo, a + 1)
    BY <1>7, WindowGrows
  <2> QED
    BY <1>7, <1>9, <2>1, <2>2 DEF p, g
<1>18. Rebuild(ddict', k) = Phrase(sent, b, r + 1)
  <2> DEFINE h == a + 1
  <2>1. k \in 0 .. Sigma + h - 1 /\ Sigma + h <= Dms
    BY <1>0, <1>4, <1>7
  <2>2. Dictionary(l, sent, n, ks, b, lo, h)
    BY <1>12
  <2> HIDE DEF h
  <2>3. Rebuild(Window(ks, sent, b, lo, h), k) = Spelled(sent, b, lo, k)
    BY <1>4, <2>1, <2>2, RebuildWindow DEF l
  <2> QED
    BY <1>7, <1>17, <2>3 DEF h
<1>19. Len(ddict') = a + 1
  <2> DEFINE h == a + 1
  <2>1. h \in Nat
    BY <1>7
  <2> HIDE DEF h
  <2>2. Len(Window(ks, sent, b, lo, h)) = h
    BY <2>1, WindowLength
  <2> QED
    BY <1>17, <2>2 DEF h
<1>20. counter' <= Len(ddict') + 1 /\ (l = 0 => counter' = r + 1)
  <2>1. counter' = Current.counter + 1
    BY <1>2
  <2>2. Current.counter \in Nat /\ Current.counter <= Len(d) + 1 /\ (l = 0 => Current.counter = r)
    BY <1>3
  <2>3. Len(d) = a /\ Len(ddict') = a + 1 /\ a \in Nat
    BY <1>7, <1>13, <1>19
  <2> QED
    BY <2>1, <2>2, <2>3
<1>21. failed' = FALSE
  BY <1>2, <1>14, Zenon
<1> QED
  BY <1>15, <1>17, <1>18, <1>20, <1>21 DEF l, lo, a

\* Factor r + 1 is decoded.
Decodes(n, ks, b, at, r) ==
  /\ r + 1 \in 1 .. n /\ closed
  /\ pos' = at[r + 1] /\ prev' = ks[r + 1] /\ counter' \in Nat
  /\ setup' = setup /\ sent' = sent /\ closed' = closed /\ dict' = dict /\ node' = node
  /\ factors' = factors /\ wire' = wire
  /\ failed' = FALSE /\ got' = SubSeq(sent, 1, b[r + 1]) /\ b[r] < b[r + 1]
  /\ b[r] \in 0 .. Len(sent) /\ b[r + 1] \in 0 .. Len(sent)
  /\ ddict' = (IF r + 1 < 2 THEN <<>>
               ELSE Window(ks, sent, b, First(setup.limit, r - 1), Age(setup.limit, r - 1) + 1))
  /\ counter' <= Len(ddict') + 1 /\ (setup.limit = 0 => counter' = r + 1)

\* Its result is the state of a decoder that is a factor further.
LEMMA DecodeResult ==
  ASSUME Sizes, TypeInv, DecodeStep, NEW n \in 0 .. Len(sent), NEW m \in 0 .. n,
         NEW ks, NEW b, NEW at, NEW r \in 0 .. n,
         EncInv(n, m, ks, b), DecInv(n, ks, b, at, r)
  PROVE  Decodes(n, ks, b, at, r)
<1>1. Len(sent) \in Nat /\ sent \in Seq(Literal) /\ Len(wire) \in Nat
  BY LenProperties DEF TypeInv
<1> DEFINE t == r + 1
<1>4. /\ t \in 1 .. n /\ r <= m /\ closed
      /\ pos' = at[t] /\ counter' = Current.counter + 1 /\ prev' = ks[t]
      /\ setup' = setup /\ sent' = sent /\ closed' = closed /\ dict' = dict /\ node' = node
      /\ factors' = factors /\ wire' = wire
  <2>1. /\ t \in 1 .. n /\ r <= m /\ closed
        /\ pos' = at[t] /\ counter' = Current.counter + 1 /\ prev' = ks[t]
    BY DecodeFacts
  <2>2. /\ setup' = setup /\ sent' = sent /\ closed' = closed /\ dict' = dict /\ node' = node
        /\ factors' = factors /\ wire' = wire
    BY DEF DecodeStep, enc
  <2> QED
    BY <2>1, <2>2
<1>5. t \in 0 .. n /\ t \in Nat /\ t # 0 /\ r \in Nat /\ r \in 0 .. n /\ t - 1 = r
  BY <1>1, <1>4
<1>6. Current.counter \in Nat
  BY CurrentIs
<1>7. /\ failed' = FALSE /\ got' = got \o Phrase(sent, b, t)
      /\ ddict' = (IF r + 1 < 2 THEN <<>>
                  ELSE Window(ks, sent, b, First(setup.limit, r - 1), Age(setup.limit, r - 1) + 1))
      /\ counter' <= Len(ddict') + 1 /\ (setup.limit = 0 => counter' = t)
  <2>1. CASE r = 0
    <3>1. failed' = FALSE /\ ddict' = <<>> /\ got' = got \o Phrase(sent, b, 1) /\ counter' = 1
      BY <2>1, DecodeFirst
    <3>2. Len(<<>>) = 0 /\ t = 1
      BY <2>1
    <3> QED
      BY <2>1, <3>1, <3>2
  <2>2. CASE r # 0
    <3>1. ~ (r + 1 < 2)
      BY <1>5, <2>2
    <3> QED
      BY <2>2, <3>1, DecodeLater
  <2> QED
    BY <2>1, <2>2
<1>8. b[r] < b[t] /\ b[r] \in 0 .. Len(sent) /\ b[t] \in 0 .. Len(sent)
  <2>1. b[t - 1] < b[t] /\ b \in [0 .. n -> 0 .. Len(sent)]
    BY <1>4 DEF EncInv, Parsed
  <2> QED
    BY <1>5, <2>1
<1>9. got' = SubSeq(sent, 1, b[t])
  <2> DEFINE x == b[r]
             y == b[t]
  <2>1. got = SubSeq(sent, 1, x) /\ Phrase(sent, b, t) = SubSeq(sent, x + 1, y)
    BY <1>5 DEF DecInv, Phrase
  <2>2. x \in 0 .. Len(sent) /\ y \in 0 .. Len(sent) /\ x < y
    BY <1>8
  <2> HIDE DEF x, y
  <2>3. x \in 1 - 1 .. Len(sent) /\ y \in x .. Len(sent) /\ 1 \in 1 .. Len(sent) + 1
    BY <1>1, <2>2
  <2>4. SubSeq(sent, 1, x) \o SubSeq(sent, x + 1, y) = SubSeq(sent, 1, y)
    BY <1>1, <2>3, ConcatAdjacentSubSeq
  <2> QED
    BY <1>7, <2>1, <2>4 DEF y
<1>10. counter' \in Nat
  BY <1>4, <1>6
<1> QED
  BY <1>4, <1>7, <1>8, <1>9, <1>10 DEF Decodes

\* The decoder keeps the invariant.
LEMMA InvDecode == ASSUME Sizes, LZWInv, DecodeStep PROVE LZWInv'
<1>1. TypeInv /\ Len(sent) \in Nat /\ sent \in Seq(Literal) /\ Len(wire) \in Nat
  BY LenProperties DEF LZWInv, TypeInv
<1>20. PICK n \in 0 .. Len(sent) : \E m \in 0 .. n, r \in 0 .. n :
        \E ks \in [1 .. n -> Nat], b \in [0 .. n -> 0 .. Len(sent)],
           at \in [0 .. n -> 0 .. Len(wire)] :
          EncInv(n, m, ks, b) /\ DecInv(n, ks, b, at, r)
  BY DEF LZWInv
<1>2. PICK m \in 0 .. n, r \in 0 .. n :
        \E ks \in [1 .. n -> Nat], b \in [0 .. n -> 0 .. Len(sent)],
           at \in [0 .. n -> 0 .. Len(wire)] :
          EncInv(n, m, ks, b) /\ DecInv(n, ks, b, at, r)
  BY <1>20
<1>3. PICK ks \in [1 .. n -> Nat], b \in [0 .. n -> 0 .. Len(sent)],
           at \in [0 .. n -> 0 .. Len(wire)] :
        EncInv(n, m, ks, b) /\ DecInv(n, ks, b, at, r)
  BY <1>2
<1> DEFINE t == r + 1
<1>4. /\ t \in 1 .. n /\ closed /\ pos' = at[t] /\ prev' = ks[t] /\ counter' \in Nat
      /\ setup' = setup /\ sent' = sent /\ closed' = closed /\ dict' = dict /\ node' = node
      /\ factors' = factors /\ wire' = wire
      /\ failed' = FALSE /\ got' = SubSeq(sent, 1, b[t])
      /\ ddict' = (IF r + 1 < 2 THEN <<>>
                   ELSE Window(ks, sent, b, First(setup.limit, r - 1), Age(setup.limit, r - 1) + 1))
      /\ counter' <= Len(ddict') + 1 /\ (setup.limit = 0 => counter' = t)
  <2>1. EncInv(n, m, ks, b) /\ DecInv(n, ks, b, at, r)
    BY <1>3
  <2>2. Decodes(n, ks, b, at, r)
    BY <1>1, <2>1, DecodeResult
  <2> QED
    BY <2>2 DEF Decodes
<1>5. t \in 0 .. n /\ t \in Nat /\ t # 0
  BY <1>1, <1>4
<1>6. t - 2 = r - 1 /\ (t < 2 <=> r + 1 < 2)
  BY <1>1
<1> HIDE DEF t
<1>7. TypeInv'
  BY <1>1, <1>4 DEF TypeInv
<1>8. EncInv(n, m, ks, b)'
  BY <1>3, <1>4 DEF EncInv
<1>9. DecInv(n, ks, b, at, t)'
  <2>1. Codes(ks, n)' = Codes(ks, n)
    BY <1>4 DEF Codes, Code
  <2>2. Framed(n, Codes(ks, n), wire, at)'
    BY <1>3, <1>4, <2>1 DEF DecInv
  <2>3. ddict' = IF t < 2 THEN <<>>
                 ELSE Window(ks, sent', b, First(setup'.limit, t - 2), Age(setup'.limit, t - 2) + 1)
    BY <1>4, <1>6
  <2> QED
    BY <1>4, <1>5, <2>2, <2>3 DEF DecInv
<1> QED
  BY <1>3, <1>4, <1>5, <1>7, <1>8, <1>9 DEF LZWInv

\* A step of somebody else keeps it.
LEMMA InvStutter == ASSUME LZWInv, UNCHANGED vars PROVE LZWInv'
<1>1. /\ setup' = setup /\ sent' = sent /\ closed' = closed /\ dict' = dict /\ node' = node
      /\ factors' = factors /\ wire' = wire /\ pos' = pos /\ ddict' = ddict /\ prev' = prev
      /\ counter' = counter /\ failed' = failed /\ got' = got
  BY DEF vars, enc, dec
<1>20. PICK n \in 0 .. Len(sent) : \E m \in 0 .. n, r \in 0 .. n :
        \E ks \in [1 .. n -> Nat], b \in [0 .. n -> 0 .. Len(sent)],
           at \in [0 .. n -> 0 .. Len(wire)] :
          EncInv(n, m, ks, b) /\ DecInv(n, ks, b, at, r)
  BY DEF LZWInv
<1>2. PICK m \in 0 .. n, r \in 0 .. n :
        \E ks \in [1 .. n -> Nat], b \in [0 .. n -> 0 .. Len(sent)],
           at \in [0 .. n -> 0 .. Len(wire)] :
          EncInv(n, m, ks, b) /\ DecInv(n, ks, b, at, r)
  BY <1>20
<1>3. PICK ks \in [1 .. n -> Nat], b \in [0 .. n -> 0 .. Len(sent)],
           at \in [0 .. n -> 0 .. Len(wire)] :
        EncInv(n, m, ks, b) /\ DecInv(n, ks, b, at, r)
  BY <1>2
<1>4. TypeInv' /\ EncInv(n, m, ks, b)'
  BY <1>1, <1>3 DEF LZWInv, TypeInv, EncInv
<1>5. DecInv(n, ks, b, at, r)'
  <2>1. Codes(ks, n)' = Codes(ks, n) /\ Dms' = Dms
    BY <1>1 DEF Codes, Code, Dms
  <2> QED
    BY <1>1, <1>3, <2>1 DEF DecInv
<1> QED
  BY <1>1, <1>2, <1>3, <1>4, <1>5 DEF LZWInv

\* The invariant is inductive.
LEMMA InvNext == ASSUME Sizes, LZWInv, [Next]_vars PROVE LZWInv'
<1>1. CASE UNCHANGED vars
  BY <1>1, InvStutter
<1>2. ASSUME NEW c \in Literal, CompressFirst(c) PROVE LZWInv'
  BY <1>2, InvFirst
<1>3. ASSUME NEW c \in Literal, CompressChar(c) PROVE LZWInv'
  <2>1. CASE HasChild(dict, node, c)
    BY <1>3, <2>1, InvDescend
  <2>2. CASE ~HasChild(dict, node, c)
    BY <1>3, <2>2, InvInsert
  <2> QED
    BY <2>1, <2>2
<1>4. CASE Finish
  BY <1>4, InvFinishEmpty, InvFinish
<1>5. CASE DecodeStep
  BY <1>5, InvDecode
<1> QED
  BY <1>1, <1>2, <1>3, <1>4, <1>5 DEF Next

\* The invariant (LZWCompressor.hpp, LZWDecoding.hpp): whatever the alphabet, the
\* text, the limit of the dictionary and the kind of the coder, the factors parse
\* the text that was read, each is on the wire as the node of its phrase, and the
\* decompressor, whose dictionary is an entry behind, has written the phrases of
\* those it has read.
THEOREM LZWInvariant == ASSUME Sizes PROVE SafeSpec => []LZWInv
<1>1. Init => LZWInv
  BY InvInit
<1>2. LZWInv /\ [Next]_vars => LZWInv'
  BY InvNext
<1> QED
  BY <1>1, <1>2, PTL DEF SafeSpec

-----------------------------------------------------------------------------
(* What follows from it.                                                   *)

\* The witnesses of the invariant.
LEMMA Witnesses ==
  ASSUME LZWInv
  PROVE  \E n \in 0 .. Len(sent) : \E m \in 0 .. n, r \in 0 .. n : \E ks, b, at :
           EncInv(n, m, ks, b) /\ DecInv(n, ks, b, at, r)
BY DEF LZWInv

\* Nodes and positions are in range, and the dictionary is a trie.
LEMMA TypeFollows == ASSUME Sizes, LZWInv PROVE TypeOK
<1>1. TypeInv /\ Len(sent) \in Nat /\ sent \in Seq(Literal)
  BY LenProperties DEF LZWInv, TypeInv
<1>2. PICK n \in 0 .. Len(sent) : \E m \in 0 .. n, r \in 0 .. n : \E ks, b, at :
        EncInv(n, m, ks, b) /\ DecInv(n, ks, b, at, r)
  BY Witnesses
<1>3. PICK m \in 0 .. n, r \in 0 .. n : \E ks, b, at :
        EncInv(n, m, ks, b) /\ DecInv(n, ks, b, at, r)
  BY <1>2
<1>4. PICK ks, b, at : EncInv(n, m, ks, b) /\ DecInv(n, ks, b, at, r)
  BY <1>3
<1> DEFINE lo == First(setup.limit, m)
           a == Age(setup.limit, m)
<1>5. a \in Nat /\ Dictionary(setup.limit, sent, n, ks, b, lo, a) /\ Len(dict) = a
  <2>1. EncInv(n, m, ks, b)
    BY <1>4
  <2>2. Dictionary(setup.limit, sent, n, ks, b, lo, a) /\ Len(dict) = a
    BY <1>1, <2>1, DictFacts
  <2> QED
    BY <2>2 DEF Dictionary
<1>6. dict = Window(ks, sent, b, lo, a) /\ Distinct(dict, a)
      /\ (sent # <<>> => node \in Nat /\ node < Sigma + a)
  BY <1>4 DEF EncInv, LastPhrase
<1> HIDE DEF lo, a
<1>7. IsTrie(dict, Sigma)
  <2>1. Spells(Spelling(sent, b, lo, a), a, dict, Sigma, Letters)
    BY <1>5, <1>6, WindowFacts
  <2>2. \A t \in 1 .. a : dict[t].parent \in 0 .. Sigma + t - 2
    BY <2>1 DEF Spells
  <2> QED
    BY <1>5, <1>6, <2>2 DEF IsTrie, Distinct
<1>8. sent # <<>> => node \in 0 .. Size(dict, Sigma) - 1
  BY <1>5, <1>6, LZWAssumption DEF Size
<1>9. pos \in 0 .. Len(wire)
  <2>1. at \in [0 .. n -> 0 .. Len(wire)] /\ pos = at[r]
    BY <1>4 DEF DecInv, Framed
  <2>2. r \in 0 .. n
    BY <1>1
  <2> QED
    BY <2>1, <2>2
<1>10. got \in Seq(Literal)
  <2> DEFINE y == b[r]
  <2>1. b \in [0 .. n -> 0 .. Len(sent)] /\ got = SubSeq(sent, 1, y)
    BY <1>4 DEF EncInv, DecInv, Parsed
  <2>2. y \in 0 .. Len(sent)
    BY <1>1, <2>1
  <2> HIDE DEF y
  <2>3. \A j \in 1 .. y : sent[j] \in Literal
    BY <1>1, <2>2, ElementOfSeq
  <2>4. 1 \in Int /\ y \in Int
    BY <1>1, <2>2
  <2> QED
    BY <2>1, <2>3, <2>4, SubSeqProperties
<1> QED
  BY <1>1, <1>7, <1>8, <1>9, <1>10 DEF TypeOK, TypeInv

\* The parent of an entry is older, and its phrase is that of the entry's factor.
Parented(s, ks, b, lo, t) ==
  /\ ks[lo + t] \in 0 .. Sigma + t - 2
  /\ Phrase(s, b, lo + t) = Spelled(s, b, lo, ks[lo + t])

LEMMA EntryParented ==
  ASSUME NEW l, NEW s, NEW n, NEW ks, NEW b, NEW lo, NEW a, Dictionary(l, s, n, ks, b, lo, a)
  PROVE  \A t \in 1 .. a : Parented(s, ks, b, lo, t)
<1> SUFFICES ASSUME NEW t \in 1 .. a PROVE Parented(s, ks, b, lo, t)
  OBVIOUS
<1> QED
  BY SpelledExtends DEF Parented

\* The phrases of the trie, and their concatenation, are parts of the text.
LEMMA PartitionFollows == ASSUME Sizes, LZWInv PROVE ParsePartitions
<1> SUFFICES ASSUME setup.limit = 0
             PROVE  LET P == Phrases(dict, Sigma, Letters)
                        Cat[i \in 0 .. Len(dict)] ==
                          IF i = 0 THEN <<>> ELSE Cat[i - 1] \o P[dict[i].parent]
                    IN  /\ ~closed => Len(dict) = factors
                        /\ sent # <<>> => Cat[Len(dict)] \o P[node] = sent
                        /\ \A i, j \in DOMAIN P : P[i] = P[j] => i = j
  BY Zenon DEF ParsePartitions, Letters
<1>1. TypeInv /\ Len(sent) \in Nat /\ sent \in Seq(Literal) /\ Sigma \in Nat \ {0}
  BY LZWAssumption, LenProperties DEF LZWInv, TypeInv
<1>2. PICK n \in 0 .. Len(sent) : \E m \in 0 .. n, r \in 0 .. n : \E ks, b, at :
        EncInv(n, m, ks, b) /\ DecInv(n, ks, b, at, r)
  BY Witnesses
<1>3. PICK m \in 0 .. n, r \in 0 .. n : \E ks, b, at :
        EncInv(n, m, ks, b) /\ DecInv(n, ks, b, at, r)
  BY <1>2
<1>4. PICK ks, b, at : EncInv(n, m, ks, b) /\ DecInv(n, ks, b, at, r)
  BY <1>3
<1>5. m \in Nat /\ n \in Nat /\ m <= n /\ Age(0, m) = m /\ First(0, m) = 0
  BY <1>1 DEF Age, First
<1>6. Dictionary(0, sent, n, ks, b, 0, m) /\ Len(dict) = m
  <2>1. EncInv(n, m, ks, b)
    BY <1>4
  <2>2. /\ Dictionary(setup.limit, sent, n, ks, b, First(setup.limit, m), Age(setup.limit, m))
        /\ Len(dict) = Age(setup.limit, m)
    BY <1>1, <2>1, DictFacts
  <2> QED
    BY <1>5, <2>2
<1>7. /\ dict = Window(ks, sent, b, 0, m) /\ Distinct(dict, m)
      /\ (~closed => factors = m)
      /\ (sent # <<>> => LastPhrase(0, m, sent, b, node))
      /\ b \in [0 .. n -> 0 .. Len(sent)] /\ b[0] = 0 /\ Parsed(0, ks, n, sent, b)
  BY <1>4, <1>5 DEF EncInv, Parsed
<1> DEFINE P == Phrases(dict, Sigma, Letters)
           W == Spelling(sent, b, 0, m)
           R == [i \in 1 .. m |-> P[dict[i].parent]]
           Cat == CHOOSE f : f = [i \in 0 .. Len(dict) |->
                    IF i = 0 THEN <<>> ELSE f[i - 1] \o P[dict[i].parent]]
           c == [i \in 0 .. m |-> b[i]]
<1>8. Spells(W, m, dict, Sigma, Letters) /\ Rooted(Literal, W, Sigma, 1) /\ Labelled(Literal, dict, m)
  BY <1>6, <1>7, WindowFacts
<1>9. /\ DOMAIN P = 0 .. Sigma + m - 1
      /\ \A id \in 0 .. Sigma + m - 1 : P[id] = W[id] /\ W[id] = Spelled(sent, b, 0, id)
  <2>1. Len(dict) \in Nat /\ Spells(W, Len(dict), dict, Sigma, Letters)
    BY <1>5, <1>6, <1>8
  <2>2. \A id \in 0 .. Sigma + m - 1 : W[id] = Spelled(sent, b, 0, id)
    BY DEF Spelling
  <2>3. Size(dict, Sigma) = Sigma + m
    BY <1>6 DEF Size
  <2> HIDE DEF W, P
  <2>4. /\ DOMAIN P = 0 .. Size(dict, Sigma) - 1
        /\ \A id \in 0 .. Size(dict, Sigma) - 1 : P[id] = W[id]
    BY <1>1, <2>1, PhrasesAre DEF P
  <2>5. 0 .. Size(dict, Sigma) - 1 = 0 .. Sigma + m - 1
    <3>1. Sigma + m \in Int /\ Sigma \in Int /\ m \in Int
      BY <1>1, <1>5
    <3>2. Size(dict, Sigma) - 1 = Sigma + m - 1
      BY <2>3, <3>1
    <3> QED
      BY <3>2
  <2>6. /\ DOMAIN P = 0 .. Sigma + m - 1
        /\ \A id \in 0 .. Sigma + m - 1 : P[id] = W[id]
    BY <2>4, <2>5, Zenon
  <2> QED
    BY <2>2, <2>6, Zenon
<1> HIDE DEF P, W
<1>10. ASSUME NEW i \in 1 .. m PROVE R[i] = SubSeq(sent, b[i - 1] + 1, b[i])
  <2>1. /\ ks[0 + i] \in 0 .. Sigma + i - 2
        /\ Phrase(sent, b, 0 + i) = Spelled(sent, b, 0, ks[0 + i])
    <3>1. Dictionary(0, sent, n, ks, b, 0, m)
      BY <1>6
    <3>2. Parented(sent, ks, b, 0, i)
      BY <3>1, EntryParented
    <3> QED
      BY <3>2, Zenon DEF Parented
  <2>2. 0 + i = i
    BY <1>5
  <2>3. dict[i].parent = ks[i]
    BY <1>7, <2>2 DEF Window, Entry
  <2>4. ks[i] \in 0 .. Sigma + m - 1
    BY <1>1, <1>5, <2>1, <2>2
  <2>5. R[i] = P[ks[i]]
    BY <2>3
  <2> QED
    BY <1>9, <2>1, <2>2, <2>4, <2>5 DEF Phrase
<1>11. Parts(R, sent, c, m)
  <2>1. \A i \in 0 .. m : i \in 0 .. n /\ c[i] = b[i]
    BY <1>5
  <2>2. c \in [0 .. m -> 0 .. Len(sent)] /\ c[0] = 0
    BY <1>5, <1>7, <2>1
  <2>3. ASSUME NEW i \in 1 .. m
        PROVE  c[i - 1] < c[i] /\ R[i] = SubSeq(sent, c[i - 1] + 1, c[i])
    <3>1. i \in 1 .. n /\ i \in 0 .. m /\ i - 1 \in 0 .. m
      BY <1>5
    <3>2. b[i - 1] < b[i]
      BY <1>7, <3>1 DEF Parsed
    <3> HIDE DEF c, R
    <3> QED
      BY <1>10, <2>1, <3>1, <3>2
  <2> HIDE DEF c, R
  <2> QED
    BY <2>2, <2>3 DEF Parts
<1>12. Cat[m] = SubSeq(sent, 1, b[m])
  <2>1. \A i \in 1 .. m : R[i] = P[dict[i].parent]
    OBVIOUS
  <2>2. c[m] = b[m] /\ m \in 0 .. m
    BY <1>5
  <2> HIDE DEF R, c
  <2>3. ASSUME NEW f PROVE Joins(f, R, m) <=>
          f = [i \in 0 .. Len(dict) |-> IF i = 0 THEN <<>> ELSE f[i - 1] \o P[dict[i].parent]]
    <3>1. \A i \in 0 .. m : i # 0 => i \in 1 .. m
      BY <1>5
    <3>2. [i \in 0 .. m |-> IF i = 0 THEN <<>> ELSE f[i - 1] \o R[i]]
            = [i \in 0 .. m |-> IF i = 0 THEN <<>> ELSE f[i - 1] \o P[dict[i].parent]]
      BY <2>1, <3>1
    <3> QED
      BY <1>6, <3>2 DEF Joins
  <2>4. \E f : Joins(f, R, m)
    BY <1>1, <1>5, <1>11, JoinIs
  <2>5. Joins(Cat, R, m)
    BY <2>3, <2>4, Zenon DEF Cat
  <2> HIDE DEF Cat
  <2>6. \A i \in 0 .. m : Cat[i] = SubSeq(sent, 1, c[i])
    BY <1>1, <1>5, <1>11, <2>5, JoinIs
  <2> QED
    BY <2>2, <2>6
<1> HIDE DEF R, Cat, c
<1>13. sent # <<>> => Cat[m] \o P[node] = sent
  <2> SUFFICES ASSUME sent # <<>> PROVE Cat[m] \o P[node] = sent
    OBVIOUS
  <2> DEFINE x == b[m]
  <2>1. /\ node \in Nat /\ node < Sigma + m
        /\ SubSeq(sent, x + 1, Len(sent)) = Spelled(sent, b, 0, node)
    BY <1>5, <1>7 DEF LastPhrase
  <2>2. P[node] = SubSeq(sent, x + 1, Len(sent))
    <3>1. node \in 0 .. Sigma + m - 1
      BY <1>1, <1>5, <2>1
    <3> QED
      BY <1>9, <2>1, <3>1
  <2>3. x \in 0 .. Len(sent)
    BY <1>5, <1>7
  <2>4. Cat[m] \o P[node] = SubSeq(sent, 1, x) \o SubSeq(sent, x + 1, Len(sent))
    BY <1>12, <2>2
  <2> HIDE DEF x
  <2>5. x \in 1 - 1 .. Len(sent) /\ Len(sent) \in x .. Len(sent) /\ 1 \in 1 .. Len(sent) + 1
    BY <1>1, <2>3
  <2>6. SubSeq(sent, 1, x) \o SubSeq(sent, x + 1, Len(sent)) = SubSeq(sent, 1, Len(sent))
    <3>1. sent \in Seq(Literal)
      BY <1>1
    <3> QED
      BY <2>5, <3>1, ConcatAdjacentSubSeq
  <2> QED
    BY <1>1, <2>4, <2>6, SubSeqFull
<1>14. \A i, j \in DOMAIN P : P[i] = P[j] => i = j
  <2>1. \A i, j \in 0 .. Sigma + m - 1 : W[i] = W[j] => i = j
    <3>1. Sigma \in Nat /\ 1 \in Nat
      BY <1>1
    <3> QED
      BY <1>5, <1>7, <1>8, <3>1, SpellingDistinct
  <2> QED
    BY <1>9, <2>1
<1>15. /\ ~closed => Len(dict) = factors
       /\ sent # <<>> => Cat[Len(dict)] \o P[node] = sent
       /\ \A i, j \in DOMAIN P : P[i] = P[j] => i = j
  BY <1>6, <1>7, <1>13, <1>14
<1> QED
  BY <1>15, Zenon DEF P, Cat

\* The decoder keeps up.
LEMMA KeepsUpFollows == ASSUME Sizes, LZWInv PROVE DecoderKeepsUp
<1>1. TypeInv /\ Len(sent) \in Nat /\ Len(sent) <= MaxLen /\ MaxLen \in Nat
      /\ Sigma \in Nat \ {0} /\ setup \in Setups
  BY LZWAssumption, LenProperties DEF LZWInv, TypeInv
<1>2. PICK n \in 0 .. Len(sent) : \E m \in 0 .. n, r \in 0 .. n : \E ks, b, at :
        EncInv(n, m, ks, b) /\ DecInv(n, ks, b, at, r)
  BY Witnesses
<1>3. PICK m \in 0 .. n, r \in 0 .. n : \E ks, b, at :
        EncInv(n, m, ks, b) /\ DecInv(n, ks, b, at, r)
  BY <1>2
<1>4. PICK ks, b, at : EncInv(n, m, ks, b) /\ DecInv(n, ks, b, at, r)
  BY <1>3
<1> DEFINE l == setup.limit
           q == r - 2
           a == Age(l, q)
<1>5. ~failed /\ ddict = IF r < 2 THEN <<>> ELSE Window(ks, sent, b, First(l, q), a + 1)
  BY <1>4 DEF DecInv
<1>6. ASSUME l > Sigma PROVE Size(ddict, Sigma) <= l
  <2>1. CASE r < 2
    <3>1. Len(<<>>) = 0
      OBVIOUS
    <3>2. Limit(l) /\ 0 <= MaxLen
      BY <1>1, Ranges
    <3> QED
      BY <1>1, <1>5, <1>6, <2>1, <3>1, <3>2 DEF Size, Limit
  <2>2. CASE ~ (r < 2)
    <3>1. q \in Nat /\ q <= MaxLen
      BY <1>1, <2>2
    <3>2. Limit(l)
      BY <1>1, <3>1, Ranges
    <3> HIDE DEF l, q
    <3>3. l \in Nat /\ l # 0
      BY <1>1, <1>6, <3>2 DEF Limit
    <3>4. a \in 0 .. q /\ Sigma + a < l
      BY <3>1, <3>2, <3>3, AgeFacts
    <3> DEFINE h == a + 1
    <3>5. h \in Nat /\ Sigma + h <= l
      BY <1>1, <3>1, <3>3, <3>4
    <3>6. ddict = Window(ks, sent, b, First(l, q), h)
      BY <1>5, <2>2
    <3> HIDE DEF h, a
    <3>7. Len(ddict) = h
      BY <3>5, <3>6, WindowLength
    <3> QED
      BY <3>5, <3>7 DEF Size
  <2> QED
    BY <2>1, <2>2
<1> QED
  BY <1>5, <1>6, TypeFollows, PartitionFollows DEF DecoderKeepsUp

\* The compressor's parse is greedy and complete, and the decompressor never meets a
\* node it cannot decode, nor does its dictionary outgrow the limit
\* (LZWCompressor.hpp: compress; LZWDecoding.hpp: decode_step).
THEOREM DecoderKeepsUpHolds == ASSUME Sizes PROVE SafeSpec => []DecoderKeepsUp
<1>1. LZWInv => DecoderKeepsUp
  BY KeepsUpFollows
<1> QED
  BY <1>1, LZWInvariant, PTL

\* A beginning of the text.
LEMMA Beginning ==
  ASSUME NEW S, NEW s \in Seq(S), NEW y \in 0 .. Len(s)
  PROVE  Len(SubSeq(s, 1, y)) = y
<1>1. Len(s) \in Nat
  BY LenProperties
<1>2. 0 \in Nat /\ y \in 0 .. Len(s) /\ 0 <= y /\ y - 0 = y
  BY <1>1
<1>3. Len(SubSeq(s, 0 + 1, y)) = y - 0
  BY <1>2, SpanFacts
<1>4. 0 + 1 = 1
  OBVIOUS
<1> QED
  BY <1>2, <1>3, <1>4

\* A decoded factor is a delivery of the channel.
LEMMA DecodeDelivers == ASSUME Sizes, LZWInv, DecodeStep PROVE Channel!Deliver
<1>1. TypeInv /\ Len(sent) \in Nat /\ sent \in Seq(Literal)
  BY LenProperties DEF LZWInv, TypeInv
<1>2. PICK n \in 0 .. Len(sent) : \E m \in 0 .. n, r \in 0 .. n : \E ks, b, at :
        EncInv(n, m, ks, b) /\ DecInv(n, ks, b, at, r)
  BY Witnesses
<1>3. PICK m \in 0 .. n, r \in 0 .. n : \E ks, b, at :
        EncInv(n, m, ks, b) /\ DecInv(n, ks, b, at, r)
  BY <1>2
<1>4. PICK ks, b, at : EncInv(n, m, ks, b) /\ DecInv(n, ks, b, at, r)
  BY <1>3
<1> DEFINE x == b[r]
           y == b[r + 1]
<1>5. Decodes(n, ks, b, at, r)
  BY <1>1, <1>4, DecodeResult
<1>6. /\ sent' = sent /\ closed' = closed /\ got' = SubSeq(sent, 1, y)
      /\ x < y /\ x \in 0 .. Len(sent) /\ y \in 0 .. Len(sent)
  BY <1>5 DEF Decodes
<1>7. got = SubSeq(sent, 1, x)
  BY <1>4 DEF DecInv
<1> HIDE DEF x, y
<1>8. Len(got) = x
  BY <1>1, <1>6, <1>7, Beginning
<1>9. y \in Len(got) + 1 .. Len(sent)
  BY <1>1, <1>6, <1>8
<1> QED
  BY <1>6, <1>9 DEF Channel!Deliver

\* Every step of LZW is one of the channel or leaves it alone.
LEMMA StepRefines ==
  ASSUME Sizes, LZWInv, [Next]_vars
  PROVE  [Channel!Next]_(Channel!vars)
<1>1. CASE UNCHANGED vars
  BY <1>1 DEF vars, dec, Channel!vars
<1>2. ASSUME NEW c \in Literal, CompressFirst(c) PROVE Channel!Send
  <2>1. ~closed /\ sent = <<>> /\ sent' = <<c>> /\ got' = got /\ closed' = closed
    BY <1>2 DEF CompressFirst, dec
  <2>2. <<c>> = Append(<<>>, c)
    OBVIOUS
  <2> QED
    BY <2>1, <2>2 DEF Channel!Send
<1>3. ASSUME NEW c \in Literal, CompressChar(c) PROVE Channel!Send
  <2>1. ~closed /\ sent' = Append(sent, c) /\ got' = got /\ closed' = closed
    BY <1>3 DEF CompressChar, dec
  <2> QED
    BY <2>1 DEF Channel!Send
<1>4. CASE Finish
  <2>1. ~closed /\ closed' = TRUE /\ sent' = sent /\ got' = got
    BY <1>4 DEF Finish, dec
  <2> QED
    BY <2>1 DEF Channel!Close, Channel!Next
<1>5. CASE DecodeStep
  BY <1>5, DecodeDelivers DEF Channel!Next
<1> QED
  BY <1>1, <1>2, <1>3, <1>4, <1>5 DEF Next, Channel!Next

\* LZW loses, invents and changes nothing: a factor that is decoded delivers the
\* next part of the text, whenever the dictionaries were reset (the safety part of
\* ChannelSpec; LZWCompressor.hpp, LZWDecoding.hpp).
THEOREM LZWLossless == ASSUME Sizes PROVE SafeSpec => Channel!SafeSpec
<1>1. Init => Channel!Init
  BY DEF Init, Channel!Init
<1>2. LZWInv /\ [Next]_vars => [Channel!Next]_(Channel!vars)
  BY StepRefines
<1> QED
  BY <1>1, <1>2, LZWInvariant, PTL DEF SafeSpec, Channel!SafeSpec

\* What is written is a beginning of the text.
LEMMA RoundTripFollows == ASSUME Sizes, LZWInv PROVE RoundTrip
<1>1. TypeInv /\ Len(sent) \in Nat /\ sent \in Seq(Literal)
  BY LenProperties DEF LZWInv, TypeInv
<1>2. PICK n \in 0 .. Len(sent) : \E m \in 0 .. n, r \in 0 .. n : \E ks, b, at :
        EncInv(n, m, ks, b) /\ DecInv(n, ks, b, at, r)
  BY Witnesses
<1>3. PICK m \in 0 .. n, r \in 0 .. n : \E ks, b, at :
        EncInv(n, m, ks, b) /\ DecInv(n, ks, b, at, r)
  BY <1>2
<1>4. PICK ks, b, at : EncInv(n, m, ks, b) /\ DecInv(n, ks, b, at, r)
  BY <1>3
<1> DEFINE y == b[r]
<1>5. got = SubSeq(sent, 1, y) /\ y \in 0 .. Len(sent)
  BY <1>1, <1>4 DEF EncInv, DecInv, Parsed
<1> HIDE DEF y
<1>6. Len(got) = y
  BY <1>1, <1>5, Beginning
<1> QED
  BY <1>1, <1>5, <1>6 DEF RoundTrip

\* What is decompressed is always a beginning of the text, when the options keep the
\* nodes below the sentinel and, for the binary coder, a limit has the width of the
\* number of root nodes; RoundTrip is false of the options without that width.
THEOREM RoundTripHolds == ASSUME Sizes PROVE SafeSpec => []RoundTrip
<1>1. LZWInv => RoundTrip
  BY RoundTripFollows
<1> QED
  BY <1>1, LZWInvariant, PTL

\* When the wire is read to its end, the text is there in full: a decompressor that
\* stops has stopped at the right place (the loop of decode_step's caller).
ReadToTheEnd == closed /\ pos = Len(wire) => got = sent

\* A wire that is read to its end has brought all factors.
LEMMA EndFollows == ASSUME Sizes, LZWInv PROVE ReadToTheEnd
<1> SUFFICES ASSUME closed, pos = Len(wire) PROVE got = sent
  BY DEF ReadToTheEnd
<1>1. TypeInv /\ Len(sent) \in Nat /\ sent \in Seq(Literal) /\ wire \in Seq(Nat)
      /\ Len(sent) <= MaxLen /\ MaxLen \in Nat /\ setup \in Setups
  BY LenProperties, LZWAssumption DEF LZWInv, TypeInv
<1>2. PICK n \in 0 .. Len(sent) : \E m \in 0 .. n, r \in 0 .. n : \E ks, b, at :
        EncInv(n, m, ks, b) /\ DecInv(n, ks, b, at, r)
  BY Witnesses
<1>3. PICK m \in 0 .. n, r \in 0 .. n : \E ks, b, at :
        EncInv(n, m, ks, b) /\ DecInv(n, ks, b, at, r)
  BY <1>2
<1>4. PICK ks, b, at : EncInv(n, m, ks, b) /\ DecInv(n, ks, b, at, r)
  BY <1>3
<1>5. n \in Nat /\ r \in 0 .. n /\ n <= MaxLen
  BY <1>1
<1>6. /\ Framed(n, Codes(ks, n), wire, at) /\ pos = at[r] /\ got = SubSeq(sent, 1, b[r])
      /\ b[n] = Len(sent) /\ Parsed(setup.limit, ks, n, sent, b)
  BY <1>4 DEF EncInv, DecInv
<1>7. ASSUME NEW i \in 1 .. n PROVE Len(Codes(ks, n)[i]) \in Nat \ {0}
  <2> DEFINE j == i - 1
             x == Age(setup.limit, j) + Sigma
             k == ks[i]
  <2>1. j \in Nat /\ j <= MaxLen
    BY <1>1, <1>5
  <2>2. Fits(setup.binary, x) /\ setup.binary \in BOOLEAN /\ Age(setup.limit, j) \in 0 .. j
        /\ Sigma \in Nat
    BY <1>1, <2>1, Ranges
  <2>3. k \in Nat /\ k < Sigma + Age(setup.limit, j)
    BY <1>6 DEF Parsed
  <2>4. Codes(ks, n)[i] = Encoded(setup.binary, k, x)
    BY DEF Codes, Code
  <2> HIDE DEF j, k
  <2>5. k \in 0 .. x /\ x \in Nat
    BY <2>1, <2>2, <2>3
  <2> HIDE DEF x
  <2>6. Len(Encoded(setup.binary, k, x)) \in Nat \ {0}
    BY <2>2, <2>5, EncodedFacts
  <2> QED
    BY <2>4, <2>6
<1>8. r = n
  <2>1. at[r] = Len(wire)
    BY <1>6
  <2> QED
    BY <1>1, <1>5, <1>6, <1>7, <2>1, FramedEnd
<1> QED
  BY <1>1, <1>6, <1>8, SubSeqFull

\* The text is complete when the wire is read.
THEOREM LZWComplete == ASSUME Sizes PROVE SafeSpec => []ReadToTheEnd
<1>1. LZWInv => ReadToTheEnd
  BY EndFollows
<1> QED
  BY <1>1, LZWInvariant, PTL

-----------------------------------------------------------------------------
(* Both compressors.                                                       *)

LP == INSTANCE LZ78Proofs WITH Binary <- TRUE, MaxSize <- 0, MaxLen <- MaxLen + 1
UP == INSTANCE LZ78Proofs WITH Binary <- FALSE, MaxSize <- 0, MaxLen <- MaxLen + 1

\* A literal is made of bits, and no number is wider than a code of the binary coder
\* (vhash.hpp, BitIStream.hpp).
BothSizes ==
  /\ Sizes
  /\ \E w \in Nat \ {0} : Sigma = 2 ^ w
  /\ Sigma <= 2 ^ 64 /\ MaxLen + 1 < 2 ^ 64

\* The inductive invariant of the compressor that was chosen.
BothInv ==
  \/ compressor = "lz78_bit" /\ LP!LZ78Inv
  \/ compressor = "lz78_gamma" /\ UP!LZ78Inv
  \/ compressor = "lzw" /\ LZWInv

\* The sizes of LZ78 in the run.
LEMMA LZ78Sizes == ASSUME BothSizes PROVE LP!Sizes /\ UP!Sizes
<1>1. MaxLen + 1 \in Nat /\ Sigma \in Nat \ {0}
  BY LZWAssumption
<1>2. Sigma <= 2 ^ 64 /\ MaxLen + 1 < 2 ^ 64 /\ \E w \in Nat \ {0} : Sigma = 2 ^ w
  BY Zenon DEF BothSizes
<1>3. TRUE \in BOOLEAN /\ FALSE \in BOOLEAN /\ 0 = 0
  OBVIOUS
<1>4. LP!Sizes
  BY <1>1, <1>2, <1>3, Zenon DEF LP!Sizes
<1>5. UP!Sizes
  BY <1>1, <1>3, Zenon DEF UP!Sizes
<1> QED
  BY <1>4, <1>5

\* Each compressor starts with its invariant,
LEMMA BothInit == ASSUME BothSizes, MCInit PROVE BothInv
<1>1. CASE compressor = "lz78_bit" /\ L!Init
  <2>1. LP!Init
    BY <1>1 DEF LP!Init, L!Init, LP!NoLiteral, L!NoLiteral
  <2>2. LP!LZ78Inv
    BY <2>1, LZ78Sizes, LP!InvInit, PoolAssumption DEF LP!PoolAssumption
  <2> QED
    BY <1>1, <2>2 DEF BothInv
<1>2. CASE compressor = "lz78_gamma" /\ L!Init
  <2>1. UP!Init
    BY <1>2 DEF UP!Init, L!Init, UP!NoLiteral, L!NoLiteral
  <2>2. UP!LZ78Inv
    BY <2>1, LZ78Sizes, UP!InvInit, PoolAssumption DEF UP!PoolAssumption
  <2> QED
    BY <1>2, <2>2 DEF BothInv
<1>3. CASE compressor = "lzw" /\ Init
  <2>1. LZWInv
    BY <1>3, InvInit DEF BothSizes
  <2> QED
    BY <1>3, <2>1 DEF BothInv
<1> QED
  BY <1>1, <1>2, <1>3 DEF MCInit

\* The two instances of LZ78 with the binary coder, the one that is checked and the
\* one that is proved about, are the same.
LEMMA SameCodes ==
  /\ \A b, v, m : L!Encoded(b, v, m) = LP!Encoded(b, v, m)
  /\ \A b, w, p, m : L!Decoded(b, w, p, m) = LP!Decoded(b, w, p, m)
  /\ \A v, c : L!EncodeFactor(v, c) = LP!EncodeFactor(v, c)
  /\ \A v, c : L!Expand(v, c) = LP!Expand(v, c)
<1>1. \A v : L!BitsFor(v) = LP!BitsFor(v)
  BY Zenon DEF L!BitsFor, LP!BitsFor
<1>2. \A b, v, m : L!Encoded(b, v, m) = LP!Encoded(b, v, m)
  BY <1>1 DEF L!Encoded, LP!Encoded
<1>3. \A b, w, p, m : L!Decoded(b, w, p, m) = LP!Decoded(b, w, p, m)
  <2> SUFFICES ASSUME NEW b, NEW w, NEW p, NEW m
               PROVE  L!Decoded(b, w, p, m) = LP!Decoded(b, w, p, m)
    BY Zenon
  <2> QED
    BY Zenon DEF L!Decoded, LP!Decoded, L!BitsFor, LP!BitsFor
<1>4. \A v, c : L!EncodeFactor(v, c) = LP!EncodeFactor(v, c)
  BY <1>2, Zenon DEF L!EncodeFactor, LP!EncodeFactor
<1>5. \A v, c : L!Expand(v, c) = LP!Expand(v, c)
  BY Zenon DEF L!Expand, LP!Expand
<1> QED
  BY <1>2, <1>3, <1>4, <1>5

\* Their tries are the same,
LEMMA SameDictionary ==
  /\ \A d, r : L!Size(d, r) = LP!Size(d, r)
  /\ \A d, p, c : L!HasChild(d, p, c) = LP!HasChild(d, p, c)
  /\ \A d, r, p, c : L!Child(d, r, p, c) = LP!Child(d, r, p, c)
  /\ \A d, p, c : L!Insert(d, p, c) = LP!Insert(d, p, c)
  /\ \A d, r, s : L!Phrases(d, r, s) = LP!Phrases(d, r, s)
  /\ \A d, r : L!IsTrie(d, r) = LP!IsTrie(d, r)
<1>1. \A d, r : L!Size(d, r) = LP!Size(d, r)
  BY Zenon DEF L!Size, LP!Size
<1>2. \A d, p, c : L!HasChild(d, p, c) = LP!HasChild(d, p, c)
  BY DEF L!HasChild, LP!HasChild
<1>3. \A d, r, p, c : L!Child(d, r, p, c) = LP!Child(d, r, p, c)
  BY Zenon DEF L!Child, LP!Child
<1>4. \A d, p, c : L!Insert(d, p, c) = LP!Insert(d, p, c)
  BY Zenon DEF L!Insert, LP!Insert
<1>5. \A d, r, s : L!Phrases(d, r, s) = LP!Phrases(d, r, s)
  BY <1>1, Zenon DEF L!Phrases, LP!Phrases
<1>6. \A d, r : L!IsTrie(d, r) = LP!IsTrie(d, r)
  BY DEF L!IsTrie, LP!IsTrie
<1> QED
  BY <1>1, <1>2, <1>3, <1>4, <1>5, <1>6

\* their steps,
LEMMA SameNext == L!Next => LP!Next
<1>1. ASSUME NEW c \in L!Literal, L!CompressChar(c) PROVE LP!Next
  <2>1. LP!CompressChar(c)
    BY <1>1, SameCodes, SameDictionary DEF L!CompressChar, LP!CompressChar, L!Roots, LP!Roots,
      L!dec, LP!dec
  <2> QED
    BY <1>1, <2>1 DEF LP!Next, L!Literal, LP!Literal
<1>2. CASE L!Finish
  <2>1. L!Char(last) = LP!Char(last)
    BY Zenon DEF L!Char, LP!Char
  <2> QED
    BY <1>2, <2>1, SameCodes, Zenon DEF LP!Next, L!Finish, LP!Finish, L!dec, LP!dec
<1>3. CASE L!DecompressFactor
  BY <1>3, SameCodes, Zenon DEF LP!Next, L!DecompressFactor, LP!DecompressFactor, L!enc, LP!enc
<1> QED
  BY <1>1, <1>2, <1>3 DEF L!Next

\* and what is asked of them.
LEMMA SameAgreement == LP!DictsAgree => L!DictsAgree
<1>1. LP!TypeOK => L!TypeOK
  BY SameDictionary DEF L!TypeOK, LP!TypeOK, L!Literal, LP!Literal, L!Roots, LP!Roots,
    L!NoLiteral, LP!NoLiteral
<1>2. LP!ParsePartitions => L!ParsePartitions
  <2>1. L!Phrases(dict, L!Roots, [id \in {0} |-> <<>>]) = LP!Phrases(dict, LP!Roots, [id \in {0} |-> <<>>])
    BY SameDictionary, Zenon DEF L!Roots, LP!Roots
  <2> QED
    BY <2>1, Zenon DEF L!ParsePartitions, LP!ParsePartitions
<1> QED
  BY <1>1, <1>2, Zenon DEF L!DictsAgree, LP!DictsAgree

\* So are the two instances with the coder that ignores ranges.
LEMMA SameCodesU ==
  /\ \A b, v, m : U!Encoded(b, v, m) = UP!Encoded(b, v, m)
  /\ \A b, w, p, m : U!Decoded(b, w, p, m) = UP!Decoded(b, w, p, m)
  /\ \A v, c : U!EncodeFactor(v, c) = UP!EncodeFactor(v, c)
  /\ \A v, c : U!Expand(v, c) = UP!Expand(v, c)
<1>1. \A v : U!BitsFor(v) = UP!BitsFor(v)
  BY Zenon DEF U!BitsFor, UP!BitsFor
<1>2. \A b, v, m : U!Encoded(b, v, m) = UP!Encoded(b, v, m)
  BY <1>1 DEF U!Encoded, UP!Encoded
<1>3. \A b, w, p, m : U!Decoded(b, w, p, m) = UP!Decoded(b, w, p, m)
  <2> SUFFICES ASSUME NEW b, NEW w, NEW p, NEW m
               PROVE  U!Decoded(b, w, p, m) = UP!Decoded(b, w, p, m)
    BY Zenon
  <2> QED
    BY Zenon DEF U!Decoded, UP!Decoded, U!BitsFor, UP!BitsFor
<1>4. \A v, c : U!EncodeFactor(v, c) = UP!EncodeFactor(v, c)
  BY <1>2, Zenon DEF U!EncodeFactor, UP!EncodeFactor
<1>5. \A v, c : U!Expand(v, c) = UP!Expand(v, c)
  BY Zenon DEF U!Expand, UP!Expand
<1> QED
  BY <1>2, <1>3, <1>4, <1>5

\* Their tries are the same,
LEMMA SameDictionaryU ==
  /\ \A d, r : U!Size(d, r) = UP!Size(d, r)
  /\ \A d, p, c : U!HasChild(d, p, c) = UP!HasChild(d, p, c)
  /\ \A d, r, p, c : U!Child(d, r, p, c) = UP!Child(d, r, p, c)
  /\ \A d, p, c : U!Insert(d, p, c) = UP!Insert(d, p, c)
  /\ \A d, r, s : U!Phrases(d, r, s) = UP!Phrases(d, r, s)
  /\ \A d, r : U!IsTrie(d, r) = UP!IsTrie(d, r)
<1>1. \A d, r : U!Size(d, r) = UP!Size(d, r)
  BY Zenon DEF U!Size, UP!Size
<1>2. \A d, p, c : U!HasChild(d, p, c) = UP!HasChild(d, p, c)
  BY DEF U!HasChild, UP!HasChild
<1>3. \A d, r, p, c : U!Child(d, r, p, c) = UP!Child(d, r, p, c)
  BY Zenon DEF U!Child, UP!Child
<1>4. \A d, p, c : U!Insert(d, p, c) = UP!Insert(d, p, c)
  BY Zenon DEF U!Insert, UP!Insert
<1>5. \A d, r, s : U!Phrases(d, r, s) = UP!Phrases(d, r, s)
  BY <1>1, Zenon DEF U!Phrases, UP!Phrases
<1>6. \A d, r : U!IsTrie(d, r) = UP!IsTrie(d, r)
  BY DEF U!IsTrie, UP!IsTrie
<1> QED
  BY <1>1, <1>2, <1>3, <1>4, <1>5, <1>6

\* their steps,
LEMMA SameNextU == U!Next => UP!Next
<1>1. ASSUME NEW c \in U!Literal, U!CompressChar(c) PROVE UP!Next
  <2>1. UP!CompressChar(c)
    BY <1>1, SameCodesU, SameDictionaryU DEF U!CompressChar, UP!CompressChar, U!Roots, UP!Roots,
      U!dec, UP!dec
  <2> QED
    BY <1>1, <2>1 DEF UP!Next, U!Literal, UP!Literal
<1>2. CASE U!Finish
  <2>1. U!Char(last) = UP!Char(last)
    BY Zenon DEF U!Char, UP!Char
  <2> QED
    BY <1>2, <2>1, SameCodesU, Zenon DEF UP!Next, U!Finish, UP!Finish, U!dec, UP!dec
<1>3. CASE U!DecompressFactor
  BY <1>3, SameCodesU, Zenon DEF UP!Next, U!DecompressFactor, UP!DecompressFactor, U!enc, UP!enc
<1> QED
  BY <1>1, <1>2, <1>3 DEF U!Next

\* and what is asked of them.
LEMMA SameAgreementU == UP!DictsAgree => U!DictsAgree
<1>1. UP!TypeOK => U!TypeOK
  BY SameDictionaryU DEF U!TypeOK, UP!TypeOK, U!Literal, UP!Literal, U!Roots, UP!Roots,
    U!NoLiteral, UP!NoLiteral
<1>2. UP!ParsePartitions => U!ParsePartitions
  <2>1. U!Phrases(dict, U!Roots, [id \in {0} |-> <<>>]) = UP!Phrases(dict, UP!Roots, [id \in {0} |-> <<>>])
    BY SameDictionaryU, Zenon DEF U!Roots, UP!Roots
  <2> QED
    BY <2>1, Zenon DEF U!ParsePartitions, UP!ParsePartitions
<1> QED
  BY <1>1, <1>2, Zenon DEF U!DictsAgree, UP!DictsAgree

\* and keeps it.
LEMMA BothNext ==
  ASSUME BothSizes, BothInv, [LZ78Step \/ GammaStep \/ LZWStep]_bothVars PROVE BothInv'
<1>1. CASE UNCHANGED bothVars
  <2>1. compressor' = compressor /\ UNCHANGED vars /\ UNCHANGED LP!vars /\ UNCHANGED UP!vars
    BY <1>1 DEF bothVars, vars, enc, dec, lz78Vars, LP!vars, LP!enc, LP!dec, UP!vars, UP!enc, UP!dec
  <2>2. CASE compressor = "lz78_bit" /\ LP!LZ78Inv
    BY <2>1, <2>2, LZ78Sizes, LP!InvNext, PoolAssumption DEF BothInv, LP!PoolAssumption
  <2>3. CASE compressor = "lz78_gamma" /\ UP!LZ78Inv
    BY <2>1, <2>3, LZ78Sizes, UP!InvNext, PoolAssumption DEF BothInv, UP!PoolAssumption
  <2>4. CASE compressor = "lzw" /\ LZWInv
    BY <2>1, <2>4, InvNext DEF BothInv, BothSizes
  <2> QED
    BY <2>2, <2>3, <2>4 DEF BothInv
<1>2. CASE LZ78Step
  <2>1. compressor = "lz78_bit" /\ compressor' = compressor /\ LP!Next
    BY <1>2, SameNext DEF LZ78Step
  <2>2. LP!LZ78Inv
    BY <2>1 DEF BothInv
  <2> QED
    BY <2>1, <2>2, LZ78Sizes, LP!InvNext, PoolAssumption DEF BothInv, LP!PoolAssumption
<1>3. CASE GammaStep
  <2>1. compressor = "lz78_gamma" /\ compressor' = compressor /\ UP!Next
    BY <1>3, SameNextU DEF GammaStep
  <2>2. UP!LZ78Inv
    BY <2>1 DEF BothInv
  <2> QED
    BY <2>1, <2>2, LZ78Sizes, UP!InvNext, PoolAssumption DEF BothInv, UP!PoolAssumption
<1>4. CASE LZWStep
  <2>1. compressor = "lzw" /\ compressor' = compressor /\ Next
    BY <1>4 DEF LZWStep
  <2>2. LZWInv
    BY <2>1 DEF BothInv
  <2> QED
    BY <2>1, <2>2, InvNext DEF BothInv, BothSizes
<1> QED
  BY <1>1, <1>2, <1>3, <1>4

\* No two phrases of the dictionary are equal and the phrases make up the text, in
\* LZ78 and in LZW; the decompressor has the same dictionary, or lags by an entry,
\* and never meets a factor it cannot decode.
THEOREM MCDictsAgree == ASSUME BothSizes PROVE MCSpec => []DictsAgree
<1>1. MCInit => BothInv
  BY BothInit
<1>2. BothInv /\ [LZ78Step \/ GammaStep \/ LZWStep]_bothVars => BothInv'
  BY BothNext
<1>3. BothInv => DictsAgree
  <2>1. ASSUME BothInv, compressor = "lz78_bit" PROVE L!DictsAgree
    <3>1. LP!LZ78Inv
      BY <2>1 DEF BothInv
    <3>2. LP!DictsAgree
      BY <3>1, LZ78Sizes, LP!DictionariesFollow, PoolAssumption DEF LP!PoolAssumption
    <3> QED
      BY <3>2, SameAgreement
  <2>2. ASSUME BothInv, compressor = "lz78_gamma" PROVE U!DictsAgree
    <3>1. UP!LZ78Inv
      BY <2>2 DEF BothInv
    <3>2. UP!DictsAgree
      BY <3>1, LZ78Sizes, UP!DictionariesFollow, PoolAssumption DEF UP!PoolAssumption
    <3> QED
      BY <3>2, SameAgreementU
  <2>3. ASSUME BothInv, compressor = "lzw" PROVE DecoderKeepsUp
    <3>1. LZWInv
      BY <2>3 DEF BothInv
    <3> QED
      BY <3>1, KeepsUpFollows DEF BothSizes
  <2> QED
    BY <2>1, <2>2, <2>3 DEF DictsAgree
<1> QED
  BY <1>1, <1>2, <1>3, PTL DEF MCSpec

\* Neither loses, invents or changes a literal of the text.
THEOREM MCLossless == ASSUME BothSizes PROVE MCSpec => Channel!SafeSpec
<1>1. MCInit => Channel!Init
  BY DEF MCInit, L!Init, Init, Channel!Init
<1>2. BothInv /\ [LZ78Step \/ GammaStep \/ LZWStep]_bothVars => [Channel!Next]_(Channel!vars)
  <2> SUFFICES ASSUME BothInv, [LZ78Step \/ GammaStep \/ LZWStep]_bothVars
               PROVE  [Channel!Next]_(Channel!vars)
    OBVIOUS
  <2>1. CASE UNCHANGED bothVars
    BY <2>1 DEF bothVars, vars, dec, Channel!vars
  <2>2. CASE LZ78Step
    <3>1. LP!LZ78Inv /\ [LP!Next]_(LP!vars)
      BY <2>2, SameNext DEF LZ78Step, BothInv
    <3>2. [LP!Channel!Next]_(LP!Channel!vars)
      BY <3>1, LZ78Sizes, LP!StepRefines, PoolAssumption DEF LP!PoolAssumption
    <3> QED
      BY <3>2 DEF LP!Channel!Next, LP!Channel!vars, LP!Channel!Send, LP!Channel!Close,
        LP!Channel!Deliver, Channel!Next, Channel!vars, Channel!Send, Channel!Close,
        Channel!Deliver, LP!Literal, Literal
  <2>4. CASE GammaStep
    <3>1. UP!LZ78Inv /\ [UP!Next]_(UP!vars)
      BY <2>4, SameNextU DEF GammaStep, BothInv
    <3>2. [UP!Channel!Next]_(UP!Channel!vars)
      BY <3>1, LZ78Sizes, UP!StepRefines, PoolAssumption DEF UP!PoolAssumption
    <3> QED
      BY <3>2 DEF UP!Channel!Next, UP!Channel!vars, UP!Channel!Send, UP!Channel!Close,
        UP!Channel!Deliver, Channel!Next, Channel!vars, Channel!Send, Channel!Close,
        Channel!Deliver, UP!Literal, Literal
  <2>3. CASE LZWStep
    <3>1. LZWInv /\ Next
      BY <2>3 DEF LZWStep, BothInv
    <3> QED
      BY <3>1, StepRefines DEF BothSizes
  <2> QED
    BY <2>1, <2>2, <2>3, <2>4
<1>3. MCInit => BothInv
  BY BothInit
<1>4. BothInv /\ [LZ78Step \/ GammaStep \/ LZWStep]_bothVars => BothInv'
  BY BothNext
<1> QED
  BY <1>1, <1>2, <1>3, <1>4, PTL DEF MCSpec, Channel!SafeSpec
=============================================================================
