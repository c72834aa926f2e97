----------------------------- MODULE LZ78Proofs -----------------------------
(***************************************************************************)
(* Proofs about LZ78, for every alphabet, every text, the binary coder and *)
(* the coders that restore the low bits of a number below 0: the           *)
(* dictionaries agree, the decompressor writes what the compressor has     *)
(* read, and when it has read all the bits it has written all of the text. *)
(* The lemmas about the coder and the dictionary are in DataProofs.        *)
(***************************************************************************)
EXTENDS LZ78, DataProofs

-----------------------------------------------------------------------------
(* Texts that are cut into phrases.                                        *)

\* The i-th phrase of s, which ends at b[i].
Phrase(s, b, i) == IF i = 0 THEN <<>> ELSE SubSeq(s, b[i - 1] + 1, b[i])

\* Each of the phrases F is a former one and one more character.
Parsed(F, s, b) ==
  /\ b \in [0 .. Len(F) -> 0 .. Len(s)] /\ b[0] = 0
  /\ \A i \in 1 .. Len(F) :
       /\ F[i].parent \in 0 .. i - 1 /\ b[i - 1] < b[i]
       /\ Phrase(s, b, i) = Append(Phrase(s, b, F[i].parent), F[i].c)

\* A parsed text stays parsed when it grows behind its phrases,
LEMMA ParsedKept ==
  ASSUME NEW S, NEW s \in Seq(S), NEW c \in S, NEW F, Len(F) \in Nat, NEW b, Parsed(F, s, b)
  PROVE  /\ Parsed(F, Append(s, c), b)
         /\ \A i \in 0 .. Len(F) : Phrase(Append(s, c), b, i) = Phrase(s, b, i)
<1>1. Len(s) \in Nat /\ Len(Append(s, c)) = Len(s) + 1
  BY LenProperties, AppendProperties
<1>2. \A i \in 0 .. Len(F) : b[i] \in 0 .. Len(s)
  BY DEF Parsed
<1>3. ASSUME NEW i \in 0 .. Len(F)
      PROVE  Phrase(Append(s, c), b, i) = Phrase(s, b, i)
  <2>1. CASE i = 0
    BY <2>1 DEF Phrase
  <2>2. CASE i # 0
    <3>1. i - 1 \in 0 .. Len(F)
      BY <2>2
    <3>2. b[i - 1] \in Nat /\ b[i] \in 0 .. Len(s)
      BY <1>1, <1>2, <3>1
    <3> QED
      BY <2>2, <3>2, SpanKept DEF Phrase
  <2> QED
    BY <2>1, <2>2
<1>4. b \in [0 .. Len(F) -> 0 .. Len(Append(s, c))]
  BY <1>1 DEF Parsed
<1>5. ASSUME NEW i \in 1 .. Len(F)
      PROVE  Phrase(Append(s, c), b, i) = Append(Phrase(Append(s, c), b, F[i].parent), F[i].c)
  <2>1. F[i].parent \in 0 .. Len(F) /\ i \in 0 .. Len(F)
    BY DEF Parsed
  <2> QED
    BY <1>3, <2>1 DEF Parsed
<1> QED
  BY <1>3, <1>4, <1>5 DEF Parsed

\* What the phrases F leave of s is the phrase of e.
LastPhrase(F, s, b, e) ==
  /\ e.parent \in 0 .. Len(F) /\ b[Len(F)] < Len(s)
  /\ SubSeq(s, b[Len(F)] + 1, Len(s)) = Append(Phrase(s, b, e.parent), e.c)

\* and when a phrase is added at its end.
LEMMA ParsedGrows ==
  ASSUME NEW s, Len(s) \in Nat, NEW E, NEW F \in Seq(E), NEW b, Parsed(F, s, b),
         NEW e \in E, LastPhrase(F, s, b, e)
  PROVE  LET B == Longer(b, Len(F), Len(s))
         IN  /\ Parsed(Append(F, e), s, B) /\ B[Len(F) + 1] = Len(s)
             /\ \A k \in 0 .. Len(F) : B[k] = b[k] /\ Phrase(s, B, k) = Phrase(s, b, k)
<1> DEFINE n == Len(F)
           B == Longer(b, n, Len(s))
           G == Append(F, e)
<1>1. n \in Nat /\ Len(G) = n + 1 /\ G[n + 1] = e /\ \A i \in 1 .. n : G[i] = F[i]
  BY LenProperties, AppendProperties
<1> HIDE DEF n, G
<1>2. /\ b \in [0 .. n -> 0 .. Len(s)] /\ b[0] = 0 /\ e.parent \in 0 .. n /\ b[n] < Len(s)
      /\ SubSeq(s, b[n] + 1, Len(s)) = Append(Phrase(s, b, e.parent), e.c)
      /\ \A i \in 1 .. n :
           /\ F[i].parent \in 0 .. i - 1 /\ b[i - 1] < b[i]
           /\ Phrase(s, b, i) = Append(Phrase(s, b, F[i].parent), F[i].c)
  BY DEF Parsed, LastPhrase, n
<1>3. /\ B \in [0 .. n + 1 -> 0 .. Len(s)] /\ B[n + 1] = Len(s)
      /\ \A k \in 0 .. n : B[k] = b[k]
  <2>1. n \in Nat /\ b \in [0 .. n -> 0 .. Len(s)]
    BY <1>1, <1>2
  <2> QED
    BY <2>1 DEF Longer
<1> HIDE DEF B
<1>4. ASSUME NEW k \in 0 .. n PROVE Phrase(s, B, k) = Phrase(s, b, k)
  <2>1. k # 0 => k - 1 \in 0 .. n
    BY <1>1
  <2> QED
    BY <1>3, <2>1 DEF Phrase
<1>5. ASSUME NEW i \in 1 .. n + 1
      PROVE  /\ G[i].parent \in 0 .. i - 1 /\ B[i - 1] < B[i]
             /\ Phrase(s, B, i) = Append(Phrase(s, B, G[i].parent), G[i].c)
  <2>1. CASE i = n + 1
    <3>1. i - 1 = n /\ i # 0 /\ n \in 0 .. n /\ B[i - 1] = b[n] /\ B[i] = Len(s)
      BY <1>1, <1>3, <2>1
    <3>2. G[i] = e
      BY <1>1, <2>1
    <3>3. Phrase(s, B, i) = SubSeq(s, b[n] + 1, Len(s))
      BY <3>1 DEF Phrase
    <3> QED
      BY <1>2, <1>4, <3>1, <3>2, <3>3
  <2>2. CASE i # n + 1
    <3>1. i \in 1 .. n /\ i - 1 \in 0 .. n /\ i \in 0 .. n
      BY <1>1, <2>2
    <3>2. G[i] = F[i] /\ B[i] = b[i] /\ B[i - 1] = b[i - 1]
      BY <1>1, <1>3, <3>1
    <3>3. F[i].parent \in 0 .. i - 1
      BY <1>2, <3>1
    <3>4. F[i].parent \in 0 .. n
      BY <1>1, <3>1, <3>3
    <3> QED
      BY <1>2, <1>4, <3>1, <3>2, <3>3, <3>4
  <2> QED
    BY <2>1, <2>2
<1>6. B[0] = 0
  BY <1>1, <1>2, <1>3
<1>7. Parsed(G, s, B)
  BY <1>1, <1>3, <1>5, <1>6 DEF Parsed
<1> QED
  BY <1>3, <1>4, <1>7 DEF n, B, G
-----------------------------------------------------------------------------
(* Factors on the wire.                                                    *)

\* What the theorems suppose of the constants: an alphabet, no resets, and, if
\* numbers are written in binary, literals of some bits each and numbers that a
\* word of the machine can hold.
Sizes ==
  /\ Binary \in BOOLEAN /\ Sigma \in Nat \ {0} /\ MaxSize = 0 /\ MaxLen \in Nat
  /\ Binary => /\ \E w \in Nat \ {0} : Sigma = 2 ^ w
               /\ Sigma <= 2 ^ 64 /\ MaxLen < 2 ^ 64

Entry == [parent : Nat, c : Literal]

\* What the wire can hold in the place of a literal, and what it holds there for
\* the literal of the left-over: in binary the upper bits of a char are lost,
\* the other coders keep its sign.
Letters == IF Binary THEN Literal ELSE Int
Put(c) == IF Binary THEN c ELSE Char(c)
Item == [parent : Nat, c : Letters]

\* The i-th factor as it is written.
Word(e, i) == Encoded(Binary, e.parent, i - 1) \o Encoded(Binary, e.c, Sigma - 1)

\* w is the factors F, one after the other; the i-th ends at at[i].
Coded(F, w, at) ==
  /\ at \in [0 .. Len(F) -> 0 .. Len(w)] /\ at[0] = 0 /\ at[Len(F)] = Len(w)
  /\ \A i \in 1 .. Len(F) :
       /\ Len(Word(F[i], i)) \in Nat /\ at[i] = at[i - 1] + Len(Word(F[i], i))
       /\ Stands(Word(F[i], i), w, at[i - 1])

LEMMA CodedEnd ==
  ASSUME NEW F, NEW w, NEW at, Coded(F, w, at)
  PROVE  at[Len(F)] = Len(w)
BY DEF Coded

LEMMA LiteralRange == ASSUME Sizes PROVE Sigma - 1 \in Nat /\ Fits(Binary, Sigma - 1)
<1> DEFINE p == 2 ^ 64
<1>1. Sigma \in Nat \ {0} /\ (Binary => Sigma <= p)
  BY Zenon DEF Sizes
<1>2. p \in Nat
  BY PowerNext
<1> HIDE DEF p
<1>3. Sigma - 1 \in Nat /\ (Binary => Sigma - 1 < p)
  BY <1>1, <1>2
<1> QED
  BY <1>3 DEF p, Fits

LEMMA NumberRange ==
  ASSUME Sizes, NEW n \in Nat, n <= MaxLen
  PROVE  Fits(Binary, n)
<1> DEFINE p == 2 ^ 64
<1>1. MaxLen \in Nat /\ (Binary => MaxLen < p)
  BY Zenon DEF Sizes
<1>2. p \in Nat
  BY PowerNext
<1> HIDE DEF p
<1>3. Binary => n < p
  BY <1>1, <1>2
<1> QED
  BY <1>3 DEF p, Fits

\* A literal on the wire, and what the decoder makes of it.
LEMMA DigitFacts ==
  ASSUME Sizes, NEW c \in Letters
  PROVE  /\ Encoded(Binary, c, Sigma - 1) \in Seq(Int)
         /\ Len(Encoded(Binary, c, Sigma - 1)) \in Nat \ {0}
         /\ \A s : \A at \in Nat :
              Len(s) \in Nat /\ Stands(Encoded(Binary, c, Sigma - 1), s, at)
                => Decoded(Binary, s, at, Sigma - 1) =
                     [v |-> c, next |-> at + Len(Encoded(Binary, c, Sigma - 1))]
<1>1. Sigma - 1 \in Nat /\ Fits(Binary, Sigma - 1) /\ Binary \in BOOLEAN
  BY LiteralRange DEF Sizes
<1>2. CASE Binary
  <2>1. c \in 0 .. Sigma - 1
    BY <1>2 DEF Letters, Literal
  <2>2. /\ Encoded(Binary, c, Sigma - 1) \in Seq(Nat)
        /\ Len(Encoded(Binary, c, Sigma - 1)) \in Nat \ {0}
    BY <1>1, <2>1, EncodedFacts
  <2>3. Encoded(Binary, c, Sigma - 1) \in Seq(Int)
    BY <2>2
  <2>4. ASSUME NEW s, NEW at \in Nat, Len(s) \in Nat,
               Stands(Encoded(Binary, c, Sigma - 1), s, at)
        PROVE  Decoded(Binary, s, at, Sigma - 1) =
                 [v |-> c, next |-> at + Len(Encoded(Binary, c, Sigma - 1))]
    BY <1>1, <2>1, <2>4, ReadBack
  <2> QED
    BY <2>2, <2>3, <2>4
<1>3. CASE ~Binary
  <2>1. Encoded(Binary, c, Sigma - 1) = <<c>> /\ c \in Int
    BY <1>3 DEF Encoded, Letters
  <2>2. <<c>> \in Seq(Int) /\ Len(<<c>>) = 1 /\ <<c>>[1] = c
    BY <2>1
  <2> DEFINE u == <<c>>
  <2>3. ASSUME NEW s, NEW at \in Nat, Stands(u, s, at)
        PROVE  Decoded(Binary, s, at, Sigma - 1) = [v |-> c, next |-> at + Len(u)]
    <3>1. s[at + 1] = c
      BY <2>2, <2>3 DEF Stands
    <3> QED
      BY <1>3, <2>2, <3>1 DEF Decoded
  <2>4. Encoded(Binary, c, Sigma - 1) = u /\ u \in Seq(Int) /\ Len(u) \in Nat \ {0}
    BY <2>1, <2>2
  <2> HIDE DEF u
  <2> QED
    BY <2>3, <2>4, Zenon
<1> QED
  BY <1>2, <1>3

\* The literal of the left-over comes back as the literal it is.
LEMMA PutFacts ==
  ASSUME Sizes, NEW c \in Literal
  PROVE  /\ c \in Letters /\ c % Sigma = c
         /\ Put(c) \in Letters /\ Put(c) % Sigma = c
         /\ Encoded(Binary, Char(c), Sigma - 1) = Encoded(Binary, Put(c), Sigma - 1)
<1>1. Sigma \in Nat \ {0} /\ c \in 0 .. Sigma - 1 /\ Binary \in BOOLEAN
  BY DEF Sizes, Literal
<1>2. c % Sigma = c /\ Char(c) \in Int /\ Char(c) % Sigma = c
  <2>1. c % Sigma = c /\ (c - Sigma) % Sigma = c
    BY <1>1
  <2> QED
    BY <1>1, <2>1 DEF Char
<1>3. ASSUME Binary PROVE Encoded(TRUE, Char(c), Sigma - 1) = Encoded(TRUE, c, Sigma - 1)
  <2>1. PICK w \in Nat \ {0} : Sigma = 2 ^ w
    BY <1>3 DEF Sizes
  <2>2. 2 ^ w <= 2 ^ 64
    BY <1>3, <2>1 DEF Sizes
  <2>3. c \in 0 .. 2 ^ w - 1
    BY <2>1 DEF Literal
  <2>4. Encoded(TRUE, c - 2 ^ w, 2 ^ w - 1) = Encoded(TRUE, c, 2 ^ w - 1)
    BY <2>2, <2>3, TwosComplement
  <2> QED
    BY <2>1, <2>4, Zenon DEF Char
<1>4. CASE Binary
  <2>1. Put(c) = c /\ c \in Letters /\ Binary = TRUE
    BY <1>1, <1>4 DEF Put, Letters
  <2> QED
    BY <1>2, <1>3, <1>4, <2>1, Zenon
<1>5. CASE ~Binary
  BY <1>1, <1>2, <1>5 DEF Put, Letters
<1> QED
  BY <1>4, <1>5

\* A word is a number and a literal.
LEMMA WordFacts ==
  ASSUME Sizes, NEW i \in Nat \ {0}, i - 1 <= MaxLen,
         NEW e \in Item, e.parent \in 0 .. i - 1
  PROVE  LET id == Encoded(Binary, e.parent, i - 1)
             lit == Encoded(Binary, e.c, Sigma - 1)
         IN  /\ id \in Seq(Int) /\ lit \in Seq(Int) /\ Word(e, i) \in Seq(Int)
             /\ Len(id) \in Nat \ {0} /\ Len(lit) \in Nat \ {0}
             /\ Len(Word(e, i)) = Len(id) + Len(lit)
             /\ \A j \in 1 .. Len(id) : Word(e, i)[j] = id[j]
             /\ \A j \in 1 .. Len(lit) : Word(e, i)[Len(id) + j] = lit[j]
<1> DEFINE id == Encoded(Binary, e.parent, i - 1)
           lit == Encoded(Binary, e.c, Sigma - 1)
<1>0. i - 1 \in Nat /\ Binary \in BOOLEAN
  BY DEF Sizes
<1>1. Fits(Binary, i - 1)
  BY <1>0, NumberRange
<1>2. id \in Seq(Int) /\ Len(id) \in Nat \ {0}
  <2>1. id \in Seq(Nat) /\ Len(id) \in Nat \ {0}
    BY <1>0, <1>1, EncodedFacts
  <2> HIDE DEF id
  <2> QED
    BY <2>1
<1>4. e.c \in Letters
  BY DEF Item
<1>5. lit \in Seq(Int) /\ Len(lit) \in Nat \ {0}
  BY <1>4, DigitFacts
<1>6. Word(e, i) = id \o lit
  BY DEF Word
<1> HIDE DEF id, lit
<1>7. /\ id \o lit \in Seq(Int) /\ Len(id \o lit) = Len(id) + Len(lit)
      /\ \A j \in 1 .. Len(id) + Len(lit) :
           (id \o lit)[j] = IF j <= Len(id) THEN id[j] ELSE lit[j - Len(id)]
  BY <1>2, <1>5, ConcatProperties
<1>8. ASSUME NEW j \in 1 .. Len(id) PROVE (id \o lit)[j] = id[j]
  BY <1>2, <1>5, <1>7
<1>9. ASSUME NEW j \in 1 .. Len(lit) PROVE (id \o lit)[Len(id) + j] = lit[j]
  <2> DEFINE x == Len(id)
             y == Len(lit)
  <2>1. /\ x + j \in 1 .. x + y /\ ~ (x + j <= x) /\ x + j - x = j
    <3>1. x \in Nat /\ y \in Nat /\ j \in 1 .. y
      BY <1>2, <1>5
    <3> HIDE DEF x, y
    <3> QED
      BY <3>1
  <2> QED
    BY <1>7, <2>1
<1>10. /\ id \in Seq(Int) /\ lit \in Seq(Int) /\ Word(e, i) \in Seq(Int)
       /\ Len(id) \in Nat \ {0} /\ Len(lit) \in Nat \ {0}
       /\ Len(Word(e, i)) = Len(id) + Len(lit)
       /\ \A j \in 1 .. Len(id) : Word(e, i)[j] = id[j]
       /\ \A j \in 1 .. Len(lit) : Word(e, i)[Len(id) + j] = lit[j]
  BY <1>2, <1>5, <1>6, <1>7, <1>8, <1>9
<1> QED
  BY <1>10 DEF id, lit

\* The decoder reads a factor back.
LEMMA ReadWord ==
  ASSUME Sizes, NEW i \in Nat \ {0}, i - 1 <= MaxLen,
         NEW e \in Item, e.parent \in 0 .. i - 1,
         NEW w \in Seq(Int), NEW a \in Nat, Stands(Word(e, i), w, a)
  PROVE  LET id == Decoded(Binary, w, a, i - 1)
             lit == Decoded(Binary, w, id.next, Sigma - 1)
         IN  id.v = e.parent /\ lit.v = e.c /\ lit.next = a + Len(Word(e, i))
<1> DEFINE p == e.parent
           l == e.c
           m == i - 1
           k == Sigma - 1
           x == Encoded(Binary, p, m)
           y == Encoded(Binary, l, k)
           z == Word(e, i)
           b == a + Len(x)
<1>1. /\ Len(x) \in Nat \ {0} /\ Len(y) \in Nat \ {0} /\ Len(z) = Len(x) + Len(y)
      /\ \A j \in 1 .. Len(x) : z[j] = x[j]
      /\ \A j \in 1 .. Len(y) : z[Len(x) + j] = y[j]
  BY WordFacts
<1>2. m \in Nat /\ Binary \in BOOLEAN
  BY DEF Sizes
<1>3. Fits(Binary, m)
  BY <1>2, NumberRange
<1>5. p \in 0 .. m /\ l \in Letters
  BY DEF Item
<1>6. Len(w) \in Nat /\ Stands(z, w, a)
  BY LenProperties
<1> HIDE DEF p, l, m, z
<1>7. Stands(x, w, a) /\ Stands(y, w, b) /\ b \in Nat /\ b + Len(y) = a + Len(z)
  <2> HIDE DEF x, y, k
  <2>1. b \in Nat /\ b + Len(y) = a + Len(z) /\ a + Len(x) <= a + Len(z)
    BY <1>1
  <2>2. a + Len(z) <= Len(w) /\ \A j \in 1 .. Len(z) : w[a + j] = z[j]
    BY <1>6 DEF Stands
  <2>3. a + Len(x) <= Len(w) /\ b + Len(y) <= Len(w)
    <3>1. Len(z) \in Nat /\ Len(x) \in Nat /\ b \in Nat /\ Len(y) \in Nat /\ Len(w) \in Nat
      BY <1>1, <1>6, <2>1
    <3> QED
      BY <2>1, <2>2, <3>1
  <2>4. ASSUME NEW j \in 1 .. Len(x) PROVE w[a + j] = x[j]
    <3>1. j \in 1 .. Len(z)
      BY <1>1
    <3> QED
      BY <1>1, <2>2, <3>1
  <2>5. ASSUME NEW j \in 1 .. Len(y) PROVE w[b + j] = y[j]
    <3>1. Len(x) + j \in 1 .. Len(z) /\ a + (Len(x) + j) = b + j
      BY <1>1
    <3> QED
      BY <1>1, <2>2, <3>1
  <2> QED
    BY <2>1, <2>3, <2>4, <2>5 DEF Stands
<1>8. Decoded(Binary, w, a, m) = [v |-> p, next |-> a + Len(x)]
  BY <1>2, <1>3, <1>5, <1>6, <1>7, ReadBack
<1> HIDE DEF b
<1>9. Decoded(Binary, w, b, k) = [v |-> l, next |-> b + Len(y)]
  BY <1>5, <1>6, <1>7, DigitFacts
<1> HIDE DEF k
<1>10. a + Len(x) = b
  BY DEF b
<1> HIDE DEF x, y
<1>11. /\ Decoded(Binary, w, a, m).v = p
       /\ Decoded(Binary, w, Decoded(Binary, w, a, m).next, k).v = l
       /\ Decoded(Binary, w, Decoded(Binary, w, a, m).next, k).next = a + Len(z)
  BY <1>7, <1>8, <1>9, <1>10
<1> QED
  BY <1>11 DEF m, k, p, l, z

\* The factors are the words of a frame.
Words(F) == [i \in 1 .. Len(F) |-> Word(F[i], i)]

LEMMA CodedIsFramed ==
  ASSUME NEW F, NEW w, NEW at
  PROVE  Coded(F, w, at) <=> Framed(Len(F), Words(F), w, at)
<1>1. \A i \in 1 .. Len(F) : Words(F)[i] = Word(F[i], i)
  BY DEF Words
<1> QED
  BY <1>1 DEF Coded, Framed

\* Another factor is written.
LEMMA CodedGrows ==
  ASSUME NEW E, NEW F \in Seq(E), NEW e \in E, NEW w \in Seq(Int), NEW at, Coded(F, w, at),
         Word(e, Len(F) + 1) \in Seq(Int)
  PROVE  LET u == Word(e, Len(F) + 1)
             A == Longer(at, Len(F), Len(w) + Len(u))
         IN  Coded(Append(F, e), w \o u, A) /\ \A k \in 0 .. Len(F) : A[k] = at[k]
<1> DEFINE n == Len(F)
           u == Word(e, n + 1)
           A == Longer(at, n, Len(w) + Len(u))
           G == Append(F, e)
           W == Words(F)
           V == Words(G)
<1>1. n \in Nat /\ Len(G) = n + 1 /\ G[n + 1] = e /\ \A i \in 1 .. n : G[i] = F[i]
  BY LengthAppend
<1> HIDE DEF G
<1>2. Extends(V, W, n, u)
  <2>1. n + 1 \in 1 .. n + 1 /\ \A i \in 1 .. n : i \in 1 .. n + 1
    BY <1>1
  <2> QED
    BY <1>1, <2>1 DEF Words, Extends
<1>3. Framed(n, W, w, at)
  BY CodedIsFramed
<1>4. n \in Nat /\ u \in Seq(Int)
  BY <1>1
<1> HIDE DEF V, W, n, u
<1>5. Framed(n + 1, V, w \o u, A) /\ \A k \in 0 .. n : A[k] = at[k]
  BY <1>2, <1>3, <1>4, FramedGrows
<1>6. Coded(G, w \o u, A)
  BY <1>1, <1>5, CodedIsFramed DEF V
<1> QED
  BY <1>5, <1>6 DEF n, u, G
-----------------------------------------------------------------------------
(* Phrases and the functions that spell them.                              *)

Cut(b, n) == [k \in 0 .. n |-> b[k]]

\* All phrases but the last.
LEMMA ParsedPrefix ==
  ASSUME NEW E, NEW F \in Seq(E), NEW e \in E, NEW s, NEW b, Parsed(Append(F, e), s, b)
  PROVE  /\ b \in [0 .. Len(F) + 1 -> 0 .. Len(s)]
         /\ Parsed(F, s, Cut(b, Len(F)))
         /\ \A i \in 0 .. Len(F) : Phrase(s, Cut(b, Len(F)), i) = Phrase(s, b, i)
<1> DEFINE n == Len(F)
           G == Append(F, e)
           p == Cut(b, n)
<1>1. n \in Nat /\ Len(G) = n + 1 /\ \A i \in 1 .. n : G[i] = F[i]
  BY LenProperties, AppendProperties
<1> HIDE DEF G
<1>2. /\ b \in [0 .. n + 1 -> 0 .. Len(s)] /\ b[0] = 0
      /\ \A i \in 1 .. n + 1 :
           /\ G[i].parent \in 0 .. i - 1 /\ b[i - 1] < b[i]
           /\ Phrase(s, b, i) = Append(Phrase(s, b, G[i].parent), G[i].c)
  BY <1>1 DEF Parsed, G
<1> HIDE DEF n
<1>3. \A k \in 0 .. n : p[k] = b[k] /\ k \in 0 .. n + 1
  BY <1>1 DEF Cut
<1>4. p \in [0 .. n -> 0 .. Len(s)] /\ p[0] = 0
  BY <1>1, <1>2 DEF Cut
<1> HIDE DEF p
<1>5. ASSUME NEW i \in 0 .. n PROVE Phrase(s, p, i) = Phrase(s, b, i)
  <2>1. i # 0 => i - 1 \in 0 .. n
    BY <1>1
  <2> QED
    BY <1>3, <2>1 DEF Phrase
<1>6. ASSUME NEW i \in 1 .. n
      PROVE  /\ F[i].parent \in 0 .. i - 1 /\ p[i - 1] < p[i]
             /\ Phrase(s, p, i) = Append(Phrase(s, p, F[i].parent), F[i].c)
  <2>1. i \in 1 .. n + 1 /\ i - 1 \in 0 .. n /\ i \in 0 .. n /\ G[i] = F[i]
    BY <1>1
  <2>2. F[i].parent \in 0 .. i - 1
    BY <1>2, <2>1
  <2>3. F[i].parent \in 0 .. n
    BY <1>1, <2>1, <2>2
  <2> QED
    BY <1>2, <1>3, <1>5, <2>1, <2>2, <2>3
<1>7. Parsed(F, s, p)
  BY <1>4, <1>6 DEF Parsed, n
<1> QED
  BY <1>2, <1>5, <1>7 DEF n, p

LEMMA PhraseType ==
  ASSUME NEW S, NEW s \in Seq(S), NEW F, Len(F) \in Nat, NEW b, Parsed(F, s, b),
         NEW i \in 0 .. Len(F)
  PROVE  Phrase(s, b, i) \in Seq(S)
<1>1. CASE i = 0
  BY <1>1 DEF Phrase
<1>2. CASE i # 0
  <2>1. i - 1 \in 0 .. Len(F)
    BY <1>2
  <2>2. b[i - 1] \in 0 .. Len(s) /\ b[i] \in 0 .. Len(s) /\ Len(s) \in Nat
    BY <2>1, LenProperties DEF Parsed
  <2>3. \A k \in b[i - 1] + 1 .. b[i] : s[k] \in S
    <3>1. \A k \in b[i - 1] + 1 .. b[i] : k \in 1 .. Len(s)
      BY <2>2
    <3> QED
      BY <3>1
  <2>4. b[i - 1] + 1 \in Int /\ b[i] \in Int
    BY <2>2
  <2>5. SubSeq(s, b[i - 1] + 1, b[i]) \in Seq(S)
    BY <2>3, <2>4, SubSeqProperties
  <2> QED
    BY <1>2, <2>5 DEF Phrase
<1> QED
  BY <1>1, <1>2

\* The phrases are what the trie of the factors spells.
Root == [id \in {0} |-> <<>>]
Spelled(F, s, b) == [i \in 0 .. Len(F) |-> Phrase(s, b, i)]

LEMMA ParsedSpells ==
  ASSUME NEW s, NEW F, Len(F) \in Nat, NEW b, Parsed(F, s, b)
  PROVE  Spells(Spelled(F, s, b), Len(F), F, Roots, Root)
<1> DEFINE n == Len(F)
           W == Spelled(F, s, b)
<1>1. \A i \in 0 .. n : W[i] = Phrase(s, b, i)
  BY DEF Spelled
<1> HIDE DEF W
<1>2. \A id \in 0 .. Roots - 1 : W[id] = Root[id]
  <2>1. \A id \in 0 .. Roots - 1 : id = 0 /\ id \in 0 .. n
    BY DEF Roots
  <2> QED
    BY <1>1, <2>1 DEF Root, Phrase
<1>3. ASSUME NEW t \in 1 .. n
      PROVE  /\ F[t].parent \in 0 .. Roots + t - 2
             /\ W[Roots - 1 + t] = Append(W[F[t].parent], F[t].c)
  <2>1. /\ F[t].parent \in 0 .. t - 1
        /\ Phrase(s, b, t) = Append(Phrase(s, b, F[t].parent), F[t].c)
    BY DEF Parsed
  <2>2. F[t].parent \in 0 .. n /\ t \in 0 .. n
    BY <2>1
  <2>3. Roots - 1 + t = t /\ Roots + t - 2 = t - 1
    BY DEF Roots
  <2> QED
    BY <1>1, <2>1, <2>2, <2>3
<1> QED
  BY <1>2, <1>3 DEF Spells, W

\* No phrase comes twice if no entry does.
LEMMA PhrasesDistinct ==
  ASSUME NEW s \in Seq(Literal), NEW F \in Seq(Entry), NEW b, Parsed(F, s, b),
         \A i, j \in 1 .. Len(F) : F[i] = F[j] => i = j
  PROVE  \A i, j \in 0 .. Len(F) : Phrase(s, b, i) = Phrase(s, b, j) => i = j
<1> DEFINE n == Len(F)
           W == Spelled(F, s, b)
<1>1. n \in Nat /\ \A t \in 1 .. n : F[t] \in Entry
  BY LenProperties
<1>2. Labelled(Literal, F, n) /\ Distinct(F, n)
  BY <1>1 DEF Entry, Labelled, Distinct
<1>3. Spells(W, n, F, Roots, Root)
  BY <1>1, ParsedSpells
<1>4. \A id \in 0 .. Roots - 1 : id = 0 /\ W[id] = <<>>
  BY <1>1 DEF Roots, Spelled, Phrase
<1>5. Rooted(Literal, W, Roots, 0)
  <2>1. <<>> \in Seq(Literal) /\ Len(<<>>) = 0
    OBVIOUS
  <2> QED
    BY <1>4, <2>1 DEF Rooted
<1>6. Roots \in Nat /\ Roots + n - 1 = n
  BY <1>1 DEF Roots
<1> HIDE DEF W, n
<1>7. \A i, j \in 0 .. Roots + n - 1 : W[i] = W[j] => i = j
  BY <1>1, <1>2, <1>3, <1>5, <1>6, SpellingDistinct
<1> QED
  BY <1>6, <1>7 DEF W, n, Spelled

\* The decompressor has the first of the factors F.
HasRead(F) ==
  /\ Len(indices) \in 0 .. Len(F)
  /\ \A i \in 1 .. Len(indices) : indices[i] = F[i].parent /\ literals[i] = F[i].c

\* It spells the phrase it is told to extend.
LEMMA ExpandIs ==
  ASSUME NEW s, NEW F, NEW b, Parsed(F, s, b), Len(F) \in Nat, HasRead(F),
         NEW k \in 0 .. Len(indices), NEW c
  PROVE  Expand(k, c) = Append(Phrase(s, b, k), c)
<1> DEFINE n == Len(indices)
           V == CHOOSE f : f = [i \in 0 .. n |->
                                  IF i = 0 THEN <<>> ELSE Append(f[indices[i]], literals[i])]
           W == [i \in 0 .. n |-> Phrase(s, b, i)]
<1>1. n \in Nat /\ n <= Len(F)
  BY DEF HasRead
<1>2. Expand(k, c) = Append(V[k], c)
  BY Zenon DEF Expand, V
<1>3. \A i \in 1 .. n : /\ F[i].parent \in 0 .. i - 1
                         /\ indices[i] = F[i].parent /\ literals[i] = F[i].c
                         /\ Phrase(s, b, i) = Append(Phrase(s, b, F[i].parent), F[i].c)
  <2>1. \A i \in 1 .. n : i \in 1 .. Len(F)
    BY <1>1
  <2> QED
    BY <2>1 DEF Parsed, HasRead
<1>4. k \in 0 .. n
  OBVIOUS
<1> HIDE DEF n
<1>5. \A i \in 0 .. n : W[i] = Phrase(s, b, i)
  OBVIOUS
<1>6. ASSUME NEW i \in 0 .. n
      PROVE  W[i] = IF i = 0 THEN <<>> ELSE Append(W[indices[i]], literals[i])
  <2>1. CASE i = 0
    BY <1>5, <2>1 DEF Phrase
  <2>2. CASE i # 0
    <3>1. i \in 1 .. n
      BY <1>1, <2>2
    <3>2. indices[i] \in 0 .. i - 1
      BY <1>3, <3>1
    <3>3. indices[i] \in 0 .. n
      BY <1>1, <3>1, <3>2
    <3> QED
      BY <1>3, <1>5, <2>2, <3>1, <3>3
  <2> QED
    BY <2>1, <2>2
<1>7. W = [i \in 0 .. n |-> IF i = 0 THEN <<>> ELSE Append(W[indices[i]], literals[i])]
  BY <1>6, Zenon
<1>8. V = [i \in 0 .. n |-> IF i = 0 THEN <<>> ELSE Append(V[indices[i]], literals[i])]
  BY <1>7, Zenon
<1> HIDE DEF V, W
<1>9. Spells(V, n, F, Roots, Root) /\ Spells(W, n, F, Roots, Root)
  <2>1. \A i \in 1 .. n : /\ i \in 0 .. n /\ i # 0
                          /\ Roots - 1 + i = i /\ Roots + i - 2 = i - 1
    BY <1>1 DEF Roots
  <2>2. 0 \in 0 .. n /\ \A id \in 0 .. Roots - 1 : id = 0 /\ Root[id] = <<>>
    BY <1>1 DEF Roots, Root
  <2>3. V[0] = <<>> /\ \A i \in 1 .. n : V[i] = Append(V[indices[i]], literals[i])
    BY <1>8, <2>1, <2>2
  <2>4. W[0] = <<>> /\ \A i \in 1 .. n : W[i] = Append(W[indices[i]], literals[i])
    BY <1>6, <2>1, <2>2
  <2>5. \A i \in 1 .. n : F[i].parent \in 0 .. Roots + i - 2
                          /\ F[i].parent = indices[i] /\ F[i].c = literals[i]
    BY <1>3, <2>1
  <2>6. Spells(V, n, F, Roots, Root)
    BY <2>1, <2>2, <2>3, <2>5 DEF Spells
  <2>7. Spells(W, n, F, Roots, Root)
    BY <2>1, <2>2, <2>4, <2>5 DEF Spells
  <2> QED
    BY <2>6, <2>7
<1>10. V[k] = W[k]
  <2>1. Roots \in Nat /\ Roots + n - 1 = n
    BY <1>1 DEF Roots
  <2>2. \A i \in 0 .. Roots + n - 1 : V[i] = W[i]
    BY <1>1, <1>9, <2>1, SpellingUnique
  <2> QED
    BY <1>4, <2>1, <2>2
<1> QED
  BY <1>2, <1>4, <1>5, <1>10

\* The dictionary spells the phrases.
LEMMA DictionarySpells ==
  ASSUME NEW s, NEW F, NEW b, Parsed(F, s, b), Len(F) \in Nat
  PROVE  \A k \in 0 .. Len(F) : Phrases(F, Roots, Root)[k] = Phrase(s, b, k)
<1> DEFINE n == Len(F)
           W == Spelled(F, s, b)
<1>1. Roots \in Nat \ {0} /\ Size(F, Roots) - 1 = n
  BY DEF Roots, Size
<1>2. Spells(W, n, F, Roots, Root)
  BY ParsedSpells
<1>3. \A k \in 0 .. n : W[k] = Phrase(s, b, k)
  BY DEF Spelled
<1> HIDE DEF W
<1>4. \A k \in 0 .. Size(F, Roots) - 1 : Phrases(F, Roots, Root)[k] = W[k]
  BY <1>1, <1>2, PhrasesAre
<1> QED
  BY <1>1, <1>3, <1>4

-----------------------------------------------------------------------------
(* The inductive invariant.                                                *)

\* The factors that are written: an entry each, and the left-over.
Factors ==
  IF closed /\ node # 0 THEN Append(dict, [parent |-> parent, c |-> last]) ELSE dict

\* The same as they stand on the wire.
Written ==
  IF closed /\ node # 0 THEN Append(dict, [parent |-> parent, c |-> Put(last)]) ELSE dict

TypeInv ==
  /\ sent \in Seq(Literal) /\ closed \in BOOLEAN
  /\ dict \in Seq(Entry) /\ wire \in Seq(Int)
  /\ node \in 0 .. Len(dict) /\ parent \in 0 .. Len(dict)
  /\ last \in Literal \cup {NoLiteral}
  /\ pos \in Nat /\ indices \in Seq(Nat) /\ literals \in Seq(Literal)
  /\ Len(literals) = Len(indices) /\ got \in Seq(Literal)

\* The node, and how much there is of everything.
NodeInv ==
  /\ node # 0 => dict[node] = [parent |-> parent, c |-> last]
  /\ \A i, j \in 1 .. Len(dict) : dict[i] = dict[j] => i = j
  /\ factors = Len(Factors)
  /\ Len(sent) <= MaxLen /\ Len(dict) <= Len(sent)
  /\ node # 0 => Len(dict) < Len(sent)

\* The factors parse the text; what they do not reach is the phrase of the node.
TextInv(b) ==
  /\ Parsed(Factors, sent, b)
  /\ IF closed THEN b[Len(Factors)] = Len(sent)
     ELSE SubSeq(sent, b[Len(dict)] + 1, Len(sent)) = Phrase(sent, b, node)

\* The decompressor has read some of the factors, and written their phrases.
ReadInv(b, at) ==
  /\ Coded(Written, wire, at)
  /\ ~closed => indices = <<>>
  /\ Len(indices) <= Len(Factors)
  /\ \A i \in 1 .. Len(indices) :
       indices[i] = Factors[i].parent /\ literals[i] = Factors[i].c
  /\ pos = at[Len(indices)]
  /\ got = SubSeq(sent, 1, b[Len(indices)])

LZ78Inv ==
  /\ TypeInv
  /\ NodeInv
  /\ \E b \in [0 .. Len(Factors) -> 0 .. Len(sent)],
        at \in [0 .. Len(Factors) -> 0 .. Len(wire)] : TextInv(b) /\ ReadInv(b, at)

\* There are at most as many factors as characters.
LEMMA FactorsFacts ==
  ASSUME Sizes, TypeInv, NodeInv
  PROVE  /\ Factors \in Seq(Entry) /\ Len(Factors) \in Nat /\ Len(Factors) <= MaxLen
         /\ Len(dict) \in Nat /\ Len(sent) \in Nat
<1>1. Len(dict) \in Nat /\ Len(sent) \in Nat /\ dict \in Seq(Entry) /\ MaxLen \in Nat
  BY LenProperties DEF TypeInv, Sizes
<1>2. CASE closed /\ node # 0
  <2> DEFINE e == [parent |-> parent, c |-> last]
  <2>1. node \in 1 .. Len(dict)
    BY <1>1, <1>2 DEF TypeInv
  <2>2. e \in Entry
    BY <1>1, <1>2, <2>1, ElementOfSeq DEF NodeInv
  <2>3. Factors = Append(dict, e)
    BY <1>2 DEF Factors
  <2> HIDE DEF e
  <2>4. Append(dict, e) \in Seq(Entry) /\ Len(Append(dict, e)) = Len(dict) + 1
    BY <1>1, <2>2, AppendProperties
  <2>5. Len(dict) < Len(sent) /\ Len(sent) <= MaxLen
    BY <1>2 DEF NodeInv
  <2> QED
    BY <1>1, <2>3, <2>4, <2>5
<1>3. CASE ~ (closed /\ node # 0)
  <2>1. Factors = dict
    BY <1>3 DEF Factors
  <2>2. Len(dict) <= Len(sent) /\ Len(sent) <= MaxLen
    BY DEF NodeInv
  <2> QED
    BY <1>1, <2>1, <2>2
<1> QED
  BY <1>2, <1>3

\* An entry is written as it is, but for the left-over.
LEMMA WrittenFacts ==
  ASSUME Sizes, TypeInv, NodeInv
  PROVE  /\ Entry \subseteq Item /\ dict \in Seq(Item)
         /\ Written \in Seq(Item) /\ Len(Written) = Len(Factors)
         /\ \A i \in 1 .. Len(Factors) :
              /\ Written[i] \in Item /\ Written[i].parent = Factors[i].parent
              /\ Written[i].c % Sigma = Factors[i].c
<1>1. Len(dict) \in Nat /\ dict \in Seq(Entry) /\ \A i \in 1 .. Len(dict) : dict[i] \in Entry
  BY LenProperties, ElementOfSeq DEF TypeInv
<1>2. Entry \subseteq Item
  <2>1. Literal \subseteq Letters
    BY PutFacts
  <2> QED
    BY <2>1 DEF Entry, Item
<1>3. dict \in Seq(Item)
  BY <1>1, <1>2
<1>4. ASSUME NEW i \in 1 .. Len(dict)
      PROVE  dict[i] \in Item /\ dict[i].c % Sigma = dict[i].c
  <2>1. dict[i].c \in Literal /\ dict[i] \in Item
    BY <1>1, <1>2 DEF Entry
  <2> QED
    BY <2>1, PutFacts
<1>5. CASE closed /\ node # 0
  <2> DEFINE e == [parent |-> parent, c |-> last]
             o == [parent |-> parent, c |-> Put(last)]
  <2>1. node \in 1 .. Len(dict) /\ e = dict[node]
    BY <1>1, <1>5 DEF TypeInv, NodeInv
  <2>2. e \in Entry /\ last \in Literal /\ parent \in Nat
    <3>1. e \in Entry /\ e.c = last /\ e.parent = parent
      BY <1>1, <2>1
    <3> QED
      BY <3>1 DEF Entry
  <2>3. o \in Item /\ o.parent = e.parent /\ o.c % Sigma = e.c
    BY <2>2, PutFacts DEF Item
  <2>4. Factors = Append(dict, e) /\ Written = Append(dict, o)
    BY <1>5 DEF Factors, Written
  <2> HIDE DEF e, o
  <2>5. /\ Len(Append(dict, e)) = Len(dict) + 1 /\ Append(dict, e)[Len(dict) + 1] = e
        /\ \A i \in 1 .. Len(dict) : Append(dict, e)[i] = dict[i]
    BY <1>1, <2>2, LengthAppend
  <2>6. /\ Append(dict, o) \in Seq(Item) /\ Len(Append(dict, o)) = Len(dict) + 1
        /\ Append(dict, o)[Len(dict) + 1] = o
        /\ \A i \in 1 .. Len(dict) : Append(dict, o)[i] = dict[i]
    BY <1>3, <2>3, LengthAppend
  <2>7. ASSUME NEW i \in 1 .. Len(dict) + 1
        PROVE  /\ Append(dict, o)[i] \in Item
               /\ Append(dict, o)[i].parent = Append(dict, e)[i].parent
               /\ Append(dict, o)[i].c % Sigma = Append(dict, e)[i].c
    <3>1. CASE i = Len(dict) + 1
      BY <2>3, <2>5, <2>6, <3>1, Zenon
    <3>2. CASE i # Len(dict) + 1
      <4>1. i \in 1 .. Len(dict)
        BY <1>1, <3>2
      <4> QED
        BY <1>4, <2>5, <2>6, <4>1, Zenon
    <3> QED
      BY <3>1, <3>2
  <2> QED
    BY <1>2, <1>3, <2>4, <2>5, <2>6, <2>7, Zenon
<1>6. CASE ~ (closed /\ node # 0)
  <2>1. Factors = dict /\ Written = dict
    BY <1>6 DEF Factors, Written
  <2> QED
    BY <1>2, <1>3, <1>4, <2>1, Zenon
<1> QED
  BY <1>5, <1>6

LEMMA InvInit == ASSUME Sizes, Init PROVE LZ78Inv
<1>1. Factors = <<>> /\ Written = <<>> /\ Len(<<>>) = 0
  BY DEF Init, Factors, Written
<1>2. TypeInv
  <2>1. /\ <<>> \in Seq(Literal) /\ <<>> \in Seq(Nat) /\ <<>> \in Seq(Int) /\ <<>> \in Seq(Entry)
        /\ 0 \in 0 .. Len(<<>>)
    BY <1>1
  <2> QED
    BY <2>1 DEF Init, TypeInv
<1>3. NodeInv
  BY <1>1 DEF Init, NodeInv, Sizes
<1> DEFINE z == [k \in 0 .. 0 |-> 0]
<1>4. /\ z \in [0 .. Len(Factors) -> 0 .. Len(sent)]
      /\ z \in [0 .. Len(Factors) -> 0 .. Len(wire)] /\ z[0] = 0
  BY <1>1 DEF Init
<1> HIDE DEF z
<1>5. SubSeq(<<>>, 1, 0) = <<>>
  BY SubSeqEmpty
<1>6. TextInv(z)
  BY <1>1, <1>4, <1>5 DEF Init, TextInv, Parsed, Phrase
<1>7. ReadInv(z, z)
  BY <1>1, <1>4, <1>5 DEF Init, ReadInv, Coded
<1> QED
  BY <1>2, <1>3, <1>4, <1>6, <1>7 DEF LZ78Inv

\* A character that the trie has a child for.
LEMMA InvDescend ==
  ASSUME Sizes, LZ78Inv, NEW c \in Literal, CompressChar(c), HasChild(dict, node, c)
  PROVE  LZ78Inv'
<1> DEFINE n == Len(dict)
<1>1. /\ ~closed /\ closed' = closed /\ sent' = Append(sent, c) /\ last' = c
      /\ parent' = node /\ node' = Child(dict, Roots, node, c) /\ dict' = dict
      /\ factors' = factors /\ wire' = wire /\ pos' = pos /\ indices' = indices
      /\ literals' = literals /\ got' = got /\ Len(sent) < MaxLen
  BY DEF CompressChar, dec
<1>2. TypeInv /\ NodeInv
  BY DEF LZ78Inv
<1>3. /\ sent \in Seq(Literal) /\ dict \in Seq(Entry) /\ n \in Nat /\ node \in 0 .. n
      /\ Len(sent) \in Nat /\ \A i \in 1 .. n : dict[i] \in Entry
  BY <1>2, LenProperties DEF TypeInv
<1>4. Factors = dict /\ Factors' = dict /\ Written = dict /\ Written' = dict
  BY <1>1 DEF Factors, Written
<1>5. PICK b \in [0 .. n -> 0 .. Len(sent)], at \in [0 .. n -> 0 .. Len(wire)] :
        TextInv(b) /\ ReadInv(b, at)
  BY <1>4 DEF LZ78Inv
<1>6. node' \in 1 .. n /\ dict[node'] = [parent |-> node, c |-> c]
  <2> DEFINE k == CHOOSE i \in 1 .. n : dict[i].parent = node /\ dict[i].c = c
  <2>1. k \in 1 .. n /\ dict[k].parent = node /\ dict[k].c = c
    BY DEF HasChild
  <2>2. node' = Roots - 1 + k
    BY <1>1 DEF Child
  <2> HIDE DEF k
  <2>3. node' = k
    BY <2>1, <2>2 DEF Roots
  <2>4. dict[k] \in Entry
    BY <1>3, <2>1
  <2>5. dict[k] = [parent |-> dict[k].parent, c |-> dict[k].c]
    BY <2>4 DEF Entry
  <2> QED
    BY <2>1, <2>3, <2>5
<1>7. sent' \in Seq(Literal) /\ Len(sent') = Len(sent) + 1
  BY <1>1, <1>3, LengthAppend
<1>8. TypeInv'
  <2>1. node' \in 0 .. n /\ last' \in Literal \cup {NoLiteral}
    BY <1>1, <1>3, <1>6
  <2> QED
    BY <1>1, <1>2, <1>7, <2>1 DEF TypeInv
<1>9. NodeInv'
  <2>1. node' # 0 /\ n <= Len(sent) /\ MaxLen \in Nat
    BY <1>2, <1>6 DEF NodeInv, Sizes
  <2>2. Len(sent') <= MaxLen /\ n <= Len(sent') /\ n < Len(sent')
    BY <1>1, <1>3, <1>7, <2>1
  <2> QED
    BY <1>1, <1>2, <1>4, <1>6, <2>2 DEF NodeInv
<1>10. Parsed(dict, sent, b)
  BY <1>4, <1>5 DEF TextInv
<1>11. /\ Parsed(dict, sent', b)
       /\ \A i \in 0 .. n : Phrase(sent', b, i) = Phrase(sent, b, i)
  BY <1>1, <1>3, <1>10, ParsedKept
<1>12. b[n] \in 0 .. Len(sent) /\ b[0] = 0
  BY <1>3, <1>10 DEF Parsed
<1>13. SubSeq(sent', b[n] + 1, Len(sent')) = Append(Phrase(sent, b, node), c)
  <2>1. SubSeq(sent, b[n] + 1, Len(sent)) = Phrase(sent, b, node)
    BY <1>1, <1>5 DEF TextInv
  <2>2. SubSeq(Append(sent, c), b[n] + 1, Len(sent) + 1)
          = Append(SubSeq(sent, b[n] + 1, Len(sent)), c)
    BY <1>3, <1>12, SpanGrows
  <2> QED
    BY <1>1, <1>7, <2>1, <2>2
<1>14. Phrase(sent, b, node') = Append(Phrase(sent, b, node), c)
  BY <1>6, <1>10 DEF Parsed
<1>15. TextInv(b)'
  <2>1. node' \in 0 .. n
    BY <1>3, <1>6
  <2>2. Phrase(sent', b, node') = Append(Phrase(sent, b, node), c)
    BY <1>11, <1>14, <2>1
  <2> QED
    BY <1>1, <1>4, <1>11, <1>13, <2>2 DEF TextInv
<1>16. ReadInv(b, at)'
  <2>1. indices = <<>>
    BY <1>1, <1>5 DEF ReadInv
  <2>2. got = SubSeq(sent, 1, b[Len(indices)])
    BY <1>5 DEF ReadInv
  <2>3. b[Len(indices)] = 0 /\ SubSeq(sent, 1, 0) = <<>> /\ SubSeq(sent', 1, 0) = <<>>
    BY <1>12, <2>1, SubSeqEmpty
  <2>4. got' = SubSeq(sent', 1, b[Len(indices')])
    BY <1>1, <2>2, <2>3
  <2> QED
    BY <1>1, <1>4, <1>5, <2>4 DEF ReadInv
<1>17. /\ b \in [0 .. Len(Factors') -> 0 .. Len(sent')]
       /\ at \in [0 .. Len(Factors') -> 0 .. Len(wire')]
  BY <1>1, <1>3, <1>4, <1>5, <1>7
<1> QED
  BY <1>8, <1>9, <1>15, <1>16, <1>17 DEF LZ78Inv

\* A character that ends a phrase: a factor is written and becomes a node.
LEMMA InvInsert ==
  ASSUME Sizes, LZ78Inv, NEW c \in Literal, CompressChar(c), ~HasChild(dict, node, c)
  PROVE  LZ78Inv'
<1> DEFINE n == Len(dict)
           e == [parent |-> node, c |-> c]
           G == Append(dict, e)
           u == Word(e, n + 1)
<1>1. TypeInv /\ NodeInv
  BY DEF LZ78Inv
<1>2. /\ sent \in Seq(Literal) /\ dict \in Seq(Entry) /\ n \in Nat /\ node \in 0 .. n
      /\ Len(sent) \in Nat /\ \A i \in 1 .. n : dict[i] \in Entry
      /\ wire \in Seq(Int)
  BY <1>1, LenProperties DEF TypeInv
<1>3. /\ ~closed /\ closed' = closed /\ sent' = Append(sent, c) /\ last' = c
      /\ parent' = 0 /\ node' = 0 /\ pos' = pos /\ indices' = indices
      /\ literals' = literals /\ got' = got /\ Len(sent) < MaxLen
  BY DEF CompressChar, dec
<1>4. dict' = G /\ factors' = factors + 1 /\ wire' = wire \o EncodeFactor(node, c)
  <2>1. Size(dict, Roots) + 1 # MaxSize
    BY <1>2 DEF Size, Roots, Sizes
  <2> QED
    BY <2>1 DEF CompressChar, Insert
<1>5. Factors = dict /\ Factors' = G /\ Written = dict /\ Written' = G
  BY <1>3, <1>4 DEF Factors, Written
<1>6. PICK b \in [0 .. n -> 0 .. Len(sent)], at \in [0 .. n -> 0 .. Len(wire)] :
        TextInv(b) /\ ReadInv(b, at)
  BY <1>5 DEF LZ78Inv
<1>7. e \in Entry /\ e \in Item /\ e.parent = node /\ e.c = c
  <2>1. e \in Entry /\ e.parent = node /\ e.c = c
    BY <1>2 DEF Entry
  <2> HIDE DEF e
  <2> QED
    BY <1>1, <2>1, WrittenFacts
<1>8. EncodeFactor(node, c) = u
  <2>1. factors = (n + 1) - 1
    BY <1>1, <1>2, <1>5 DEF NodeInv
  <2> QED
    BY <1>7, <2>1 DEF EncodeFactor, Word
<1>9. n <= MaxLen /\ n <= Len(sent)
  BY <1>1, <1>2 DEF NodeInv, Sizes
<1> HIDE DEF e
<1>10. u \in Seq(Int)
  <2> DEFINE i == n + 1
  <2>1. i \in Nat \ {0} /\ i - 1 <= MaxLen /\ e.parent \in 0 .. i - 1
    BY <1>2, <1>7, <1>9
  <2> HIDE DEF i
  <2>2. Word(e, i) \in Seq(Int)
    BY <1>7, <2>1, WordFacts
  <2> QED
    BY <2>2 DEF i
<1>11. /\ G \in Seq(Entry) /\ Len(G) = n + 1 /\ G[n + 1] = e
       /\ \A i \in 1 .. n : G[i] = dict[i]
  BY <1>2, <1>7, LengthAppend
<1>12. sent' \in Seq(Literal) /\ Len(sent') = Len(sent) + 1
  BY <1>2, <1>3, LengthAppend
<1>13. Parsed(dict, sent, b) /\ Coded(dict, wire, at)
  BY <1>5, <1>6 DEF TextInv, ReadInv
<1>14. /\ Parsed(dict, sent', b)
       /\ \A i \in 0 .. n : Phrase(sent', b, i) = Phrase(sent, b, i)
  BY <1>2, <1>3, <1>13, ParsedKept
<1>15. b[n] \in 0 .. Len(sent) /\ b[0] = 0
  BY <1>2, <1>13 DEF Parsed
<1>16. SubSeq(sent', b[n] + 1, Len(sent')) = Append(Phrase(sent', b, e.parent), e.c)
  <2>1. SubSeq(sent, b[n] + 1, Len(sent)) = Phrase(sent, b, node)
    BY <1>3, <1>6 DEF TextInv
  <2>2. SubSeq(Append(sent, c), b[n] + 1, Len(sent) + 1)
          = Append(SubSeq(sent, b[n] + 1, Len(sent)), c)
    BY <1>2, <1>15, SpanGrows
  <2> QED
    BY <1>2, <1>3, <1>7, <1>12, <1>14, <2>1, <2>2
<1>17. PICK B : B = Longer(b, n, Len(sent'))
  OBVIOUS
<1>18. /\ Parsed(G, sent', B) /\ B[n + 1] = Len(sent')
       /\ \A k \in 0 .. n : B[k] = b[k] /\ Phrase(sent', B, k) = Phrase(sent', b, k)
  <2>1. Len(sent') \in Nat /\ b[n] < Len(sent') /\ e.parent \in 0 .. n
    BY <1>2, <1>7, <1>12, <1>15
  <2>2. LastPhrase(dict, sent', b, e)
    BY <1>16, <2>1 DEF LastPhrase
  <2> QED
    BY <1>2, <1>7, <1>14, <1>17, <2>1, <2>2, ParsedGrows
<1>19. PICK A : A = Longer(at, n, Len(wire) + Len(u))
  OBVIOUS
<1>20. Coded(G, wire', A) /\ \A k \in 0 .. n : A[k] = at[k]
  BY <1>2, <1>4, <1>7, <1>8, <1>10, <1>13, <1>19, CodedGrows
<1> HIDE DEF u
<1>21. TypeInv'
  <2>1. wire' \in Seq(Int)
    BY <1>2, <1>4, <1>8, <1>10, ConcatProperties
  <2>2. dict' \in Seq(Entry) /\ Len(dict') = n + 1
    BY <1>4, <1>11
  <2>3. 0 \in 0 .. n + 1 /\ c \in Literal \cup {NoLiteral}
    BY <1>2
  <2> QED
    BY <1>1, <1>3, <1>12, <2>1, <2>2, <2>3 DEF TypeInv
<1>22. NodeInv'
  <2>1. Len(sent') <= MaxLen /\ n + 1 <= Len(sent')
    BY <1>2, <1>3, <1>9, <1>12 DEF Sizes
  <2>2. factors' = Len(Factors')
    BY <1>1, <1>4, <1>5, <1>11 DEF NodeInv
  <2>3. \A i \in 1 .. n : dict[i] # e
    BY <1>7 DEF HasChild
  <2>4. ASSUME NEW i \in 1 .. n + 1, NEW j \in 1 .. n + 1, G[i] = G[j]
        PROVE  i = j
    <3>1. (i = n + 1 \/ i \in 1 .. n) /\ (j = n + 1 \/ j \in 1 .. n)
      BY <1>2
    <3>2. \A x, y \in 1 .. n : dict[x] = dict[y] => x = y
      BY <1>1 DEF NodeInv
    <3> QED
      BY <1>11, <2>3, <2>4, <3>1, <3>2
  <2>5. node' = 0 /\ dict' = G /\ Len(G) = n + 1
    BY <1>3, <1>4, <1>11
  <2> HIDE DEF G
  <2> QED
    BY <2>1, <2>2, <2>4, <2>5 DEF NodeInv
<1>23. TextInv(B)'
  <2>1. SubSeq(sent', Len(sent') + 1, Len(sent')) = <<>>
    BY <1>2, <1>12, SubSeqEmpty
  <2>2. Phrase(sent', B, node') = <<>>
    BY <1>3 DEF Phrase
  <2>3. SubSeq(sent', B[Len(dict')] + 1, Len(sent')) = Phrase(sent', B, node')
    BY <1>4, <1>11, <1>18, <2>1, <2>2
  <2> QED
    BY <1>3, <1>5, <1>18, <2>3 DEF TextInv
<1>24. ReadInv(B, A)'
  <2>1. indices = <<>> /\ got = SubSeq(sent, 1, b[Len(indices)]) /\ pos = at[Len(indices)]
    BY <1>3, <1>6 DEF ReadInv
  <2>2. Len(indices') = 0 /\ 0 \in 0 .. n /\ 0 <= n + 1
    BY <1>2, <1>3, <2>1
  <2>3. b[0] = 0 /\ SubSeq(sent, 1, 0) = <<>> /\ SubSeq(sent', 1, 0) = <<>>
    BY <1>15, SubSeqEmpty
  <2>4. got' = SubSeq(sent', 1, B[0]) /\ pos' = A[0]
    BY <1>3, <1>18, <1>20, <2>1, <2>2, <2>3
  <2>5. indices' = <<>>
    BY <1>3, <2>1
  <2>6. \A i \in 1 .. Len(indices') :
          indices'[i] = Factors'[i].parent /\ literals'[i] = Factors'[i].c
    BY <2>2
  <2>7. Len(indices') <= Len(Factors')
    BY <1>5, <1>11, <2>2
  <2> QED
    BY <1>5, <1>20, <2>2, <2>4, <2>5, <2>6, <2>7 DEF ReadInv
<1>25. /\ B \in [0 .. Len(Factors') -> 0 .. Len(sent')]
       /\ A \in [0 .. Len(Factors') -> 0 .. Len(wire')]
  BY <1>5, <1>18, <1>20 DEF Parsed, Coded
<1> QED
  BY <1>21, <1>22, <1>23, <1>24, <1>25 DEF LZ78Inv

\* The end of the text, at the root: nothing is left over.
LEMMA InvFinishAtRoot == ASSUME Sizes, LZ78Inv, Finish, node = 0 PROVE LZ78Inv'
<1> DEFINE n == Len(dict)
<1>1. TypeInv /\ NodeInv
  BY DEF LZ78Inv
<1>2. sent \in Seq(Literal) /\ n \in Nat /\ Len(sent) \in Nat
  BY <1>1, LenProperties DEF TypeInv
<1>3. /\ ~closed /\ closed' = TRUE /\ sent' = sent /\ dict' = dict /\ node' = node
      /\ parent' = parent /\ last' = last /\ wire' = wire /\ factors' = factors
      /\ pos' = pos /\ indices' = indices /\ literals' = literals /\ got' = got
  BY DEF Finish, dec
<1>4. Factors = dict /\ Factors' = dict /\ Written = dict /\ Written' = dict
  BY <1>3 DEF Factors, Written
<1>5. PICK b \in [0 .. n -> 0 .. Len(sent)], at \in [0 .. n -> 0 .. Len(wire)] :
        TextInv(b) /\ ReadInv(b, at)
  BY <1>4 DEF LZ78Inv
<1>6. TypeInv' /\ NodeInv'
  BY <1>1, <1>3, <1>4 DEF TypeInv, NodeInv
<1>7. b[n] \in 0 .. Len(sent)
  BY <1>2
<1>8. b[n] = Len(sent)
  <2>1. SubSeq(sent, b[n] + 1, Len(sent)) = <<>>
    BY <1>3, <1>5 DEF TextInv, Phrase
  <2>2. ASSUME b[n] < Len(sent) PROVE FALSE
    <3>1. /\ b[n] + 1 \in Int /\ Len(sent) \in Int
          /\ \A i \in b[n] + 1 .. Len(sent) : i \in 1 .. Len(sent)
      BY <1>2, <1>7
    <3>2. \A i \in b[n] + 1 .. Len(sent) : sent[i] \in Literal
      BY <1>2, <3>1, ElementOfSeq
    <3>3. Len(SubSeq(sent, b[n] + 1, Len(sent))) =
            IF b[n] + 1 <= Len(sent) THEN Len(sent) - (b[n] + 1) + 1 ELSE 0
      BY <3>1, <3>2, SubSeqProperties
    <3>4. Len(SubSeq(sent, b[n] + 1, Len(sent))) = 0
      <4>1. Len(<<>>) = 0
        OBVIOUS
      <4> QED
        BY <2>1, <4>1, Zenon
    <3> QED
      BY <1>2, <1>7, <2>2, <3>3, <3>4
  <2> QED
    BY <1>2, <1>7, <2>2
<1>9. TextInv(b)' /\ ReadInv(b, at)'
  BY <1>3, <1>4, <1>5, <1>8 DEF TextInv, ReadInv
<1>10. /\ b \in [0 .. Len(Factors') -> 0 .. Len(sent')]
       /\ at \in [0 .. Len(Factors') -> 0 .. Len(wire')]
  BY <1>3, <1>4, <1>5
<1> QED
  BY <1>6, <1>9, <1>10 DEF LZ78Inv

\* The end of the text in the middle of a phrase: its node is written again.
LEMMA InvFinishInPhrase == ASSUME Sizes, LZ78Inv, Finish, node # 0 PROVE LZ78Inv'
<1> DEFINE n == Len(dict)
           e == [parent |-> parent, c |-> last]
           G == Append(dict, e)
           o == [parent |-> parent, c |-> Put(last)]
           H == Append(dict, o)
           u == Word(o, n + 1)
<1>1. TypeInv /\ NodeInv
  BY DEF LZ78Inv
<1>2. /\ sent \in Seq(Literal) /\ dict \in Seq(Entry) /\ n \in Nat /\ node \in 1 .. n
      /\ Len(sent) \in Nat /\ \A i \in 1 .. n : dict[i] \in Entry
      /\ wire \in Seq(Int)
  BY <1>1, LenProperties DEF TypeInv
<1>3. /\ ~closed /\ closed' = TRUE /\ sent' = sent /\ dict' = dict /\ node' = node
      /\ parent' = parent /\ last' = last /\ factors' = factors + 1
      /\ wire' = wire \o EncodeFactor(parent, Char(last))
      /\ pos' = pos /\ indices' = indices /\ literals' = literals /\ got' = got
  BY DEF Finish, dec
<1>4. Factors = dict /\ Factors' = G /\ Written = dict /\ Written' = H
  BY <1>3 DEF Factors, Written
<1>5. PICK b \in [0 .. n -> 0 .. Len(sent)], at \in [0 .. n -> 0 .. Len(wire)] :
        TextInv(b) /\ ReadInv(b, at)
  BY <1>4 DEF LZ78Inv
<1>6. e = dict[node] /\ e \in Entry /\ e.parent = parent /\ e.c = last
  BY <1>1, <1>2 DEF NodeInv
<1>7. Parsed(dict, sent, b) /\ Coded(dict, wire, at)
  BY <1>4, <1>5 DEF TextInv, ReadInv
<1>23. /\ o \in Item /\ o.parent = parent /\ o.c = Put(last) /\ dict \in Seq(Item)
       /\ Encoded(Binary, Char(last), Sigma - 1) = Encoded(Binary, Put(last), Sigma - 1)
  <2>1. last \in Literal /\ parent \in Nat
    BY <1>6 DEF Entry
  <2>2. /\ Put(last) \in Letters
        /\ Encoded(Binary, Char(last), Sigma - 1) = Encoded(Binary, Put(last), Sigma - 1)
    BY <2>1, PutFacts
  <2>3. dict \in Seq(Item)
    BY <1>1, WrittenFacts
  <2> QED
    BY <2>1, <2>2, <2>3 DEF Item
<1> HIDE DEF e, o
<1>8. e.parent \in 0 .. n /\ b[n] \in 0 .. Len(sent)
  <2>1. e.parent \in 0 .. node - 1
    BY <1>2, <1>6, <1>7 DEF Parsed
  <2>2. b[n] \in 0 .. Len(sent)
    <3>1. \A j \in 0 .. n : b[j] \in 0 .. Len(sent)
      BY <1>7 DEF Parsed
    <3> QED
      BY <1>2, <3>1
  <2> QED
    BY <1>2, <2>1, <2>2
<1>9. EncodeFactor(parent, Char(last)) = u
  <2>1. factors = (n + 1) - 1
    BY <1>1, <1>2, <1>4 DEF NodeInv
  <2> QED
    BY <1>23, <2>1 DEF EncodeFactor, Word
<1>10. n <= MaxLen
  BY <1>1, <1>2 DEF NodeInv, Sizes
<1>11. u \in Seq(Int)
  <2> DEFINE i == n + 1
  <2>1. i \in Nat \ {0} /\ i - 1 <= MaxLen /\ o.parent \in 0 .. i - 1
    BY <1>2, <1>6, <1>8, <1>10, <1>23
  <2> HIDE DEF i
  <2>2. Word(o, i) \in Seq(Int)
    BY <1>23, <2>1, WordFacts
  <2> QED
    BY <2>2 DEF i
<1>12. G \in Seq(Entry) /\ Len(G) = n + 1 /\ Len(H) = n + 1
  BY <1>2, <1>6, <1>23, LengthAppend
<1>13. LastPhrase(dict, sent, b, e)
  <2>1. SubSeq(sent, b[n] + 1, Len(sent)) = Phrase(sent, b, node)
    BY <1>3, <1>5 DEF TextInv
  <2>2. Phrase(sent, b, node) = Append(Phrase(sent, b, e.parent), e.c)
    BY <1>2, <1>6, <1>7 DEF Parsed
  <2>3. b[n] < Len(sent)
    <3> SUFFICES ASSUME b[n] = Len(sent) PROVE FALSE
      BY <1>2, <1>8
    <3>1. SubSeq(sent, Len(sent) + 1, Len(sent)) = <<>>
      BY <1>2, SubSeqEmpty
    <3> DEFINE q == Phrase(sent, b, e.parent)
               l == e.c
    <3>2. q \in Seq(Literal)
      BY <1>2, <1>7, <1>8, PhraseType
    <3>3. l \in Literal
      BY <1>6 DEF Entry
    <3>4. Append(q, l) = <<>>
      BY <2>1, <2>2, <3>1
    <3> HIDE DEF q, l
    <3>5. Append(q, l) # <<>>
      BY <3>2, <3>3, AppendProperties
    <3> QED
      BY <3>4, <3>5
  <2> QED
    BY <1>8, <2>1, <2>2, <2>3 DEF LastPhrase
<1>14. PICK B : B = Longer(b, n, Len(sent))
  OBVIOUS
<1>15. /\ Parsed(G, sent, B) /\ B[n + 1] = Len(sent)
       /\ \A k \in 0 .. n : B[k] = b[k] /\ Phrase(sent, B, k) = Phrase(sent, b, k)
  BY <1>2, <1>6, <1>7, <1>13, <1>14, ParsedGrows
<1>16. PICK A : A = Longer(at, n, Len(wire) + Len(u))
  OBVIOUS
<1>17. Coded(H, wire', A) /\ \A k \in 0 .. n : A[k] = at[k]
  BY <1>2, <1>3, <1>9, <1>11, <1>7, <1>16, <1>23, CodedGrows
<1> HIDE DEF u
<1>18. TypeInv'
  <2>1. wire' \in Seq(Int)
    BY <1>2, <1>3, <1>9, <1>11, ConcatProperties
  <2> QED
    BY <1>1, <1>3, <2>1 DEF TypeInv
<1>19. NodeInv'
  <2>1. factors' = Len(Factors')
    BY <1>1, <1>3, <1>4, <1>12 DEF NodeInv
  <2> QED
    BY <1>1, <1>3, <2>1 DEF NodeInv
<1>20. TextInv(B)'
  BY <1>3, <1>4, <1>12, <1>15 DEF TextInv
<1>21. ReadInv(B, A)'
  <2>1. indices = <<>> /\ got = SubSeq(sent, 1, b[Len(indices)]) /\ pos = at[Len(indices)]
    BY <1>3, <1>5 DEF ReadInv
  <2>2. Len(indices') = 0 /\ 0 \in 0 .. n /\ 0 <= n + 1
    BY <1>2, <1>3, <2>1
  <2>3. got' = SubSeq(sent', 1, B[0]) /\ pos' = A[0]
    BY <1>3, <1>15, <1>17, <2>1, <2>2
  <2>4. \A i \in 1 .. Len(indices') :
          indices'[i] = Factors'[i].parent /\ literals'[i] = Factors'[i].c
    BY <2>2
  <2>5. Len(indices') <= Len(Factors')
    BY <1>4, <1>12, <2>2
  <2> QED
    BY <1>3, <1>4, <1>17, <2>2, <2>3, <2>4, <2>5 DEF ReadInv
<1>22. /\ B \in [0 .. Len(Factors') -> 0 .. Len(sent')]
       /\ A \in [0 .. Len(Factors') -> 0 .. Len(wire')]
  BY <1>3, <1>4, <1>12, <1>15, <1>17 DEF Parsed, Coded
<1> QED
  BY <1>18, <1>19, <1>20, <1>21, <1>22 DEF LZ78Inv

\* What one iteration of the decompressor reads and writes: the next factor, and
\* its phrase.
LEMMA FactorRead ==
  ASSUME Sizes, TypeInv, NodeInv, DecompressFactor, NEW b, NEW at, TextInv(b), ReadInv(b, at)
  PROVE  LET k == Len(indices) + 1
         IN  /\ k \in 1 .. Len(Factors) /\ closed /\ UNCHANGED <<sent, closed, enc, wire>>
             /\ indices' = Append(indices, Factors[k].parent)
             /\ literals' = Append(literals, Factors[k].c)
             /\ pos' = at[k] /\ got' = SubSeq(sent, 1, b[k])
<1> DEFINE F == Factors
           m == Len(indices)
           k == m + 1
           e == F[k]
           o == Written[k]
           i == Decoded(Binary, wire, pos, m)
           c == Decoded(Binary, wire, i.next, Sigma - 1)
<1>1. /\ F \in Seq(Entry) /\ Len(F) \in Nat /\ Len(F) <= MaxLen
      /\ Len(sent) \in Nat /\ sent \in Seq(Literal) /\ MaxLen \in Nat
      /\ \A j \in 1 .. Len(F) : F[j] \in Entry
  BY FactorsFacts, ElementOfSeq DEF TypeInv, Sizes
<1>2. /\ m \in Nat /\ wire \in Seq(Int) /\ Len(wire) \in Nat
      /\ Len(literals) = m /\ indices \in Seq(Nat) /\ literals \in Seq(Literal)
  BY LenProperties DEF TypeInv
<1>3. /\ closed /\ pos < Len(wire) /\ indices' = Append(indices, i.v)
      /\ literals' = Append(literals, c.v % Sigma)
      /\ got' = got \o Expand(i.v, c.v % Sigma)
      /\ pos' = c.next /\ UNCHANGED <<sent, closed, enc, wire>>
  BY DEF DecompressFactor
<1>4. Parsed(F, sent, b) /\ Coded(Written, wire, at)
  BY DEF TextInv, ReadInv
<1>5. m <= Len(F) /\ pos = at[m] /\ got = SubSeq(sent, 1, b[m])
      /\ \A j \in 1 .. m : indices[j] = F[j].parent /\ literals[j] = F[j].c
  BY DEF ReadInv
<1>13. /\ Len(Written) = Len(F)
       /\ \A j \in 1 .. Len(F) : /\ Written[j] \in Item /\ Written[j].parent = F[j].parent
                                 /\ Written[j].c % Sigma = F[j].c
  BY WrittenFacts
<1> HIDE DEF F, m
<1>6. k \in 1 .. Len(F)
  <2>1. at[Len(F)] = Len(wire)
    BY ONLY <1>4, <1>13, CodedEnd
  <2>2. m # Len(F)
    BY ONLY <1>3, <1>5, <2>1
  <2> QED
    BY <1>1, <1>2, <1>5, <2>2
<1>7. k - 1 = m /\ k \in Nat \ {0} /\ m \in 0 .. Len(F)
  BY <1>1, <1>2, <1>6
<1>8. e \in Entry /\ e.parent \in 0 .. m /\ b[m] < b[k]
      /\ Phrase(sent, b, k) = Append(Phrase(sent, b, e.parent), e.c)
  BY <1>1, <1>4, <1>6, <1>7 DEF Parsed
<1>14. o \in Item /\ o.parent = e.parent /\ o.c % Sigma = e.c
  BY <1>6, <1>13
<1>9. /\ at[m] \in Nat /\ at[k] = at[m] + Len(Word(o, k)) /\ Stands(Word(o, k), wire, at[m])
  <2>1. at[k] = at[k - 1] + Len(Word(o, k)) /\ Stands(Word(o, k), wire, at[k - 1])
    BY <1>4, <1>6, <1>13 DEF Coded
  <2>2. at[m] \in 0 .. Len(wire)
    BY <1>4, <1>7, <1>13 DEF Coded
  <2> QED
    BY <1>2, <1>7, <2>1, <2>2
<1>10. i.v = e.parent /\ c.v % Sigma = e.c /\ c.next = at[k]
  <2>1. k - 1 <= MaxLen /\ o.parent \in 0 .. k - 1
    BY <1>1, <1>7, <1>8, <1>6, <1>14
  <2> HIDE DEF e, k, o
  <2>2. LET id == Decoded(Binary, wire, at[m], k - 1)
            lit == Decoded(Binary, wire, id.next, Sigma - 1)
        IN  id.v = o.parent /\ lit.v = o.c /\ lit.next = at[m] + Len(Word(o, k))
    BY <1>2, <1>7, <1>9, <1>14, <2>1, ReadWord
  <2> QED
    BY <1>5, <1>7, <1>9, <1>14, <2>2
<1> HIDE DEF i, c, o
<1>11. got' = SubSeq(sent, 1, b[k])
  <2>1. e.parent \in 0 .. Len(indices) /\ Len(indices) \in 0 .. Len(F)
    BY <1>7, <1>8 DEF m
  <2>2. Expand(e.parent, e.c) = Append(Phrase(sent, b, e.parent), e.c)
    <3> DEFINE p == e.parent
               l == e.c
    <3>1. p \in 0 .. Len(indices)
      BY <2>1
    <3>2. HasRead(F) /\ Len(F) \in Nat /\ Parsed(F, sent, b)
      BY <1>1, <1>4, <1>5, <2>1 DEF m, HasRead
    <3> HIDE DEF p, l
    <3>3. Expand(p, l) = Append(Phrase(sent, b, p), l)
      BY <3>1, <3>2, ExpandIs
    <3> QED
      BY <3>3 DEF p, l
  <2> DEFINE x == b[m]
             y == b[k]
  <2>3. Phrase(sent, b, k) = SubSeq(sent, x + 1, y)
    BY <1>7 DEF Phrase
  <2>4. x \in 0 .. Len(sent) /\ y \in 0 .. Len(sent) /\ x < y
    <3>1. \A j \in 0 .. Len(F) : b[j] \in 0 .. Len(sent)
      BY <1>4 DEF Parsed
    <3>2. k \in 0 .. Len(F)
      <4>1. Len(F) \in Nat
        BY <1>1, Zenon
      <4> HIDE DEF k
      <4> QED
        BY <1>6, <4>1
    <3> QED
      BY <1>7, <1>8, <3>1, <3>2
  <2>5. got' = SubSeq(sent, 1, x) \o SubSeq(sent, x + 1, y)
    BY <1>3, <1>5, <1>8, <1>10, <2>2, <2>3
  <2> HIDE DEF x, y
  <2>6. x \in 1 - 1 .. Len(sent) /\ y \in x .. Len(sent) /\ 1 \in 1 .. Len(sent) + 1
    BY <1>1, <2>4
  <2>7. SubSeq(sent, 1, x) \o SubSeq(sent, x + 1, y) = SubSeq(sent, 1, y)
    BY <1>1, <2>6, ConcatAdjacentSubSeq
  <2> QED
    BY <2>5, <2>7 DEF y
<1>12. /\ k \in 1 .. Len(F) /\ closed /\ UNCHANGED <<sent, closed, enc, wire>>
       /\ indices' = Append(indices, F[k].parent) /\ literals' = Append(literals, F[k].c)
       /\ pos' = at[k] /\ got' = SubSeq(sent, 1, b[k])
  BY <1>3, <1>6, <1>10, <1>11
<1> QED
  BY <1>12 DEF F, m

LEMMA InvDecompress == ASSUME Sizes, LZ78Inv, DecompressFactor PROVE LZ78Inv'
<1> DEFINE F == Factors
           m == Len(indices)
           k == m + 1
           e == F[k]
<1>1. TypeInv /\ NodeInv
  BY DEF LZ78Inv
<1>2. PICK b \in [0 .. Len(F) -> 0 .. Len(sent)], at \in [0 .. Len(F) -> 0 .. Len(wire)] :
        TextInv(b) /\ ReadInv(b, at)
  BY DEF LZ78Inv
<1>3. /\ k \in 1 .. Len(F) /\ closed
      /\ sent' = sent /\ closed' = closed /\ enc' = enc /\ wire' = wire
      /\ indices' = Append(indices, e.parent) /\ literals' = Append(literals, e.c)
      /\ pos' = at[k] /\ got' = SubSeq(sent, 1, b[k])
  BY <1>1, <1>2, FactorRead
<1>4. /\ dict' = dict /\ node' = node /\ parent' = parent /\ factors' = factors /\ last' = last
  BY <1>3 DEF enc
<1>5. Factors' = F /\ Written' = Written
  BY <1>3, <1>4 DEF Factors, Written
<1>6. /\ F \in Seq(Entry) /\ Len(F) \in Nat /\ Len(sent) \in Nat /\ sent \in Seq(Literal)
      /\ \A j \in 1 .. Len(F) : F[j] \in Entry
  BY <1>1, FactorsFacts, ElementOfSeq DEF TypeInv
<1>7. /\ m \in Nat /\ Len(literals) = m /\ indices \in Seq(Nat) /\ literals \in Seq(Literal)
  BY <1>1, LenProperties DEF TypeInv
<1>8. Parsed(F, sent, b) /\ Coded(Written, wire, at)
  BY <1>2 DEF TextInv, ReadInv
<1> HIDE DEF F
<1>9. e.parent \in Nat /\ e.c \in Literal
  BY <1>3, <1>6 DEF Entry
<1>10. /\ indices' \in Seq(Nat) /\ Len(indices') = k /\ indices'[k] = e.parent
       /\ \A j \in 1 .. m : indices'[j] = indices[j]
  <2> DEFINE p == e.parent
  <2>1. p \in Nat /\ indices' = Append(indices, p)
    BY <1>3, <1>9
  <2> HIDE DEF p
  <2> QED
    BY <1>7, <2>1, LengthAppend DEF p
<1>11. /\ literals' \in Seq(Literal) /\ Len(literals') = k /\ literals'[k] = e.c
       /\ \A j \in 1 .. m : literals'[j] = literals[j]
  <2> DEFINE l == e.c
  <2>1. l \in Literal /\ literals' = Append(literals, l)
    BY <1>3, <1>9
  <2> HIDE DEF l
  <2> QED
    BY <1>7, <2>1, LengthAppend DEF l
<1>12. b[k] \in 0 .. Len(sent) /\ at[k] \in Nat
  <2>1. k \in 0 .. Len(F)
    BY <1>3
  <2>2. b[k] \in 0 .. Len(sent) /\ at[k] \in 0 .. Len(wire)
    BY <1>2, <2>1
  <2> QED
    BY <2>2
<1>13. got' \in Seq(Literal)
  <2> DEFINE y == b[k]
  <2>1. y \in 0 .. Len(sent) /\ got' = SubSeq(sent, 1, y)
    BY <1>3, <1>12
  <2> HIDE DEF y
  <2>2. \A j \in 1 .. y : sent[j] \in Literal
    BY <1>6, <2>1, ElementOfSeq
  <2>3. 1 \in Int /\ y \in Int
    BY <1>6, <2>1
  <2> QED
    BY <2>1, <2>2, <2>3, SubSeqProperties
<1> HIDE DEF k, e
<1>14. TypeInv' /\ NodeInv'
  BY <1>1, <1>3, <1>4, <1>5, <1>10, <1>11, <1>12, <1>13 DEF TypeInv, NodeInv, F
<1>15. TextInv(b)'
  BY <1>2, <1>3, <1>4, <1>5 DEF TextInv, F
<1>16. ReadInv(b, at)'
  <2>1. k <= Len(F) /\ closed'
    BY <1>3, <1>6
  <2>2. ASSUME NEW j \in 1 .. k
        PROVE  indices'[j] = F[j].parent /\ literals'[j] = F[j].c
    <3>1. CASE j = k
      BY <1>10, <1>11, <3>1 DEF e
    <3>2. CASE j # k
      <4>1. j \in 1 .. m
        BY <1>7, <3>2 DEF k
      <4>2. indices[j] = F[j].parent /\ literals[j] = F[j].c
        BY <1>2, <4>1 DEF ReadInv, F
      <4> QED
        BY <1>10, <1>11, <4>1, <4>2
    <3> QED
      BY <3>1, <3>2
  <2> QED
    BY <1>3, <1>5, <1>8, <1>10, <2>1, <2>2 DEF ReadInv
<1>17. /\ b \in [0 .. Len(Factors') -> 0 .. Len(sent')]
       /\ at \in [0 .. Len(Factors') -> 0 .. Len(wire')]
  BY <1>2, <1>3, <1>5
<1> QED
  BY <1>14, <1>15, <1>16, <1>17 DEF LZ78Inv

LEMMA InvStutter == ASSUME LZ78Inv, UNCHANGED vars PROVE LZ78Inv'
<1>1. /\ sent' = sent /\ closed' = closed /\ dict' = dict /\ node' = node /\ parent' = parent
      /\ factors' = factors /\ last' = last /\ wire' = wire /\ pos' = pos
      /\ indices' = indices /\ literals' = literals /\ got' = got
  BY DEF vars, enc, dec
<1>2. Factors' = Factors /\ Written' = Written
  BY <1>1 DEF Factors, Written
<1>3. PICK b \in [0 .. Len(Factors) -> 0 .. Len(sent)],
           at \in [0 .. Len(Factors) -> 0 .. Len(wire)] : TextInv(b) /\ ReadInv(b, at)
  BY DEF LZ78Inv
<1>4. TypeInv' /\ NodeInv'
  BY <1>1, <1>2 DEF LZ78Inv, TypeInv, NodeInv
<1>5. TextInv(b)' /\ ReadInv(b, at)'
  BY <1>1, <1>2, <1>3 DEF TextInv, ReadInv
<1>6. /\ b \in [0 .. Len(Factors') -> 0 .. Len(sent')]
      /\ at \in [0 .. Len(Factors') -> 0 .. Len(wire')]
  BY <1>1, <1>2, <1>3
<1> QED
  BY <1>4, <1>5, <1>6 DEF LZ78Inv

LEMMA InvNext == ASSUME Sizes, LZ78Inv, [Next]_vars PROVE LZ78Inv'
<1>1. CASE UNCHANGED vars
  BY <1>1, InvStutter
<1>2. ASSUME NEW c \in Literal, CompressChar(c) PROVE LZ78Inv'
  <2>1. CASE HasChild(dict, node, c)
    BY <1>2, <2>1, InvDescend
  <2>2. CASE ~HasChild(dict, node, c)
    BY <1>2, <2>2, InvInsert
  <2> QED
    BY <2>1, <2>2
<1>3. CASE Finish
  BY <1>3, InvFinishAtRoot, InvFinishInPhrase
<1>4. CASE DecompressFactor
  BY <1>4, InvDecompress
<1> QED
  BY <1>1, <1>2, <1>3, <1>4 DEF Next

\* The invariant (LZ78Compressor.hpp): whatever the alphabet and the text, with
\* the binary coder and with the coders that restore the low bits of a number
\* below 0 (ascii, gamma and delta), the factors parse the text that was read,
\* they are on the wire word by word, the literal of the left-over as a signed
\* char, and the decompressor stands between two of them and has written the
\* phrases of those it has read.
THEOREM LZ78Invariant == ASSUME Sizes PROVE SafeSpec => []LZ78Inv
<1>1. Init => LZ78Inv
  BY InvInit
<1>2. LZ78Inv /\ [Next]_vars => LZ78Inv'
  BY InvNext
<1> QED
  BY <1>1, <1>2, PTL DEF SafeSpec

-----------------------------------------------------------------------------
(* What follows from it.                                                   *)

LEMMA TypeFollows == ASSUME Sizes, LZ78Inv PROVE TypeOK
<1>1. TypeInv /\ NodeInv
  BY DEF LZ78Inv
<1>2. PICK b \in [0 .. Len(Factors) -> 0 .. Len(sent)],
           at \in [0 .. Len(Factors) -> 0 .. Len(wire)] : TextInv(b) /\ ReadInv(b, at)
  BY DEF LZ78Inv
<1>3. /\ Factors \in Seq(Entry) /\ Len(Factors) \in Nat /\ Len(dict) \in Nat
      /\ dict \in Seq(Entry) /\ Len(indices) \in Nat /\ Len(indices) <= Len(Factors)
      /\ \A i \in 1 .. Len(Factors) : Factors[i] \in Entry
  BY <1>1, <1>2, FactorsFacts, LenProperties, ElementOfSeq DEF TypeInv, ReadInv
<1>4. \A i \in 1 .. Len(Factors) : Factors[i].parent \in 0 .. i - 1
  BY <1>2 DEF TextInv, Parsed
<1>5. ASSUME NEW i \in 1 .. Len(dict)
      PROVE  dict[i].parent \in 0 .. i - 1
  <2>1. CASE closed /\ node # 0
    <3> DEFINE e == [parent |-> parent, c |-> last]
    <3>1. Factors = Append(dict, e) /\ e = dict[node] /\ node \in 1 .. Len(dict)
      BY <1>1, <1>3, <2>1 DEF Factors, NodeInv, TypeInv
    <3>2. e \in Entry
      BY <1>3, <3>1, ElementOfSeq
    <3> HIDE DEF e
    <3>3. Factors[i] = dict[i] /\ i \in 1 .. Len(Factors)
      BY <1>3, <3>1, <3>2, LengthAppend
    <3> QED
      BY <1>4, <3>3
  <2>2. CASE ~ (closed /\ node # 0)
    BY <1>4, <2>2 DEF Factors
  <2> QED
    BY <2>1, <2>2
<1>6. IsTrie(dict, Roots)
  <2>1. ASSUME NEW i \in 1 .. Len(dict) PROVE Roots + i - 2 = i - 1
    BY <1>3 DEF Roots
  <2> QED
    BY <1>1, <1>5, <2>1 DEF IsTrie, NodeInv
<1>7. pos \in 0 .. Len(wire)
  BY <1>2, <1>3 DEF ReadInv
<1>8. ASSUME NEW i \in 1 .. Len(indices)
      PROVE  indices[i] \in 0 .. i - 1 /\ literals[i] \in Literal
  <2>1. i \in 1 .. Len(Factors) /\ Factors[i] \in Entry
    BY <1>3
  <2>2. indices[i] = Factors[i].parent
    BY <1>2 DEF ReadInv
  <2>3. literals[i] \in Literal
    BY <1>1, ElementOfSeq DEF TypeInv
  <2> QED
    BY <1>4, <2>1, <2>2, <2>3
<1> QED
  BY <1>1, <1>6, <1>7, <1>8 DEF TypeOK, TypeInv

\* The phrases of the trie, and their concatenation, are parts of the text.
LEMMA PartitionFollows == ASSUME Sizes, LZ78Inv PROVE ParsePartitions
<1> DEFINE n == Len(dict)
           P == Phrases(dict, Roots, Root)
           Cat == CHOOSE f : f = [i \in 0 .. n |-> IF i = 0 THEN <<>> ELSE f[i - 1] \o P[i]]
<1>1. TypeInv /\ NodeInv
  BY DEF LZ78Inv
<1>2. /\ dict \in Seq(Entry) /\ n \in Nat /\ sent \in Seq(Literal) /\ Len(sent) \in Nat
      /\ node \in 0 .. n /\ \A i \in 1 .. n : dict[i] \in Entry
  BY <1>1, LenProperties DEF TypeInv
<1>3. \E p : /\ Parsed(dict, sent, p)
             /\ SubSeq(sent, p[n] + 1, Len(sent)) = Phrase(sent, p, node)
  <2>1. PICK b \in [0 .. Len(Factors) -> 0 .. Len(sent)],
             at \in [0 .. Len(Factors) -> 0 .. Len(wire)] : TextInv(b) /\ ReadInv(b, at)
    BY DEF LZ78Inv
  <2>2. CASE closed /\ node # 0
    <3> DEFINE e == [parent |-> parent, c |-> last]
               p == Cut(b, n)
    <3>1. Factors = Append(dict, e) /\ e = dict[node] /\ node \in 1 .. n
      BY <1>1, <1>2, <2>2 DEF Factors, NodeInv
    <3>2. e \in Entry
      BY <1>2, <3>1
    <3> HIDE DEF e
    <3>3. Parsed(Append(dict, e), sent, b) /\ b[Len(Factors)] = Len(sent)
      BY <2>1, <2>2, <3>1 DEF TextInv
    <3>4. Len(Factors) = n + 1 /\ Append(dict, e)[n + 1] = e
      BY <1>2, <3>1, <3>2, LengthAppend
    <3>5. /\ Parsed(dict, sent, p)
          /\ \A i \in 0 .. n : Phrase(sent, p, i) = Phrase(sent, b, i)
      BY <1>2, <3>2, <3>3, ParsedPrefix
    <3>6. p[n] = b[n]
      BY <1>2 DEF Cut
    <3> HIDE DEF p
    <3>7. Phrase(sent, b, n + 1) = SubSeq(sent, b[n] + 1, Len(sent))
      <4>1. n + 1 # 0 /\ (n + 1) - 1 = n
        BY <1>2
      <4> QED
        BY <3>3, <3>4, <4>1 DEF Phrase
    <3>8. Phrase(sent, b, n + 1) = Append(Phrase(sent, b, e.parent), e.c)
      <4>1. n + 1 \in 1 .. Len(Append(dict, e))
        BY <1>2, <3>1, <3>4
      <4> QED
        BY <3>3, <3>4, <4>1 DEF Parsed
    <3>9. Phrase(sent, p, node) = Append(Phrase(sent, p, e.parent), e.c) /\ e.parent \in 0 .. n
      <4>1. e.parent \in 0 .. node - 1
        BY <3>1, <3>5 DEF Parsed
      <4> QED
        BY <1>2, <3>1, <3>5, <4>1 DEF Parsed
    <3>10. SubSeq(sent, p[n] + 1, Len(sent)) = Phrase(sent, p, node)
      BY <3>5, <3>6, <3>7, <3>8, <3>9
    <3> QED
      BY <3>5, <3>10
  <2>3. CASE closed /\ node = 0
    <3>1. Factors = dict
      BY <2>3 DEF Factors
    <3>2. b[n] = Len(sent)
      BY <2>1, <2>3, <3>1 DEF TextInv
    <3>3. SubSeq(sent, b[n] + 1, Len(sent)) = <<>>
      BY <1>2, <3>2, SubSeqEmpty
    <3> QED
      BY <2>1, <2>3, <3>1, <3>3 DEF TextInv, Phrase
  <2>4. CASE ~closed
    BY <2>1, <2>4 DEF TextInv, Factors
  <2> QED
    BY <2>2, <2>3, <2>4
<1>4. PICK p : /\ Parsed(dict, sent, p)
               /\ SubSeq(sent, p[n] + 1, Len(sent)) = Phrase(sent, p, node)
  BY <1>3
<1>5. \A k \in 0 .. n : P[k] = Phrase(sent, p, k)
  BY <1>2, <1>4, DictionarySpells
<1> HIDE DEF P
<1>6. Cat[n] = SubSeq(sent, 1, p[n])
  <2>1. Parts(P, sent, p, n)
    <3>1. p \in [0 .. n -> 0 .. Len(sent)] /\ p[0] = 0
      BY <1>4 DEF Parsed
    <3>2. ASSUME NEW i \in 1 .. n
          PROVE  p[i - 1] < p[i] /\ P[i] = SubSeq(sent, p[i - 1] + 1, p[i])
      <4>1. i # 0 /\ i \in 0 .. n
        BY <1>2
      <4>2. p[i - 1] < p[i]
        BY <1>4 DEF Parsed
      <4> QED
        BY <1>5, <4>1, <4>2 DEF Phrase
    <3> QED
      BY <3>1, <3>2 DEF Parts
  <2> HIDE DEF n
  <2>2. \E V : Joins(V, P, n)
    BY <1>2, <2>1, JoinIs DEF n
  <2>3. Joins(Cat, P, n)
    BY <2>2, Zenon DEF Joins, Cat
  <2> HIDE DEF Cat
  <2> QED
    BY <1>2, <2>1, <2>3, JoinIs
<1> HIDE DEF Cat
<1>7. Cat[n] \o P[node] = sent
  <2> DEFINE x == p[n]
  <2>1. x \in 0 .. Len(sent)
    BY <1>2, <1>4 DEF Parsed
  <2>2. Cat[n] \o P[node] = SubSeq(sent, 1, x) \o SubSeq(sent, x + 1, Len(sent))
    BY <1>2, <1>4, <1>5, <1>6
  <2> HIDE DEF x
  <2>3. x \in 1 - 1 .. Len(sent) /\ Len(sent) \in x .. Len(sent) /\ 1 \in 1 .. Len(sent) + 1
    BY <1>2, <2>1
  <2>4. SubSeq(sent, 1, x) \o SubSeq(sent, x + 1, Len(sent)) = SubSeq(sent, 1, Len(sent))
    BY <1>2, <2>3, ConcatAdjacentSubSeq
  <2> QED
    BY <1>2, <2>2, <2>4, SubSeqFull
<1>8. node # 0 => P[node] = Append(P[parent], last)
  <2> SUFFICES ASSUME node # 0 PROVE P[node] = Append(P[parent], last)
    OBVIOUS
  <2>1. node \in 1 .. n /\ dict[node].parent = parent /\ dict[node].c = last
    BY <1>1, <1>2 DEF NodeInv
  <2>2. parent \in 0 .. n
    BY <1>1 DEF TypeInv
  <2> QED
    BY <1>2, <1>4, <1>5, <2>1, <2>2 DEF Parsed
<1>9. \A i, j \in 0 .. n : P[i] = P[j] => i = j
  <2>1. \A i, j \in 0 .. n : Phrase(sent, p, i) = Phrase(sent, p, j) => i = j
    BY <1>1, <1>2, <1>4, PhrasesDistinct DEF NodeInv
  <2> QED
    BY <1>5, <2>1
<1>10. ~closed => n = factors
  BY <1>1 DEF NodeInv, Factors
<1>11. /\ ~closed => n = factors
       /\ Cat[n] \o P[node] = sent
       /\ node # 0 => P[node] = Append(P[parent], last)
       /\ \A i, j \in 0 .. n : P[i] = P[j] => i = j
  BY <1>7, <1>8, <1>9, <1>10
<1> QED
  BY <1>11, Zenon DEF ParsePartitions, P, Root, Cat, n

LEMMA DictionariesFollow == ASSUME Sizes, LZ78Inv PROVE DictsAgree
<1>1. TypeInv /\ NodeInv
  BY DEF LZ78Inv
<1>2. PICK b \in [0 .. Len(Factors) -> 0 .. Len(sent)],
           at \in [0 .. Len(Factors) -> 0 .. Len(wire)] : TextInv(b) /\ ReadInv(b, at)
  BY DEF LZ78Inv
<1>3. dict \in Seq(Entry) /\ Len(dict) \in Nat
  BY <1>1, LenProperties DEF TypeInv
<1>4. ASSUME NEW i \in 1 .. Len(indices), i <= Len(dict)
      PROVE  indices[i] = dict[i].parent /\ literals[i] = dict[i].c
  <2>1. indices[i] = Factors[i].parent /\ literals[i] = Factors[i].c
    BY <1>2 DEF ReadInv
  <2>2. i \in 1 .. Len(dict)
    BY <1>3, <1>4
  <2>3. Factors[i] = dict[i]
    <3>1. CASE closed /\ node # 0
      <4> DEFINE e == [parent |-> parent, c |-> last]
      <4>1. Factors = Append(dict, e) /\ e = dict[node] /\ node \in 1 .. Len(dict)
        BY <1>1, <1>3, <3>1 DEF Factors, NodeInv, TypeInv
      <4>2. e \in Entry
        BY <1>3, <4>1, ElementOfSeq
      <4> HIDE DEF e
      <4> QED
        BY <1>3, <2>2, <4>1, <4>2, LengthAppend
    <3>2. CASE ~ (closed /\ node # 0)
      BY <3>2 DEF Factors
    <3> QED
      BY <3>1, <3>2
  <2> QED
    BY <2>1, <2>3
<1> QED
  BY <1>4, TypeFollows, PartitionFollows DEF DictsAgree

\* Both sides build the same dictionary, the greedy parse of the text that was
\* read (LZ78Compressor.hpp: compress and Decompressor::decompress).
THEOREM DictsAgreeHolds == ASSUME Sizes PROVE SafeSpec => []DictsAgree
<1>1. LZ78Inv => DictsAgree
  BY DictionariesFollow
<1> QED
  BY <1>1, LZ78Invariant, PTL

\* A decoded factor is a delivery of the channel.
LEMMA DecompressDelivers ==
  ASSUME Sizes, LZ78Inv, DecompressFactor
  PROVE  Channel!Deliver
<1>1. TypeInv /\ NodeInv
  BY DEF LZ78Inv
<1>2. PICK b \in [0 .. Len(Factors) -> 0 .. Len(sent)],
           at \in [0 .. Len(Factors) -> 0 .. Len(wire)] : TextInv(b) /\ ReadInv(b, at)
  BY DEF LZ78Inv
<1> DEFINE F == Factors
           m == Len(indices)
           k == m + 1
<1>3. k \in 1 .. Len(F) /\ got' = SubSeq(sent, 1, b[k]) /\ sent' = sent /\ closed' = closed
  BY <1>1, <1>2, FactorRead
<1>4. /\ m \in Nat /\ Len(F) \in Nat /\ Len(sent) \in Nat /\ sent \in Seq(Literal)
      /\ got = SubSeq(sent, 1, b[m]) /\ Parsed(F, sent, b)
  BY <1>1, <1>2, FactorsFacts, LenProperties DEF TypeInv, TextInv, ReadInv
<1> HIDE DEF F, m
<1>5. b[m] \in 0 .. Len(sent) /\ b[k] \in 0 .. Len(sent) /\ b[m] < b[k]
  <2>1. m \in 0 .. Len(F) /\ k \in 0 .. Len(F) /\ k - 1 = m
    BY <1>3, <1>4
  <2>2. \A j \in 0 .. Len(F) : b[j] \in 0 .. Len(sent)
    BY <1>4 DEF Parsed
  <2>3. b[k - 1] < b[k]
    BY <1>3, <1>4 DEF Parsed
  <2> QED
    BY <2>1, <2>2, <2>3
<1> DEFINE x == b[m]
           y == b[k]
<1>6. x \in 0 .. Len(sent) /\ y \in 0 .. Len(sent) /\ x < y
      /\ got = SubSeq(sent, 1, x) /\ got' = SubSeq(sent, 1, y)
  BY <1>3, <1>4, <1>5
<1> HIDE DEF x, y
<1>7. Len(got) = x
  <2>1. 1 \in Int /\ x \in Int
    BY <1>4, <1>6
  <2>2. \A j \in 1 .. x : sent[j] \in Literal
    BY <1>4, <1>6, ElementOfSeq
  <2>3. Len(SubSeq(sent, 1, x)) = IF 1 <= x THEN x - 1 + 1 ELSE 0
    BY <2>1, <2>2, SubSeqProperties
  <2>4. x \in 0 .. Len(sent) /\ Len(sent) \in Nat
    BY <1>4, <1>6, Zenon
  <2>5. x \in Nat
    BY <2>4
  <2>6. Len(SubSeq(sent, 1, x)) = x
    BY <2>3, <2>5
  <2>7. got = SubSeq(sent, 1, x)
    BY <1>6, Zenon
  <2> QED
    BY <2>6, <2>7, Zenon
<1>8. y \in Len(got) + 1 .. Len(sent)
  <2>1. Len(sent) \in Nat /\ x \in 0 .. Len(sent) /\ y \in 0 .. Len(sent) /\ x < y
    BY <1>4, <1>6
  <2>2. y \in x + 1 .. Len(sent)
    BY <2>1
  <2> QED
    BY <1>7, <2>2, Zenon
<1> QED
  BY <1>3, <1>6, <1>8 DEF Channel!Deliver

\* Every step of LZ78 is one of the channel or leaves it alone.
LEMMA StepRefines ==
  ASSUME Sizes, LZ78Inv, [Next]_vars
  PROVE  [Channel!Next]_(Channel!vars)
<1>1. CASE UNCHANGED vars
  BY <1>1 DEF vars, dec, Channel!vars
<1>2. ASSUME NEW c \in Literal, CompressChar(c) PROVE Channel!Send
  <2>1. ~closed /\ sent' = Append(sent, c) /\ got' = got /\ closed' = closed
    BY <1>2 DEF CompressChar, dec
  <2> QED
    BY <2>1 DEF Channel!Send
<1>3. CASE Finish
  <2>1. ~closed /\ closed' = TRUE /\ sent' = sent /\ got' = got
    BY <1>3 DEF Finish, dec
  <2> QED
    BY <2>1 DEF Channel!Close, Channel!Next
<1>4. CASE DecompressFactor
  BY <1>4, DecompressDelivers DEF Channel!Next
<1> QED
  BY <1>1, <1>2, <1>3, <1>4 DEF Next, Channel!Next

\* LZ78 loses, invents and changes nothing: a factor that is decoded delivers the
\* next part of the text (the safety part of ChannelSpec; LZ78Compressor.hpp:60-158).
THEOREM LZ78Lossless == ASSUME Sizes PROVE SafeSpec => Channel!SafeSpec
<1>1. Init => Channel!Init
  BY DEF Init, Channel!Init
<1>2. LZ78Inv /\ [Next]_vars => [Channel!Next]_(Channel!vars)
  BY StepRefines
<1> QED
  BY <1>1, <1>2, LZ78Invariant, PTL DEF SafeSpec, Channel!SafeSpec

\* When the wire is read to its end, the text is there in full: a decompressor
\* that stops has stopped at the right place (the test of the loop of decompress).
ReadToTheEnd == closed /\ pos = Len(wire) => got = sent

\* A word has at least one bit: only the last one ends at the end of the wire.
LEMMA EndFollows == ASSUME Sizes, LZ78Inv PROVE ReadToTheEnd
<1> SUFFICES ASSUME closed, pos = Len(wire) PROVE got = sent
  BY DEF ReadToTheEnd
<1>1. TypeInv /\ NodeInv
  BY DEF LZ78Inv
<1>2. PICK b \in [0 .. Len(Factors) -> 0 .. Len(sent)],
           at \in [0 .. Len(Factors) -> 0 .. Len(wire)] : TextInv(b) /\ ReadInv(b, at)
  BY DEF LZ78Inv
<1> DEFINE F == Factors
           m == Len(indices)
           W == Written
<1>3. /\ m \in Nat /\ Len(F) \in Nat /\ m <= Len(F) /\ pos = at[m]
      /\ Coded(W, wire, at) /\ got = SubSeq(sent, 1, b[m]) /\ b[Len(F)] = Len(sent)
  BY <1>1, <1>2, FactorsFacts, LenProperties DEF TypeInv, TextInv, ReadInv
<1>4. F \in Seq(Entry) /\ Parsed(F, sent, b) /\ Len(F) <= MaxLen /\ MaxLen \in Nat
  BY <1>1, <1>2, FactorsFacts DEF TextInv, Sizes
<1>6. /\ W \in Seq(Item) /\ Len(W) = Len(F)
      /\ \A j \in 1 .. Len(F) : W[j].parent = F[j].parent
  BY <1>1, WrittenFacts
<1> HIDE DEF F, m, W
<1>5. m = Len(F)
  <2>1. ASSUME NEW j \in 1 .. Len(F) PROVE Len(Words(W)[j]) \in Nat \ {0}
    <3> DEFINE e == W[j]
    <3>1. e \in Item
      BY <1>6, ElementOfSeq
    <3>2. e.parent \in 0 .. j - 1
      BY <1>4, <1>6 DEF Parsed
    <3>3. j \in Nat \ {0} /\ j - 1 <= MaxLen
      BY <1>3, <1>4
    <3> HIDE DEF e
    <3>4. /\ Len(Encoded(Binary, e.parent, j - 1)) \in Nat \ {0}
          /\ Len(Encoded(Binary, e.c, Sigma - 1)) \in Nat \ {0}
          /\ Len(Word(e, j)) = Len(Encoded(Binary, e.parent, j - 1))
                                 + Len(Encoded(Binary, e.c, Sigma - 1))
      BY <3>1, <3>2, <3>3, WordFacts
    <3>5. Len(Word(e, j)) \in Nat \ {0}
      BY <3>4
    <3>6. Words(W)[j] = Word(e, j)
      BY <1>6 DEF Words, e
    <3> QED
      BY <3>5, <3>6
  <2>2. Framed(Len(F), Words(W), wire, at) /\ wire \in Seq(Int)
    BY <1>1, <1>3, <1>6, CodedIsFramed DEF TypeInv
  <2>3. m \in 0 .. Len(F) /\ at[m] = Len(wire)
    BY <1>3
  <2> QED
    BY <1>3, <2>1, <2>2, <2>3, FramedEnd
<1> QED
  BY <1>1, <1>3, <1>5, SubSeqFull DEF TypeInv

\* The text is complete when the wire is read: nothing is lost at its end, where a
\* phrase may be cut short and its last character goes to the coder as a signed
\* char (LZ78Compressor.hpp:123-129).
THEOREM LZ78Complete == ASSUME Sizes PROVE SafeSpec => []ReadToTheEnd
<1>1. LZ78Inv => ReadToTheEnd
  BY EndFollows
<1> QED
  BY <1>1, LZ78Invariant, PTL
=============================================================================
