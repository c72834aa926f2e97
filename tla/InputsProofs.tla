---------------------------- MODULE InputsProofs ----------------------------
(***************************************************************************)
(* Proofs about Inputs, for every set of texts, every set of restrictions  *)
(* the pool suffices for, any number of readers and any number of inputs:  *)
(* what a reader sees is its slice in the restricted form of its input,    *)
(* whatever happens to the shared buffers, and a stream is refused only    *)
(* while a reader with other restrictions is open.                         *)
(***************************************************************************)
EXTENDS Inputs, DataProofs

(***************************************************************************)
(* The inductive invariant.                                                *)
(***************************************************************************)
Asked == {Merged(R) : R \in SUBSET Restrictions}
Input == [from : Nat, to : Nat \cup {npos}, restr : Asked, size : Nat \cup {npos}]
Chunk == [from : Nat, to : Nat \cup {npos}, owner : Nat, plain : Seq(Nat), restr : Asked,
          lo : Nat, hi : Nat]

\* Bounds that lie in the text.
InText(v) == v.from <= Until(v) /\ Until(v) <= Len(text)

InputInv(v) ==
  /\ InText(v)
  /\ v.size # npos /\ Translatable(v.restr, v) =>
       v.size = Len(RestrictedForm(v.restr, SourceSlice(v)))

\* A chunk shows its own part of the text as its owner's buffer restricts it,
\* or some part of that buffer if its bounds cannot be translated.
ChunkInv(h, id) ==
  LET c == h.chunk[id]
  IN  /\ InText(c)
      /\ c.owner \in DOMAIN h.chunk /\ h.chunk[c.owner].owner = c.owner
      /\ View(h, id) \in Seq(Nat)
      /\ Translatable(Owner(h, id).restr, c) =>
           IsRestricted(Owner(h, id).restr, SourceSlice(c), View(h, id))

\* The chunk of a whole stream.
IsRoot(c, id) ==
  /\ Whole(c) /\ c.owner = id
  /\ c.plain = text /\ c.lo = 0 /\ c.hi = Len(RestrictedForm(c.restr, text))

\* All chunks of a stream are slices of the one root,
OneRoot(h) ==
  /\ \A a, b \in DOMAIN h.chunk : h.chunk[a].owner = h.chunk[b].owner
  /\ \A a \in DOMAIN h.chunk : Whole(h.chunk[a]) => h.chunk[a].owner = a
  /\ \A a \in DOMAIN h.chunk : h.chunk[a].owner = a => IsRoot(h.chunk[a], a)

\* which stays in the pool.  The stream is unread as long as there is none.
StreamInv(h) ==
  /\ OneRoot(h)
  /\ shared => /\ \A a \in DOMAIN h.chunk : h.chunk[a].owner \in h.pool
               /\ DOMAIN h.chunk = {} => h.left = text

HeapType(h) ==
  /\ h = [pool |-> h.pool, chunk |-> h.chunk, left |-> h.left]
  /\ h.chunk \in [DOMAIN h.chunk -> Chunk]
  /\ DOMAIN h.chunk \subseteq Nat \ {0} /\ IsFiniteSet(DOMAIN h.chunk)
  /\ h.pool \subseteq DOMAIN h.chunk

Buffers(h) ==
  /\ HeapType(h)
  /\ \A id \in DOMAIN h.chunk : ChunkInv(h, id)
  /\ kind = "stream" => OneRoot(h)

HeapInv(h) == Buffers(h) /\ (kind = "stream" => StreamInv(h))

\* What the chunk of a reader or of a computed size has to be.
Serves(h, id, v) ==
  /\ id \in DOMAIN h.chunk
  /\ h.chunk[id].from = v.from /\ h.chunk[id].to = v.to /\ Owner(h, id).restr = v.restr

ServedBy(h, rd, asked) ==
  /\ rd \in [Readers -> [of : Nat, id : Nat]]
  /\ \A x \in Readers : rd[x] # Closed =>
       rd[x].of \in DOMAIN asked /\ Serves(h, rd[x].id, asked[rd[x].of])

ReaderInv(h, rd) == ServedBy(h, rd, inputs)

\* A slice of a stream is alive only while a reader is open on it.
HeldInv(h, rd) ==
  kind = "stream" /\ shared =>
    \A id \in DOMAIN h.chunk : h.chunk[id].owner = id \/ \E x \in Readers : rd[x].id = id

InputsInv ==
  /\ text \in Seq(Nat) /\ kind \in {"view", "file", "stream"} /\ shared \in BOOLEAN
  /\ inputs \in Seq(Input) /\ \A k \in DOMAIN inputs : InputInv(inputs[k])
  /\ HeapInv(heap) /\ ReaderInv(heap, reader) /\ HeldInv(heap, reader)
  /\ outcome.why \in {"running", "copy", "slice", "bounds", "expired"}
  /\ RefusedOnlyWhenInUse
-----------------------------------------------------------------------------
(* Restrictions that inputs ask for.                                       *)

LEMMA AskedFacts ==
  /\ \A r \in Asked : /\ PoolSuffices(r) /\ r = [escape |-> r.escape, null |-> r.null]
                      /\ r.null \in BOOLEAN
  /\ NoRestriction \in Asked
  /\ \A r \in Asked, q \in Restrictions : MergeRestrictions(r, q) \in Asked
<1>1. ASSUME NEW r \in Asked
      PROVE  /\ PoolSuffices(r) /\ r = [escape |-> r.escape, null |-> r.null]
             /\ r.null \in BOOLEAN
  <2>1. PICK R \in SUBSET Restrictions : r = Merged(R)
    BY DEF Asked
  <2>2. PoolSuffices(r)
    BY <2>1, InputsAssumption
  <2> QED
    BY <2>1, <2>2 DEF Merged
<1>2. NoRestriction = Merged({})
  BY DEF NoRestriction, Merged
<1>3. ASSUME NEW R \in SUBSET Restrictions, NEW q \in Restrictions
      PROVE  MergeRestrictions(Merged(R), q) = Merged(R \cup {q})
  <2>1. Merged(R).escape \cup q.escape = Merged(R \cup {q}).escape
    BY DEF Merged
  <2>2. (Merged(R).null \/ q.null) = Merged(R \cup {q}).null
    BY DEF Merged
  <2> QED
    BY <2>1, <2>2 DEF MergeRestrictions, Merged
<1>4. NoRestriction \in Asked
  BY <1>2 DEF Asked
<1>5. ASSUME NEW r \in Asked, NEW q \in Restrictions
      PROVE  MergeRestrictions(r, q) \in Asked
  <2>1. PICK R \in SUBSET Restrictions : r = Merged(R)
    BY DEF Asked
  <2>2. R \cup {q} \in SUBSET Restrictions
    OBVIOUS
  <2> QED
    BY <1>3, <2>1, <2>2 DEF Asked
<1> QED
  BY <1>1, <1>4, <1>5
-----------------------------------------------------------------------------
(* RestrictedForm is a restricted form.                                    *)

LEMMA LeastElement ==
  ASSUME NEW S, IsFiniteSet(S), S \subseteq Int, S # {}
  PROVE  \E x \in S : \A y \in S : x <= y
<1>1. 1 \in 1 .. Cardinality(S)
  BY FS_CardinalityType, FS_EmptySet
<1>2. PICK x \in S : Cardinality(UpTo(S, x)) = 1
  BY <1>1, RankTaken
<1>3. ASSUME NEW y \in S, y < x PROVE FALSE
  <2>1. x \in UpTo(S, x) /\ y \in UpTo(S, x)
    BY <1>3 DEF UpTo
  <2>2. PICK z : UpTo(S, x) = {z}
    BY <1>2, UpToFinite, FS_Singleton
  <2> QED
    BY <1>3, <2>1, <2>2
<1> QED
  BY <1>3

\* Every byte in front of the n-th character's end belongs to a character.
LEMMA CharExists ==
  ASSUME NEW r, NEW s, NEW n \in Nat, NEW k \in 1 .. Offset(r, s, n + 1)
  PROVE  \E i \in 1 .. n : Offset(r, s, i) < k /\ k <= Offset(r, s, i + 1)
<1> DEFINE behind == {i \in 1 .. n : k <= Offset(r, s, i + 1)}
<1>0. k \in Nat \ {0} /\ k <= Offset(r, s, n + 1)
  BY OffsetBound
<1>1. n \in 1 .. n
  BY <1>0, OffsetStart
<1>2. n \in behind /\ IsFiniteSet(behind) /\ behind \subseteq Int
  <2>1. behind \in SUBSET (1 .. n) /\ IsFiniteSet(1 .. n)
    BY FS_Interval
  <2>2. n \in behind /\ behind \subseteq Int
    BY <1>0, <1>1
  <2> HIDE DEF behind
  <2> QED
    BY <2>1, <2>2, FS_Subset
<1>3. PICK i \in behind : \A j \in behind : i <= j
  <2> HIDE DEF behind
  <2> QED
    BY <1>2, LeastElement
<1>4. CASE i = 1
  BY <1>0, <1>3, <1>4, OffsetStart
<1>5. CASE i # 1
  <2>1. i - 1 \in 1 .. n /\ i - 1 \notin behind /\ i - 1 + 1 = i
    BY <1>3, <1>5
  <2>2. Offset(r, s, i) \in Nat
    BY <1>3, OffsetOrder
  <2> QED
    BY <1>0, <1>3, <2>1, <2>2
<1> QED
  BY <1>4, <1>5

\* It belongs to one only.
LEMMA CharUnique ==
  ASSUME NEW r, NEW s, NEW k \in Int, NEW i \in Nat \ {0}, NEW j \in Nat \ {0},
         Offset(r, s, i) < k, k <= Offset(r, s, i + 1),
         Offset(r, s, j) < k, k <= Offset(r, s, j + 1)
  PROVE  i = j
<1>1. ASSUME NEW a \in Nat \ {0}, NEW b \in Nat \ {0}, a < b,
             k <= Offset(r, s, a + 1), Offset(r, s, b) < k
      PROVE  FALSE
  <2>1. a + 1 \in Nat \ {0} /\ a + 1 <= b
    BY <1>1
  <2>2. Offset(r, s, a + 1) + (b - (a + 1)) <= Offset(r, s, b)
    BY <2>1, OffsetGrows
  <2>3. Offset(r, s, a + 1) \in Nat /\ Offset(r, s, b) \in Nat
    BY <2>1, OffsetNext
  <2> QED
    BY <1>1, <2>1, <2>2, <2>3
<1> QED
  BY <1>1

LEMMA CharAtFacts ==
  ASSUME NEW r, NEW s \in Seq(Nat), NEW i \in 1 .. Len(s), NEW k \in Int,
         Offset(r, s, i) < k, k <= Offset(r, s, i + 1)
  PROVE  CharAt(r, s, k) = i
<1> DEFINE j == CHOOSE x \in 1 .. Len(s) : Offset(r, s, x) < k /\ k <= Offset(r, s, x + 1)
<1>1. j \in 1 .. Len(s) /\ Offset(r, s, j) < k /\ k <= Offset(r, s, j + 1)
  OBVIOUS
<1> HIDE DEF j
<1>2. j = i
  BY <1>1, CharUnique
<1> QED
  BY <1>2 DEF CharAt, j

LEMMA FormType ==
  ASSUME NEW r, PoolSuffices(r), NEW s \in Seq(Nat)
  PROVE  /\ RestrictedForm(r, s) \in Seq(Nat)
         /\ Len(RestrictedForm(r, s)) = Offset(r, s, Len(s) + 1) + Noff(r)
         /\ Offset(r, s, Len(s) + 1) \in Nat /\ Noff(r) \in {0, 1}
<1> DEFINE end == Offset(r, s, Len(s) + 1)
<1>1. Len(s) \in Nat /\ s \in [1 .. Len(s) -> Nat] /\ end \in Nat /\ Noff(r) \in {0, 1}
  BY LenProperties, OffsetBound DEF Noff
<1>2. ASSUME NEW k \in 1 .. end
      PROVE  ByteOf(r, s, k, CharAt(r, s, k)) \in Nat
  <2>1. PICK i \in 1 .. Len(s) : Offset(r, s, i) < k /\ k <= Offset(r, s, i + 1)
    BY <1>1, CharExists
  <2>2. CharAt(r, s, k) = i
    BY <2>1, CharAtFacts
  <2>3. s[i] \in Escaped(r) => EscapeByte(r) \in Nat /\ Replacement(r)[s[i]] \in Nat
    BY CodeFacts
  <2> QED
    BY <1>1, <2>2, <2>3 DEF ByteOf
<1>3. end + Noff(r) \in Nat
  BY <1>1
<1>4. \A k \in 1 .. end + Noff(r) :
        (IF k > end THEN 0 ELSE ByteOf(r, s, k, CharAt(r, s, k))) \in Nat
  BY <1>1, <1>2
<1> HIDE DEF end
<1>5. RestrictedForm(r, s) \in [1 .. end + Noff(r) -> Nat]
  BY <1>4 DEF RestrictedForm, end
<1>6. RestrictedForm(r, s) \in Seq(Nat)
  BY <1>3, <1>5, SeqDef
<1> QED
  BY <1>1, <1>3, <1>5, <1>6, LenProperties DEF end

LEMMA FormRestricted ==
  ASSUME NEW r, PoolSuffices(r), NEW s \in Seq(Nat)
  PROVE  IsRestricted(r, s, RestrictedForm(r, s))
<1> DEFINE end == Offset(r, s, Len(s) + 1)
           form == RestrictedForm(r, s)
<1>1. Len(s) \in Nat /\ end \in Nat /\ Noff(r) \in {0, 1} /\ Len(form) = end + Noff(r)
  BY FormType, LenProperties
<1>2. \A k \in 1 .. end + Noff(r) :
        form[k] = IF k > end THEN 0 ELSE ByteOf(r, s, k, CharAt(r, s, k))
  BY DEF RestrictedForm
<1> HIDE DEF form
<1>3. r.null => form[end + 1] = 0
  BY <1>1, <1>2 DEF Noff
<1>4. ASSUME NEW i \in 1 .. Len(s)
      PROVE  Shows(r, s[i], form, Offset(r, s, i))
  <2> DEFINE p == Offset(r, s, i)
  <2>1. /\ p \in Nat /\ Offset(r, s, i + 1) \in Nat /\ Offset(r, s, i + 1) <= end
        /\ p < Offset(r, s, i + 1)
        /\ s[i] \in Escaped(r) => Offset(r, s, i + 1) = p + 2
    <3>1. /\ Offset(r, s, i) \in Nat /\ Offset(r, s, i + 1) \in Nat
          /\ Offset(r, s, i) < Offset(r, s, i + 1)
          /\ Offset(r, s, i + 1) + (Len(s) - i) <= Offset(r, s, Len(s) + 1)
          /\ s[i] \in Escaped(r) => Offset(r, s, i + 1) = Offset(r, s, i) + 2
      BY <1>1, OffsetOrder
    <3> QED
      BY <1>1, <3>1
  <2>2. ASSUME NEW k \in Int, p < k, k <= Offset(r, s, i + 1)
        PROVE  form[k] = ByteOf(r, s, k, i)
    <3>1. k \in 1 .. end + Noff(r) /\ ~(k > end)
      BY <1>1, <2>1, <2>2
    <3>2. CharAt(r, s, k) = i
      BY <2>2, CharAtFacts
    <3> HIDE DEF end, p
    <3> QED
      BY <1>2, <3>1, <3>2
  <2>3. CASE s[i] \in Escaped(r)
    <3>1. form[p + 1] = ByteOf(r, s, p + 1, i) /\ form[p + 2] = ByteOf(r, s, p + 2, i)
      <4>1. p + 1 \in Int /\ p < p + 1 /\ p + 1 <= Offset(r, s, i + 1)
        BY <2>1
      <4>2. p + 2 \in Int /\ p < p + 2 /\ p + 2 <= Offset(r, s, i + 1)
        BY <2>1, <2>3
      <4> HIDE DEF p
      <4> QED
        BY <2>2, <4>1, <4>2
    <3>2. p + 2 # p + 1
      BY <2>1
    <3> QED
      BY <2>3, <3>1, <3>2 DEF ByteOf, Shows
  <2>4. CASE s[i] \notin Escaped(r)
    <3>1. form[p + 1] = ByteOf(r, s, p + 1, i)
      BY <2>1, <2>2
    <3> QED
      BY <2>4, <3>1 DEF ByteOf, Shows
  <2> QED
    BY <2>3, <2>4
<1> QED
  BY <1>1, <1>3, <1>4 DEF IsRestricted, form
-----------------------------------------------------------------------------
(* Slices of a restricted form.                                            *)

LEMMA SameSize ==
  ASSUME NEW S, IsFiniteSet(S), NEW T, NEW f \in [S -> T],
         \A x, y \in S : f[x] = f[y] => x = y,
         \A t \in T : \E x \in S : f[x] = t
  PROVE  IsFiniteSet(T) /\ Cardinality(T) = Cardinality(S)
<1>1. f \in Bijection(S, T)
  BY Fun_IsBij
<1>2. ExistsBijection(S, T)
  BY <1>1, Fun_ExistsBij
<1> QED
  BY <1>2, FS_Bijection

\* u starts with the m characters of t behind the a-th.
Continues(u, t, a, m) == \A j \in 1 .. m : u[j] = t[a + j]

\* The characters behind the a-th are as far from it as in the text without the
\* first a characters.
LEMMA OffsetShift ==
  ASSUME NEW r, NEW t, NEW u, NEW a \in Nat, NEW m \in Nat,
         Continues(u, t, a, m)
  PROVE  Offset(r, t, a + m + 1) = Offset(r, t, a + 1) + Offset(r, u, m + 1)
<1> DEFINE behind == {j \in a + 1 .. a + m : t[j] \in Escaped(r)}
           shift == [j \in Flagged(r, u, m) |-> a + j]
<1>1. Flagged(r, t, a + m) = Flagged(r, t, a) \cup behind
  <2>1. \A j : j \in 1 .. a + m <=> j \in 1 .. a \/ j \in a + 1 .. a + m
    OBVIOUS
  <2> QED
    BY <2>1, Zenon DEF Flagged
<1>2. Flagged(r, t, a) \cap behind = {}
  BY DEF Flagged
<1>3. IsFiniteSet(behind) /\ Cardinality(behind) = Cardinality(Flagged(r, u, m))
  <2>1. \A j \in Flagged(r, u, m) : j \in 1 .. m /\ a + j \in behind
    BY DEF Flagged, Continues
  <2>2. \A x \in behind : x - a \in Flagged(r, u, m) /\ a + (x - a) = x
    <3> SUFFICES ASSUME NEW x \in behind
                 PROVE  x - a \in Flagged(r, u, m) /\ a + (x - a) = x
      OBVIOUS
    <3>1. x - a \in 1 .. m /\ a + (x - a) = x /\ t[x] \in Escaped(r)
      OBVIOUS
    <3>2. u[x - a] = t[x]
      BY <3>1 DEF Continues
    <3> QED
      BY <3>1, <3>2 DEF Flagged
  <2>3. shift \in [Flagged(r, u, m) -> behind]
    BY <2>1
  <2>4. \A x, y \in Flagged(r, u, m) : shift[x] = shift[y] => x = y
    BY <2>1
  <2>5. \A x \in behind : \E j \in Flagged(r, u, m) : shift[j] = x
    BY <2>2
  <2> HIDE DEF shift, behind
  <2> QED
    BY <2>3, <2>4, <2>5, FlaggedFinite, SameSize
<1>4. Cardinality(Flagged(r, t, a + m)) = Cardinality(Flagged(r, t, a)) + Cardinality(behind)
  <2> HIDE DEF behind
  <2>1. /\ IsFiniteSet(Flagged(r, t, a)) /\ Cardinality(Flagged(r, t, a)) \in Nat
        /\ Cardinality(behind) \in Nat
    BY <1>3, FlaggedFinite, FS_CardinalityType
  <2>2. Cardinality(Flagged(r, t, a) \cup behind)
          = Cardinality(Flagged(r, t, a)) + Cardinality(behind) - Cardinality({})
    BY <1>2, <1>3, <2>1, FS_Union
  <2> QED
    BY <1>1, <2>1, <2>2, FS_EmptySet
<1>5. a + m \in Nat
  OBVIOUS
<1> HIDE DEF behind
<1> QED
  BY <1>3, <1>4, <1>5, OffsetFlagged, FlaggedFinite

\* A slice of the restricted form from and up to character boundaries is the
\* restricted form of the slice; the terminator belongs to the end of the text.
LEMMA SliceRestricted ==
  ASSUME NEW r, NEW t \in Seq(Nat), NEW s \in Seq(Nat),
         NEW a \in 0 .. Len(t), NEW b \in a .. Len(t),
         IsRestricted(r, t, s), r.null => b = Len(t)
  PROVE  LET lo == Offset(r, t, a + 1)
             hi == Offset(r, t, b + 1) + Noff(r)
         IN  lo \in Nat /\ hi \in Nat /\
             IsRestricted(r, SubSeq(t, a + 1, b), SubSeq(s, lo + 1, hi))
<1> DEFINE lo == Offset(r, t, a + 1)
           hi == Offset(r, t, b + 1) + Noff(r)
           u == SubSeq(t, a + 1, b)
           v == SubSeq(s, lo + 1, hi)
           n == b - a
           end == Offset(r, t, Len(t) + 1)
<1>0. /\ \A j \in 1 .. Len(t) : t[j] \in Nat
      /\ \A j \in 1 .. Len(s) : s[j] \in Nat
  BY LenProperties
<1>1. /\ Len(t) \in Nat /\ Len(s) \in Nat /\ a \in Nat /\ b \in Nat /\ a <= b /\ b <= Len(t)
      /\ n \in Nat /\ Noff(r) \in {0, 1}
  BY LenProperties DEF Noff
<1>2. /\ lo \in Nat /\ Offset(r, t, b + 1) \in Nat /\ end \in Nat /\ hi \in Nat
      /\ lo + n <= Offset(r, t, b + 1)
      /\ Offset(r, t, b + 1) <= end
  <2>1. a + 1 \in Nat \ {0} /\ b + 1 \in Nat \ {0} /\ Len(t) + 1 \in Nat \ {0}
    BY <1>1
  <2>2. lo \in Nat /\ Offset(r, t, b + 1) \in Nat /\ end \in Nat
    BY <2>1, OffsetNext
  <2>3. lo + (b + 1 - (a + 1)) <= Offset(r, t, b + 1)
    BY <2>1, OffsetGrows
  <2>4. Offset(r, t, b + 1) + (Len(t) + 1 - (b + 1)) <= end
    BY <2>1, OffsetGrows
  <2> HIDE DEF lo, end
  <2> QED
    BY <1>1, <2>2, <2>3, <2>4
<1>3. Len(s) = end + Noff(r) /\ hi <= Len(s)
  BY <1>1, <1>2 DEF IsRestricted
<1>4. Len(u) = n /\ \A j \in 1 .. n : u[j] = t[a + j]
  <2>1. \A j \in a + 1 .. b : t[j] \in Nat
    BY <1>0, <1>1
  <2>2. /\ Len(u) = IF a + 1 <= b THEN b - (a + 1) + 1 ELSE 0
        /\ \A j \in 1 .. b - (a + 1) + 1 : u[j] = t[a + 1 + j - 1]
    BY <1>1, <2>1, SubSeqProperties
  <2> HIDE DEF u
  <2>3. \A j \in 1 .. n : j \in 1 .. b - (a + 1) + 1 /\ a + 1 + j - 1 = a + j
    BY <1>1
  <2> QED
    BY <1>1, <2>2, <2>3
<1>5. /\ Len(v) = hi - lo
      /\ \A j \in 1 .. hi - lo : v[j] = s[lo + j]
  <2> HIDE DEF lo, hi
  <2>1. \A j \in lo + 1 .. hi : s[j] \in Nat
    BY <1>0, <1>1, <1>2, <1>3
  <2>2. /\ Len(v) = IF lo + 1 <= hi THEN hi - (lo + 1) + 1 ELSE 0
        /\ \A j \in 1 .. hi - (lo + 1) + 1 : v[j] = s[lo + 1 + j - 1]
    BY <1>2, <2>1, SubSeqProperties
  <2> HIDE DEF v
  <2>3. \A j \in 1 .. hi - lo : j \in 1 .. hi - (lo + 1) + 1 /\ lo + 1 + j - 1 = lo + j
    BY <1>2
  <2>4. lo <= hi
    BY <1>1, <1>2 DEF hi
  <2> QED
    BY <1>2, <2>2, <2>3, <2>4
<1>6. ASSUME NEW m \in 0 .. n
      PROVE  Offset(r, t, a + m + 1) = lo + Offset(r, u, m + 1)
  <2>1. Continues(u, t, a, m)
    BY <1>4 DEF Continues
  <2>2. m \in Nat /\ a \in Nat
    BY <1>1
  <2> HIDE DEF u, n
  <2> QED
    BY <2>1, <2>2, OffsetShift
<1>7. Offset(r, u, n + 1) = Offset(r, t, b + 1) - lo /\ Offset(r, u, n + 1) \in Nat
  <2>1. a + n + 1 = b + 1 /\ n \in 0 .. n
    BY <1>1
  <2>2. Offset(r, u, n + 1) \in Nat
    BY <1>1, OffsetBound
  <2> HIDE DEF lo, u, n
  <2>3. Offset(r, t, a + n + 1) = lo + Offset(r, u, n + 1)
    BY <1>6, <2>1
  <2> QED
    BY <1>2, <2>1, <2>2, <2>3
<1>8. ASSUME NEW i \in 1 .. n
      PROVE  Shows(r, u[i], v, Offset(r, u, i))
  <2> DEFINE q == Offset(r, u, i)
  <2>1. u[i] = t[a + i] /\ a + i \in 1 .. Len(t) /\ a + i \in 1 .. b
    BY <1>1, <1>4
  <2>2. Offset(r, t, a + i) = lo + q /\ q \in Nat
    <3>1. i - 1 \in 0 .. n /\ a + (i - 1) + 1 = a + i /\ i - 1 + 1 = i /\ i \in Nat \ {0}
      BY <1>1
    <3>2. Offset(r, t, a + (i - 1) + 1) = lo + Offset(r, u, i - 1 + 1)
      BY <1>6, <3>1
    <3> QED
      BY <3>1, <3>2, OffsetNext
  <2>3. Shows(r, t[a + i], s, lo + q)
    BY <2>1, <2>2 DEF IsRestricted
  <2>4. /\ Offset(r, t, a + i) < Offset(r, t, a + i + 1)
        /\ Offset(r, t, a + i + 1) + (b - (a + i)) <= Offset(r, t, b + 1)
        /\ Offset(r, t, a + i + 1) \in Nat
        /\ t[a + i] \in Escaped(r) => Offset(r, t, a + i + 1) = Offset(r, t, a + i) + 2
    BY <1>1, <2>1, OffsetOrder, ZenonT(40)
  <2> HIDE DEF q, u, v
  <2>5. /\ q + 1 \in 1 .. hi - lo
        /\ t[a + i] \in Escaped(r) => q + 2 \in 1 .. hi - lo
    <3> HIDE DEF lo
    <3>0. Offset(r, t, a + i + 1) <= Offset(r, t, b + 1)
      BY <1>1, <1>2, <2>1, <2>4
    <3>1. lo + q + 1 <= Offset(r, t, b + 1)
      BY <1>2, <2>2, <2>4, <3>0, SMTT(30)
    <3>2. t[a + i] \in Escaped(r) => lo + q + 2 <= Offset(r, t, b + 1)
      BY <2>2, <2>4, <3>0
    <3>3. Offset(r, t, b + 1) - lo <= hi - lo
      BY <1>1, <1>2, SMTT(30)
    <3> HIDE DEF hi
    <3>4. q + 1 \in 1 .. hi - lo
      BY <1>2, <2>2, <3>1, <3>3
    <3>5. t[a + i] \in Escaped(r) => q + 2 \in 1 .. hi - lo
      BY <1>2, <2>2, <3>2, <3>3
    <3> QED
      BY <3>4, <3>5
  <2> HIDE DEF lo, hi
  <2>6. /\ v[q + 1] = s[lo + q + 1]
        /\ t[a + i] \in Escaped(r) => v[q + 2] = s[lo + q + 2]
    <3>1. lo + (q + 1) = lo + q + 1 /\ lo + (q + 2) = lo + q + 2
      BY <1>2, <2>2
    <3>2. v[q + 1] = s[lo + (q + 1)]
      BY <1>5, <2>5
    <3>3. t[a + i] \in Escaped(r) => v[q + 2] = s[lo + (q + 2)]
      BY <1>5, <2>5
    <3> QED
      BY <3>1, <3>2, <3>3
  <2>7. Shows(r, u[i], v, q)
    BY <2>1, <2>3, <2>6 DEF Shows
  <2> QED
    BY <2>7 DEF q
<1>9. r.null => v[Offset(r, u, n + 1) + 1] = 0
  <2> HAVE r.null
  <2>1. b = Len(t) /\ Noff(r) = 1
    BY DEF Noff
  <2>2. s[end + 1] = 0
    BY DEF IsRestricted
  <2>3. hi = end + 1 /\ Offset(r, u, n + 1) + 1 = hi - lo /\ hi - lo \in 1 .. hi - lo
    <3>1. hi = end + 1
      BY <2>1
    <3> HIDE DEF u
    <3>2. Offset(r, u, n + 1) = end - lo /\ Offset(r, u, n + 1) \in Nat
      BY <1>7, <2>1
    <3> HIDE DEF end, lo, hi, n
    <3> QED
      BY <1>2, <3>1, <3>2
  <2> HIDE DEF u, v, lo, hi, end
  <2>4. v[hi - lo] = s[lo + (hi - lo)] /\ lo + (hi - lo) = end + 1
    BY <1>2, <1>5, <2>3
  <2> QED
    BY <2>2, <2>3, <2>4
<1>10. Len(v) = Offset(r, u, n + 1) + Noff(r)
  <2> HIDE DEF u, v, lo, n
  <2>1. Offset(r, u, n + 1) + Noff(r) = hi - lo
    BY <1>1, <1>2, <1>7, SMTT(30)
  <2> QED
    BY <1>5, <2>1
<1>11. IsRestricted(r, u, v)
  <2> HIDE DEF u, v
  <2> QED
    BY <1>4, <1>8, <1>9, <1>10 DEF IsRestricted
<1> QED
  BY <1>2, <1>11
-----------------------------------------------------------------------------
(* The translation of a position counts right when there is no escape byte *)
(* among the characters in front of it.                                    *)

\* Where a character ends in the restricted form there is no escape byte, and
\* only the first byte of a pair is followed by more bytes of the character.
LEMMA LastByte ==
  ASSUME NEW r, PoolSuffices(r), HasEscapeRestrictions(r), NEW t \in Seq(Nat), NEW s,
         IsRestricted(r, t, s), NEW i \in 1 .. Len(t), t[i] # EscapeByte(r)
  PROVE  /\ s[Offset(r, t, i + 1)] # EscapeByte(r)
         /\ \A k \in Nat : /\ Offset(r, t, i) < k /\ k < Offset(r, t, i + 1)
                           => s[k] = EscapeByte(r)
<1> DEFINE p == Offset(r, t, i)
<1>1. /\ p \in Nat
      /\ t[i] \in Escaped(r) => Offset(r, t, i + 1) = p + 2
      /\ t[i] \notin Escaped(r) => Offset(r, t, i + 1) = p + 1
  BY OffsetNext
<1>2. Shows(r, t[i], s, p)
  BY DEF IsRestricted
<1> HIDE DEF p
<1>3. CASE t[i] \in Escaped(r)
  <2>1. s[p + 1] = EscapeByte(r) /\ s[p + 2] = Replacement(r)[t[i]]
    BY <1>2, <1>3 DEF Shows
  <2>2. Replacement(r)[t[i]] # EscapeByte(r)
    <3>1. r.escape # {}
      BY DEF HasEscapeRestrictions
    <3>2. EscapeByte(r) \in Escaped(r) /\ EscapeByte(r) = ReplacementByte(r, 0)
      BY <3>1, EscapeTables DEF EscapeByte
    <3>3. Replacement(r)[EscapeByte(r)] = EscapeByte(r)
      BY <3>2 DEF Replacement, Place
    <3> QED
      BY <1>3, <3>1, <3>2, <3>3, EscapeTables
  <2>3. \A k \in Nat : p < k /\ k < p + 2 => k = p + 1
    BY <1>1
  <2> QED
    BY <1>1, <1>3, <2>1, <2>2, <2>3 DEF p
<1>4. CASE t[i] \notin Escaped(r)
  <2>1. s[p + 1] = t[i]
    BY <1>2, <1>4 DEF Shows
  <2>2. \A k \in Nat : ~(p < k /\ k < p + 1)
    BY <1>1
  <2> QED
    BY <1>1, <1>4, <2>1, <2>2 DEF p
<1> QED
  BY <1>3, <1>4

\* The bytes that are counted among the first i of s.
Counted(r, s, i) == {j \in 1 .. i : s[j] # EscapeByte(r)}

LEMMA CountedFinite ==
  ASSUME NEW r, NEW s, NEW i \in Nat
  PROVE  IsFiniteSet(Counted(r, s, i)) /\ Cardinality(Counted(r, s, i)) \in Nat
<1>1. Counted(r, s, i) \in SUBSET (1 .. i) /\ IsFiniteSet(1 .. i)
  BY FS_Interval DEF Counted
<1> QED
  BY <1>1, FS_Subset, FS_CardinalityType

\* One byte is counted for every character.
LEMMA CountedCharacters ==
  ASSUME NEW r, PoolSuffices(r), HasEscapeRestrictions(r), NEW t \in Seq(Nat), NEW s,
         IsRestricted(r, t, s), NEW n \in 0 .. Len(t),
         \A j \in 1 .. n : t[j] # EscapeByte(r)
  PROVE  Cardinality(Counted(r, s, Offset(r, t, n + 1))) = n
<1> DEFINE p == Offset(r, t, n + 1)
           end == [i \in 1 .. n |-> Offset(r, t, i + 1)]
<1>0. n \in Nat /\ p \in Nat /\ \A i \in 1 .. n : i \in 1 .. Len(t)
  BY LenProperties, OffsetBound
<1>1. \A i \in 1 .. n : /\ Offset(r, t, i) \in Nat /\ Offset(r, t, i + 1) \in Nat
                        /\ Offset(r, t, i) < Offset(r, t, i + 1) /\ Offset(r, t, i + 1) <= p
  <2> SUFFICES ASSUME NEW i \in 1 .. n
               PROVE  /\ Offset(r, t, i) \in Nat /\ Offset(r, t, i + 1) \in Nat
                      /\ Offset(r, t, i) < Offset(r, t, i + 1) /\ Offset(r, t, i + 1) <= p
    OBVIOUS
  <2>1. /\ Offset(r, t, i) \in Nat /\ Offset(r, t, i + 1) \in Nat
        /\ Offset(r, t, i) < Offset(r, t, i + 1)
        /\ Offset(r, t, i + 1) + (n - i) <= Offset(r, t, n + 1)
    BY <1>0, OffsetOrder
  <2> QED
    BY <1>0, <2>1
<1>2. \A i \in 1 .. n : /\ s[Offset(r, t, i + 1)] # EscapeByte(r)
                        /\ \A k \in Nat : Offset(r, t, i) < k /\ k < Offset(r, t, i + 1)
                                          => s[k] = EscapeByte(r)
  BY <1>0, LastByte
<1> HIDE DEF p
<1>3. end \in [1 .. n -> Counted(r, s, p)]
  <2>1. ASSUME NEW i \in 1 .. n PROVE Offset(r, t, i + 1) \in 1 .. p
    <3>1. /\ Offset(r, t, i) \in Nat /\ Offset(r, t, i + 1) \in Nat
          /\ Offset(r, t, i) < Offset(r, t, i + 1) /\ Offset(r, t, i + 1) <= p
      BY <1>1
    <3> QED
      BY <1>0, <3>1
  <2>2. \A i \in 1 .. n : Offset(r, t, i + 1) \in Counted(r, s, p)
    BY <1>2, <2>1, Zenon DEF Counted
  <2> QED
    BY <2>2
<1>4. \A i, j \in 1 .. n : end[i] = end[j] => i = j
  <2> SUFFICES ASSUME NEW i \in 1 .. n, NEW j \in 1 .. n,
                      Offset(r, t, i + 1) = Offset(r, t, j + 1)
               PROVE  i = j
    OBVIOUS
  <2>1. Offset(r, t, j + 1) <= Offset(r, t, i + 1) /\ Offset(r, t, i + 1) <= Offset(r, t, i + 1)
    BY <1>1
  <2>2. Offset(r, t, i) < Offset(r, t, i + 1) /\ Offset(r, t, j) < Offset(r, t, i + 1)
    BY <1>1
  <2>3. Offset(r, t, i + 1) \in Int /\ i \in Nat \ {0} /\ j \in Nat \ {0}
    BY <1>1
  <2> QED
    BY <2>1, <2>2, <2>3, CharUnique
<1>5. \A k \in Counted(r, s, p) : \E i \in 1 .. n : end[i] = k
  <2> SUFFICES ASSUME NEW k \in Counted(r, s, p)
               PROVE  \E i \in 1 .. n : Offset(r, t, i + 1) = k
    OBVIOUS
  <2>1. k \in 1 .. p /\ s[k] # EscapeByte(r) /\ k \in Nat
    BY <1>0 DEF Counted
  <2>2. PICK i \in 1 .. n : Offset(r, t, i) < k /\ k <= Offset(r, t, i + 1)
    BY <1>0, <2>1, CharExists DEF p
  <2> QED
    BY <1>1, <1>2, <2>1, <2>2, SMTT(30)
<1>6. IsFiniteSet(1 .. n) /\ Cardinality(1 .. n) = n
  BY <1>0, FS_Interval
<1> HIDE DEF end
<1>7. Cardinality(Counted(r, s, p)) = Cardinality(1 .. n)
  BY <1>3, <1>4, <1>5, <1>6, SameSize
<1> QED
  BY <1>6, <1>7 DEF p

LEMMA TranslatedRight ==
  ASSUME NEW r, PoolSuffices(r), NEW t \in Seq(Nat), NEW s \in Seq(Nat),
         IsRestricted(r, t, s), NEW n \in 0 .. Len(t),
         HasEscapeRestrictions(r) =>
           n = 0 \/ /\ \A j \in 1 .. n : t[j] # EscapeByte(r)
                    /\ n < Len(t) \/ r.null
  PROVE  Translated(r, s, n) = Offset(r, t, n + 1)
<1> DEFINE p == Offset(r, t, n + 1)
           found == {i \in 0 .. Len(s) - 1 : Cardinality(Counted(r, s, i)) = n}
<1>0. Len(t) \in Nat /\ Len(s) \in Nat /\ n \in Nat /\ p \in Nat
  BY LenProperties, OffsetBound
<1>1. CASE ~HasEscapeRestrictions(r)
  <2>1. Escaped(r) = {}
    BY <1>1 DEF HasEscapeRestrictions, Escaped
  <2>2. p = n
    BY <1>0, <2>1, OffsetPlain
  <2> QED
    BY <1>1, <2>2 DEF Translated
<1>2. CASE HasEscapeRestrictions(r)
  <2>1. Translated(r, s, n) = IF found = {} THEN 0 ELSE Min(found)
    BY <1>2 DEF Translated, Counted
  <2>2. \A j \in 1 .. n : t[j] # EscapeByte(r)
    BY <1>2
  <2>3. Cardinality(Counted(r, s, p)) = n
    BY <1>2, <2>2, CountedCharacters
  <2>4. ASSUME NEW q \in Nat, q < p
        PROVE  Cardinality(Counted(r, s, q)) < n
    <3>1. n \in 1 .. Len(t) /\ n \in 1 .. n
      <4>1. n # 0
        BY <1>0, <2>4, OffsetStart
      <4> QED
        BY <1>0, <4>1
    <3>2. s[p] # EscapeByte(r)
      BY <1>2, <2>2, <3>1, LastByte
    <3>3. p \in Counted(r, s, p) /\ p \notin Counted(r, s, q)
      BY <1>0, <2>4, <3>2 DEF Counted
    <3>4. Counted(r, s, q) \in SUBSET Counted(r, s, p)
      <4>1. \A j \in 1 .. q : j \in 1 .. p
        BY <1>0, <2>4
      <4> QED
        BY <4>1 DEF Counted
    <3>5. /\ Cardinality(Counted(r, s, q)) <= Cardinality(Counted(r, s, p))
          /\ Cardinality(Counted(r, s, p)) = Cardinality(Counted(r, s, q))
               => Counted(r, s, p) = Counted(r, s, q)
      BY <1>0, <3>4, CountedFinite, FS_Subset
    <3>6. Cardinality(Counted(r, s, q)) \in Nat
      BY CountedFinite
    <3> QED
      BY <1>0, <2>3, <3>3, <3>5, <3>6
  <2>5. ASSUME NEW q \in found PROVE p <= q
    <3>1. q \in Nat /\ Cardinality(Counted(r, s, q)) = n
      BY <1>0
    <3>2. ~(q < p)
      BY <1>0, <2>4, <3>1
    <3> QED
      BY <1>0, <3>1, <3>2
  <2>6. p < Len(s) => p \in found
    BY <1>0, <2>3
  <2>7. p < Len(s) \/ p = 0
    <3>1. Len(s) = Offset(r, t, Len(t) + 1) + Noff(r)
      BY DEF IsRestricted
    <3>2. CASE n = 0
      BY <3>2, OffsetStart
    <3>3. CASE n < Len(t)
      <4>1. n + 1 \in 1 .. Len(t)
        BY <1>0, <3>3
      <4>2. /\ Offset(r, t, n + 1) < Offset(r, t, n + 1 + 1)
            /\ Offset(r, t, n + 1 + 1) + (Len(t) - (n + 1)) <= Offset(r, t, Len(t) + 1)
            /\ Offset(r, t, n + 1 + 1) \in Nat /\ Offset(r, t, Len(t) + 1) \in Nat
        BY <1>0, <4>1, OffsetOrder
      <4>3. Noff(r) \in {0, 1}
        BY DEF Noff
      <4> QED
        BY <1>0, <3>1, <3>3, <4>2, <4>3, SMTT(30)
    <3>4. CASE r.null
      <4>1. n + 1 \in Nat \ {0} /\ Len(t) + 1 \in Nat \ {0} /\ n + 1 <= Len(t) + 1
        BY <1>0
      <4>2. p + (Len(t) + 1 - (n + 1)) <= Offset(r, t, Len(t) + 1)
        BY <4>1, OffsetGrows
      <4>3. Noff(r) = 1 /\ Offset(r, t, Len(t) + 1) \in Nat
        BY <1>0, <3>4, OffsetBound DEF Noff
      <4> QED
        BY <1>0, <3>1, <4>2, <4>3
    <3> QED
      BY <1>2, <3>2, <3>3, <3>4
  <2>8. CASE found = {}
    BY <2>1, <2>6, <2>7, <2>8
  <2>9. CASE found # {}
    <3>1. p \in found
      BY <1>0, <2>3, <2>6, <2>7, <2>9
    <3>2. \A q \in found : q \in Int
      BY <1>0
    <3> HIDE DEF found
    <3>3. Min(found) = p
      <4> DEFINE x == CHOOSE y \in found : \A z \in found : y =< z
      <4>1. x \in found /\ \A z \in found : x =< z
        BY <2>5, <3>1
      <4> HIDE DEF x
      <4>2. x = p
        BY <1>0, <2>5, <3>1, <3>2, <4>1
      <4> QED
        BY <4>2 DEF Min, x
    <3> QED
      BY <2>1, <2>9, <3>3
  <2> QED
    BY <2>8, <2>9
<1> QED
  BY <1>1, <1>2
LEMMA TranslatedBound ==
  ASSUME NEW r, PoolSuffices(r), NEW t \in Seq(Nat), NEW s \in Seq(Nat),
         IsRestricted(r, t, s), NEW n \in 0 .. Len(t)
  PROVE  Translated(r, s, n) \in 0 .. Len(s)
<1>0. Len(t) \in Nat /\ Len(s) \in Nat
  BY LenProperties
<1>1. CASE ~HasEscapeRestrictions(r)
  <2>1. Escaped(r) = {}
    BY <1>1 DEF HasEscapeRestrictions, Escaped
  <2>2. Offset(r, t, Len(t) + 1) = Len(t)
    BY <1>0, <2>1, OffsetPlain
  <2>3. Len(s) = Offset(r, t, Len(t) + 1) + Noff(r) /\ Noff(r) \in {0, 1}
    BY DEF IsRestricted, Noff
  <2>4. Translated(r, s, n) = n
    BY <1>1 DEF Translated
  <2> QED
    BY <1>0, <2>2, <2>3, <2>4
<1>2. CASE HasEscapeRestrictions(r)
  <2> DEFINE found == {i \in 0 .. Len(s) - 1 : Cardinality(Counted(r, s, i)) = n}
  <2>1. Translated(r, s, n) = IF found = {} THEN 0 ELSE Min(found)
    BY <1>2 DEF Translated, Counted
  <2>2. \A i \in found : i \in Nat /\ i \in 0 .. Len(s)
    BY <1>0
  <2> HIDE DEF found
  <2>3. ASSUME found # {}
        PROVE  Min(found) \in found
    <3>1. \E x \in found : \A y \in found : x <= y
      <4>1. found \in SUBSET (0 .. Len(s))
        BY <2>2
      <4>2. IsFiniteSet(0 .. Len(s))
        BY <1>0, FS_Interval
      <4>3. IsFiniteSet(found)
        BY <4>1, <4>2, FS_Subset
      <4>4. found \in SUBSET Int
        BY <2>2
      <4> QED
        BY <2>3, <4>3, <4>4, LeastElement
    <3> DEFINE x == CHOOSE y \in found : \A z \in found : y =< z
    <3>2. x \in found
      BY <3>1
    <3> HIDE DEF x
    <3> QED
      BY <3>2 DEF Min, x
  <2> QED
    BY <1>0, <2>1, <2>2, <2>3
<1> QED
  BY <1>1, <1>2
-----------------------------------------------------------------------------
(* One chunk.                                                              *)

LEMMA SliceFacts ==
  ASSUME text \in Seq(Nat), NEW v, v.from \in Nat, v.to \in Nat \cup {npos}, InText(v)
  PROVE  /\ Len(text) \in Nat
         /\ Until(v) \in Nat /\ v.from \in 0 .. Len(text) /\ Until(v) \in v.from .. Len(text)
         /\ SourceSlice(v) = SubSeq(text, v.from + 1, Until(v)) /\ SourceSlice(v) \in Seq(Nat)
         /\ Whole(v) => SourceSlice(v) = text
<1>1. Len(text) \in Nat /\ \A j \in 1 .. Len(text) : text[j] \in Nat
  BY LenProperties
<1>2. Until(v) \in Nat /\ v.from \in 0 .. Len(text) /\ Until(v) \in v.from .. Len(text)
  BY <1>1 DEF InText, Until, npos
<1>3. SourceSlice(v) = SubSeq(text, v.from + 1, Until(v))
  BY DEF SourceSlice
<1>4. \A j \in v.from + 1 .. Until(v) : text[j] \in Nat
  BY <1>1, <1>2
<1>5. SubSeq(text, v.from + 1, Until(v)) \in Seq(Nat)
  BY <1>2, <1>4, SubSeqProperties
<1>6. Whole(v) => SourceSlice(v) = text
  BY <1>3, SubSeqFull DEF Whole, Until
<1> QED
  BY <1>1, <1>2, <1>3, <1>5, <1>6

\* A buffer that was loaded with a slice shows it.
LEMMA OwnedRight ==
  ASSUME text \in Seq(Nat), NEW h, NEW id \in DOMAIN h.chunk, h.chunk[id] \in Chunk,
         InText(h.chunk[id]), h.chunk[id].owner = id,
         h.chunk[id].plain = SourceSlice(h.chunk[id]),
         h.chunk[id].lo = 0,
         h.chunk[id].hi = Len(RestrictedForm(h.chunk[id].restr, h.chunk[id].plain))
  PROVE  ChunkInv(h, id)
<1> DEFINE c == h.chunk[id]
           form == RestrictedForm(c.restr, c.plain)
<1>1. c.from \in Nat /\ c.to \in Nat \cup {npos} /\ c.restr \in Asked
  BY DEF Chunk
<1>2. c.plain \in Seq(Nat) /\ PoolSuffices(c.restr)
  BY <1>1, AskedFacts, SliceFacts
<1>3. form \in Seq(Nat) /\ IsRestricted(c.restr, SourceSlice(c), form)
  BY <1>2, FormType, FormRestricted
<1>4. SubSeq(form, 1, Len(form)) = form
  <2> HIDE DEF form
  <2> QED
    BY <1>3, SubSeqFull
<1>5. View(h, id) = form
  <2>1. 0 + 1 = 1
    OBVIOUS
  <2> QED
    BY <1>4, <2>1 DEF View, Owner
<1> HIDE DEF form
<1> QED
  BY <1>3, <1>5 DEF ChunkInv, Owner

\* A chunk that refers to the bytes of a slice in the buffer of the whole text
\* shows the slice, one with other bounds shows something of that buffer.
LEMMA ReferencedRight ==
  ASSUME text \in Seq(Nat), NEW h, NEW id \in DOMAIN h.chunk, NEW root \in DOMAIN h.chunk,
         h.chunk[id] \in Chunk, h.chunk[root] \in Chunk,
         InText(h.chunk[id]), h.chunk[id].owner = root,
         h.chunk[root].owner = root, h.chunk[root].plain = text,
         h.chunk[id].lo <= h.chunk[id].hi,
         h.chunk[id].hi <= Len(RestrictedForm(h.chunk[root].restr, text)),
         Translatable(h.chunk[root].restr, h.chunk[id]) =>
           /\ h.chunk[id].lo = Offset(h.chunk[root].restr, text, h.chunk[id].from + 1)
           /\ h.chunk[id].hi = Offset(h.chunk[root].restr, text, Until(h.chunk[id]) + 1)
                                 + Noff(h.chunk[root].restr),
         h.chunk[root].restr.null => Until(h.chunk[id]) = Len(text)
  PROVE  ChunkInv(h, id)
<1> DEFINE c == h.chunk[id]
           r == h.chunk[root].restr
           form == RestrictedForm(r, text)
<1>1. c.from \in Nat /\ c.to \in Nat \cup {npos} /\ r \in Asked /\ c.lo \in Nat /\ c.hi \in Nat
  BY DEF Chunk
<1>2. PoolSuffices(r)
  BY <1>1, AskedFacts
<1>3. form \in Seq(Nat) /\ IsRestricted(r, text, form)
  BY <1>2, FormType, FormRestricted
<1>4. c.from \in 0 .. Len(text) /\ Until(c) \in c.from .. Len(text)
      /\ SourceSlice(c) = SubSeq(text, c.from + 1, Until(c))
  BY <1>1, SliceFacts
<1>5. View(h, id) = SubSeq(form, c.lo + 1, c.hi)
  BY DEF View, Owner
<1>6. View(h, id) \in Seq(Nat)
  <2>1. Len(form) \in Nat /\ \A i \in 1 .. Len(form) : form[i] \in Nat
    BY <1>3, LenProperties
  <2>2. c.lo <= c.hi /\ c.hi <= Len(form)
    OBVIOUS
  <2> HIDE DEF form, c, r
  <2>3. \A i \in c.lo + 1 .. c.hi : form[i] \in Nat
    BY <1>1, <2>1, <2>2
  <2> QED
    BY <1>1, <1>3, <1>5, <2>3, SubSeqProperties
<1>7. ASSUME Translatable(r, c)
      PROVE  IsRestricted(r, SourceSlice(c), View(h, id))
  <2>2. r.null => Until(c) = Len(text)
    OBVIOUS
  <2>1. View(h, id) = SubSeq(form, Offset(r, text, c.from + 1) + 1,
                             Offset(r, text, Until(c) + 1) + Noff(r))
    BY <1>5, <1>7
  <2> HIDE DEF form, c, r
  <2> QED
    BY <1>3, <1>4, <2>1, <2>2, SliceRestricted
<1> QED
  BY <1>6, <1>7 DEF ChunkInv, Owner

\* What a chunk shows depends on its bounds and its owner's buffer only.
LEMMA ChunkKept ==
  ASSUME NEW h, NEW g, NEW id \in DOMAIN h.chunk, ChunkInv(h, id),
         id \in DOMAIN g.chunk, g.chunk[id] = h.chunk[id],
         h.chunk[id].owner \in DOMAIN g.chunk,
         g.chunk[h.chunk[id].owner] = h.chunk[h.chunk[id].owner]
  PROVE  ChunkInv(g, id)
<1>1. Owner(g, id) = Owner(h, id)
  BY DEF Owner
<1>2. View(g, id) = View(h, id)
  BY <1>1 DEF View
<1> QED
  BY <1>1, <1>2 DEF ChunkInv
-----------------------------------------------------------------------------
(* The operations of the heap.                                             *)

LEMMA FreshFacts ==
  ASSUME NEW h, HeapType(h)
  PROVE  Fresh(h) \in Nat \ {0} /\ Fresh(h) \notin DOMAIN h.chunk
<1> DEFINE D == DOMAIN h.chunk
           n == Cardinality(D)
<1>1. IsFiniteSet(D) /\ n \in Nat
  BY FS_CardinalityType DEF HeapType
<1>2. IsFiniteSet(1 .. n + 1) /\ Cardinality(1 .. n + 1) = n + 1
  BY <1>1, FS_Interval
<1>3. ~(1 .. n + 1 \subseteq D)
  <2>1. ASSUME 1 .. n + 1 \in SUBSET D PROVE FALSE
    <3>1. Cardinality(1 .. n + 1) <= n
      BY <1>1, <2>1, FS_Subset
    <3> QED
      BY <1>1, <1>2, <3>1
  <2> QED
    BY <2>1
<1>4. \E id \in 1 .. n + 1 : id \notin D
  BY <1>3
<1> QED
  BY <1>1, <1>4 DEF Fresh

LEMMA PushedFacts ==
  ASSUME NEW h, HeapType(h), NEW id \in Nat \ {0}, id \notin DOMAIN h.chunk, NEW c \in Chunk
  PROVE  /\ HeapType(Pushed(h, id, c))
         /\ DOMAIN Pushed(h, id, c).chunk = DOMAIN h.chunk \cup {id}
         /\ Pushed(h, id, c).chunk[id] = c
         /\ \A k \in DOMAIN h.chunk : k # id /\ Pushed(h, id, c).chunk[k] = h.chunk[k]
         /\ Pushed(h, id, c).pool = h.pool \cup {id} /\ Pushed(h, id, c).left = h.left
<1> DEFINE g == Pushed(h, id, c)
           f == [k \in DOMAIN h.chunk \cup {id} |-> IF k = id THEN c ELSE h.chunk[k]]
<1>1. g = [pool |-> h.pool \cup {id}, chunk |-> f, left |-> h.left]
  <2>1. h = [pool |-> h.pool, chunk |-> h.chunk, left |-> h.left]
    BY DEF HeapType
  <2>2. g = [h EXCEPT !.pool = h.pool \cup {id}, !.chunk = f]
    BY <2>1 DEF Pushed
  <2> HIDE DEF g, f
  <2> QED
    BY <2>1, <2>2
<1>2. f \in [DOMAIN h.chunk \cup {id} -> Chunk]
  BY DEF HeapType
<1>3. /\ DOMAIN f = DOMAIN h.chunk \cup {id} /\ f[id] = c
      /\ \A k \in DOMAIN h.chunk : k # id /\ f[k] = h.chunk[k]
  OBVIOUS
<1>4. IsFiniteSet(DOMAIN h.chunk \cup {id})
  BY FS_AddElement DEF HeapType
<1> HIDE DEF f
<1>5. g.pool = h.pool \cup {id} /\ g.chunk = f /\ g.left = h.left
  BY <1>1
<1> HIDE DEF g
<1>6. HeapType(g)
  BY <1>1, <1>2, <1>3, <1>4, <1>5 DEF HeapType
<1> QED
  BY <1>3, <1>5, <1>6 DEF g

\* A slice or a buffer that is added leaves the others as they are.
LEMMA PushedInv ==
  ASSUME NEW h, HeapInv(h), NEW id \in Nat \ {0}, id \notin DOMAIN h.chunk, NEW c \in Chunk,
         ChunkInv(Pushed(h, id, c), id),
         kind = "stream" =>
           \E root \in DOMAIN h.chunk : ~Whole(c) /\ c.owner = root /\ h.chunk[root].owner = root
  PROVE  /\ HeapInv(Pushed(h, id, c))
         /\ \A k \in DOMAIN h.chunk : Owner(Pushed(h, id, c), k) = Owner(h, k)
<1> DEFINE g == Pushed(h, id, c)
<1>1. /\ HeapType(g) /\ DOMAIN g.chunk = DOMAIN h.chunk \cup {id} /\ g.chunk[id] = c
      /\ \A k \in DOMAIN h.chunk : k # id /\ g.chunk[k] = h.chunk[k]
      /\ g.pool = h.pool \cup {id} /\ g.left = h.left
  BY PushedFacts DEF HeapInv, Buffers
<1>0. ChunkInv(g, id)
  OBVIOUS
<1> HIDE DEF g
<1>2. ASSUME NEW k \in DOMAIN h.chunk
      PROVE  h.chunk[k].owner \in DOMAIN h.chunk /\ ChunkInv(g, k) /\ Owner(g, k) = Owner(h, k)
  <2>1. ChunkInv(h, k) /\ h.chunk[k].owner \in DOMAIN h.chunk
    BY DEF HeapInv, Buffers, ChunkInv
  <2> QED
    BY <1>1, <2>1, ChunkKept DEF Owner
<1>3. \A k \in DOMAIN g.chunk : ChunkInv(g, k)
  BY <1>0, <1>1, <1>2
<1>4. ASSUME kind = "stream"
      PROVE  StreamInv(g)
  <2>1. PICK root \in DOMAIN h.chunk : ~Whole(c) /\ c.owner = root /\ h.chunk[root].owner = root
    BY <1>4
  <2>2. StreamInv(h)
    BY <1>4 DEF HeapInv, Buffers
  <2>3. \A k \in DOMAIN h.chunk : h.chunk[k].owner = root
    BY <2>1, <2>2 DEF StreamInv, OneRoot
  <2>4. \A k \in DOMAIN g.chunk : g.chunk[k].owner = root
    BY <1>1, <2>1, <2>3
  <2>5. id # root
    BY <1>1
  <2>6. \A k \in DOMAIN g.chunk : Whole(g.chunk[k]) => g.chunk[k].owner = k
    BY <1>1, <2>1, <2>2 DEF StreamInv, OneRoot
  <2>7. \A k \in DOMAIN g.chunk : g.chunk[k].owner = k => IsRoot(g.chunk[k], k)
    BY <1>1, <2>1, <2>2, <2>5 DEF StreamInv, OneRoot
  <2>8. shared => root \in g.pool
    BY <1>1, <2>1, <2>2 DEF StreamInv, OneRoot
  <2> QED
    BY <1>1, <2>4, <2>6, <2>7, <2>8 DEF StreamInv, OneRoot
<1>5. HeapInv(g)
  BY <1>1, <1>3, <1>4 DEF HeapInv, Buffers, StreamInv
<1> QED
  BY <1>2, <1>5 DEF g

\* Taking a chunk out of the pool; a root stays.
LEMMA UnregisteredInv ==
  ASSUME NEW h, HeapInv(h), NEW id \in DOMAIN h.chunk
  PROVE  LET g == Unregistered(h, id)
         IN  /\ HeapInv(g) /\ g.chunk = h.chunk
             /\ kind = "stream" /\ h.chunk[id].owner # id => id \notin g.pool
<1> DEFINE g == Unregistered(h, id)
<1>0. HeapType(h) /\ (kind = "stream" => StreamInv(h))
  BY DEF HeapInv, Buffers
<1>1. CASE kind = "stream" /\ Whole(h.chunk[id])
  <2>1. g = h
    BY <1>1 DEF Unregistered, Whole
  <2>2. h.chunk[id].owner = id
    BY <1>0, <1>1 DEF StreamInv, OneRoot
  <2> QED
    BY <2>1, <2>2
<1>2. CASE ~(kind = "stream" /\ Whole(h.chunk[id]))
  <2>1. g = [h EXCEPT !.pool = @ \ {id}]
    BY <1>2 DEF Unregistered, Whole
  <2>2. h = [pool |-> h.pool, chunk |-> h.chunk, left |-> h.left]
    BY <1>0 DEF HeapType
  <2>3. g = [pool |-> h.pool \ {id}, chunk |-> h.chunk, left |-> h.left]
    BY <2>1, <2>2
  <2>4. g.pool = h.pool \ {id} /\ g.chunk = h.chunk /\ g.left = h.left
    BY <2>3
  <2> HIDE DEF g
  <2>5. HeapType(g)
    BY <1>0, <2>3, <2>4 DEF HeapType
  <2>6. \A k \in DOMAIN g.chunk : ChunkInv(g, k)
    <3> SUFFICES ASSUME NEW k \in DOMAIN h.chunk
                 PROVE  ChunkInv(g, k)
      BY <2>4
    <3>1. ChunkInv(h, k) /\ h.chunk[k].owner \in DOMAIN h.chunk
      BY DEF HeapInv, Buffers, ChunkInv
    <3> QED
      BY <2>4, <3>1, ChunkKept
  <2>7. ASSUME kind = "stream"
        PROVE  StreamInv(g)
    <3>1. StreamInv(h)
      BY <1>0, <2>7
    <3>2. \A k \in DOMAIN h.chunk : h.chunk[k].owner # id
      <4> SUFFICES ASSUME NEW k \in DOMAIN h.chunk, h.chunk[k].owner = id
                   PROVE  FALSE
        OBVIOUS
      <4>1. h.chunk[id].owner = id
        BY DEF HeapInv, Buffers, ChunkInv
      <4>2. Whole(h.chunk[id])
        BY <3>1, <4>1 DEF StreamInv, OneRoot, IsRoot
      <4> QED
        BY <1>2, <2>7, <4>2
    <3> QED
      BY <2>4, <3>1, <3>2 DEF StreamInv, OneRoot
  <2>8. HeapInv(g)
    BY <2>5, <2>6, <2>7 DEF HeapInv, Buffers, StreamInv
  <2> QED
    BY <2>4, <2>8 DEF g
<1> QED
  BY <1>1, <1>2

\* What is collected is neither in the pool nor open, nor the owner of what is.
LEMMA CollectedBuffers ==
  ASSUME NEW h, Buffers(h), NEW rd,
         \A x \in Readers : rd[x].id = 0 \/ rd[x].id \in DOMAIN h.chunk
  PROVE  LET g == Collected(h, rd)
         IN  /\ Buffers(g) /\ g.pool = h.pool /\ g.left = h.left
             /\ DOMAIN g.chunk \subseteq DOMAIN h.chunk
             /\ \A k \in DOMAIN g.chunk : g.chunk[k] = h.chunk[k] /\ Owner(g, k) = Owner(h, k)
             /\ \A x \in Readers : rd[x].id = 0 \/ rd[x].id \in DOMAIN g.chunk
             /\ \A k \in DOMAIN g.chunk :
                  k \in h.pool \/ (\E x \in Readers : rd[x].id = k) \/ h.chunk[k].owner = k
<1> DEFINE g == Collected(h, rd)
           held == h.pool \cup ({rd[x].id : x \in Readers} \ {0})
           D == held \cup {h.chunk[k].owner : k \in held}
           f == [k \in D |-> h.chunk[k]]
<1>0. HeapType(h) /\ (kind = "stream" => OneRoot(h))
  BY DEF Buffers
<1>1. held \subseteq DOMAIN h.chunk
  BY <1>0 DEF HeapType
<1>2. \A k \in DOMAIN h.chunk : /\ h.chunk[k].owner \in DOMAIN h.chunk
                                /\ h.chunk[h.chunk[k].owner].owner = h.chunk[k].owner
                                /\ ChunkInv(h, k)
  BY DEF Buffers, ChunkInv
<1> HIDE DEF held
<1>3. D \subseteq DOMAIN h.chunk
  BY <1>1, <1>2
<1>4. \A k \in D : h.chunk[k].owner \in D /\ (k \in held \/ h.chunk[k].owner = k)
  BY <1>1, <1>2
<1>5. g = [pool |-> h.pool, chunk |-> f, left |-> h.left]
  <2>1. h = [pool |-> h.pool, chunk |-> h.chunk, left |-> h.left]
    BY <1>0 DEF HeapType
  <2>2. g = [h EXCEPT !.chunk = f]
    BY DEF Collected, Restrict, held
  <2> HIDE DEF g, f
  <2> QED
    BY <2>1, <2>2
<1>6. DOMAIN f = D /\ \A k \in D : f[k] = h.chunk[k]
  OBVIOUS
<1> HIDE DEF f, D
<1>7. g.pool = h.pool /\ g.chunk = f /\ g.left = h.left
  BY <1>5
<1> HIDE DEF g
<1>8. HeapType(g)
  <2>1. f \in [D -> Chunk]
    BY <1>0, <1>3 DEF HeapType, f
  <2>2. D \in SUBSET DOMAIN h.chunk
    BY <1>3
  <2>3. IsFiniteSet(D) /\ D \subseteq Nat \ {0}
    BY <1>0, <2>2, FS_Subset DEF HeapType
  <2>4. h.pool \subseteq D
    BY DEF D, held
  <2> QED
    BY <1>5, <1>6, <1>7, <2>1, <2>3, <2>4 DEF HeapType
<1>9. \A k \in D : ChunkInv(g, k) /\ Owner(g, k) = Owner(h, k)
  <2> SUFFICES ASSUME NEW k \in D
               PROVE  ChunkInv(g, k) /\ Owner(g, k) = Owner(h, k)
    OBVIOUS
  <2>1. k \in DOMAIN h.chunk /\ ChunkInv(h, k) /\ h.chunk[k].owner \in D
    BY <1>2, <1>3, <1>4
  <2> QED
    BY <1>6, <1>7, <2>1, ChunkKept DEF Owner
<1>10. ASSUME kind = "stream"
       PROVE  OneRoot(g)
  BY <1>0, <1>3, <1>6, <1>7, <1>10 DEF OneRoot
<1>11. Buffers(g)
  BY <1>6, <1>7, <1>8, <1>9, <1>10 DEF Buffers
<1>12. \A x \in Readers : rd[x].id = 0 \/ rd[x].id \in D
  BY DEF D, held
<1>13. \A k \in D : k \in h.pool \/ (\E x \in Readers : rd[x].id = k) \/ h.chunk[k].owner = k
  BY <1>4 DEF held
<1> QED
  BY <1>3, <1>6, <1>7, <1>9, <1>11, <1>12, <1>13 DEF g

LEMMA CollectedFacts ==
  ASSUME NEW h, HeapInv(h), NEW rd,
         \A x \in Readers : rd[x].id = 0 \/ rd[x].id \in DOMAIN h.chunk
  PROVE  LET g == Collected(h, rd)
         IN  /\ HeapInv(g)
             /\ DOMAIN g.chunk \subseteq DOMAIN h.chunk
             /\ \A k \in DOMAIN g.chunk : g.chunk[k] = h.chunk[k] /\ Owner(g, k) = Owner(h, k)
             /\ \A x \in Readers : rd[x].id = 0 \/ rd[x].id \in DOMAIN g.chunk
             /\ \A k \in DOMAIN g.chunk :
                  k \in h.pool \/ (\E x \in Readers : rd[x].id = k) \/ h.chunk[k].owner = k
<1> DEFINE g == Collected(h, rd)
<1>1. /\ Buffers(g) /\ g.pool = h.pool /\ g.left = h.left
      /\ DOMAIN g.chunk \subseteq DOMAIN h.chunk
      /\ \A k \in DOMAIN g.chunk : g.chunk[k] = h.chunk[k] /\ Owner(g, k) = Owner(h, k)
      /\ \A x \in Readers : rd[x].id = 0 \/ rd[x].id \in DOMAIN g.chunk
      /\ \A k \in DOMAIN g.chunk :
           k \in h.pool \/ (\E x \in Readers : rd[x].id = k) \/ h.chunk[k].owner = k
  BY CollectedBuffers DEF HeapInv
<1> HIDE DEF g
<1>2. ASSUME kind = "stream", shared
      PROVE  /\ \A a \in DOMAIN g.chunk : g.chunk[a].owner \in g.pool
             /\ DOMAIN g.chunk = {} => g.left = text
  <2>1. /\ \A a \in DOMAIN h.chunk : h.chunk[a].owner \in h.pool
        /\ DOMAIN h.chunk = {} => h.left = text
    BY <1>2 DEF HeapInv, StreamInv
  <2>2. g.pool \subseteq DOMAIN g.chunk
    BY <1>1 DEF Buffers, HeapType
  <2>3. DOMAIN g.chunk = {} => DOMAIN h.chunk = {}
    BY <1>1, <2>1, <2>2
  <2> QED
    BY <1>1, <2>1, <2>3
<1>3. HeapInv(g)
  BY <1>1, <1>2 DEF HeapInv, StreamInv, Buffers
<1> QED
  BY <1>1, <1>3 DEF g
-----------------------------------------------------------------------------
(* Streams.                                                                *)

\* What a step may assume of the variables it looks at.
SourceType == text \in Seq(Nat) /\ kind \in {"view", "file", "stream"}
Wanted(v) ==
  /\ v.from \in Nat /\ v.to \in Nat \cup {npos} /\ v.restr \in Asked
  /\ InText(v)

LEMMA OwnedFacts ==
  ASSUME text \in Seq(Nat), NEW id \in Nat, NEW v, NEW r \in Asked,
         v.from \in Nat, v.to \in Nat \cup {npos}, InText(v)
  PROVE  LET c == Owned(id, v.from, v.to, SourceSlice(v), r)
         IN  /\ c \in Chunk
             /\ \A h : /\ id \in DOMAIN h.chunk /\ h.chunk[id] = c => ChunkInv(h, id)
<1> DEFINE c == Owned(id, v.from, v.to, SourceSlice(v), r)
           n == Len(RestrictedForm(r, SourceSlice(v)))
<1>1. SourceSlice(v) \in Seq(Nat) /\ PoolSuffices(r)
  BY SliceFacts, AskedFacts
<1>2. n \in Nat
  BY <1>1, FormType, LenProperties
<1>3. c = [from |-> v.from, to |-> v.to, owner |-> id, plain |-> SourceSlice(v),
           restr |-> r, lo |-> 0, hi |-> n]
  BY DEF Owned
<1> HIDE DEF n, c
<1>4. c \in Chunk
  BY <1>1, <1>2, <1>3 DEF Chunk
<1>5. /\ c.from = v.from /\ c.to = v.to /\ c.owner = id /\ c.plain = SourceSlice(v)
      /\ c.restr = r /\ c.lo = 0 /\ c.hi = n
  BY <1>3
<1>6. Until(c) = Until(v) /\ SourceSlice(c) = SourceSlice(v) /\ InText(c)
  BY <1>5 DEF Until, SourceSlice, InText
<1>7. ASSUME NEW h, id \in DOMAIN h.chunk, h.chunk[id] = c
      PROVE  ChunkInv(h, id)
  BY <1>4, <1>5, <1>6, <1>7, OwnedRight DEF n
<1> QED
  BY <1>4, <1>7 DEF c

\* The first access reads the stream into the root.
LEMMA ReadStream ==
  ASSUME SourceType, kind = "stream", shared, NEW h, HeapInv(h), DOMAIN h.chunk = {}, NEW r \in Asked
  PROVE  LET id == Fresh(h)
             g == [Pushed(h, id, Owned(id, 0, npos, h.left, r)) EXCEPT !.left = <<>>]
         IN  /\ HeapInv(g) /\ DOMAIN g.chunk = {id}
             /\ g.chunk[id].restr = r /\ g.pool = {id}
<1> DEFINE id == Fresh(h)
           v == [from |-> 0, to |-> npos]
           c == Owned(id, 0, npos, h.left, r)
           p == Pushed(h, id, c)
           g == [p EXCEPT !.left = <<>>]
<1>0. HeapType(h) /\ h.left = text /\ h.pool = {} /\ Len(text) \in Nat
  BY LenProperties DEF HeapInv, Buffers, StreamInv, OneRoot, HeapType, SourceType
<1>1. id \in Nat \ {0} /\ id \notin DOMAIN h.chunk
  BY <1>0, FreshFacts
<1>2. InText(v) /\ Whole(v) /\ v.from \in Nat /\ v.to \in Nat \cup {npos}
  BY <1>0 DEF InText, Until, Whole, npos
<1>3. SourceSlice(v) = text
  BY <1>2, SliceFacts DEF SourceType
<1>4. c = Owned(id, v.from, v.to, SourceSlice(v), r)
  BY <1>0, <1>3
<1>5. /\ c \in Chunk
      /\ \A e : id \in DOMAIN e.chunk /\ e.chunk[id] = c => ChunkInv(e, id)
  BY <1>1, <1>2, <1>4, OwnedFacts DEF SourceType
<1>6. IsRoot(c, id) /\ c.restr = r /\ Whole(c)
  BY <1>0 DEF Owned, IsRoot, Whole
<1> HIDE DEF c, id, v
<1>7. /\ HeapType(p) /\ DOMAIN p.chunk = {id} /\ p.chunk[id] = c /\ p.pool = {id}
  BY <1>0, <1>1, <1>5, PushedFacts
<1> HIDE DEF p
<1>8. g = [pool |-> p.pool, chunk |-> p.chunk, left |-> <<>>]
  <2>1. p = [pool |-> p.pool, chunk |-> p.chunk, left |-> p.left]
    BY <1>7 DEF HeapType
  <2> QED
    BY <2>1
<1>9. g.pool = p.pool /\ g.chunk = p.chunk /\ g.left = <<>>
  BY <1>8
<1> HIDE DEF g
<1>10. HeapType(g)
  BY <1>7, <1>8, <1>9 DEF HeapType
<1>11. StreamInv(g)
  BY <1>6, <1>7, <1>9 DEF StreamInv, OneRoot, IsRoot
<1>12. HeapInv(g)
  BY <1>5, <1>7, <1>9, <1>10, <1>11 DEF HeapInv, Buffers, StreamInv
<1> QED
  BY <1>6, <1>7, <1>9, <1>12 DEF g, p, c, id

\* The root is rewritten for other restrictions, if nothing refers to it.
LEMMA SetRoot ==
  ASSUME SourceType, kind = "stream", NEW h, HeapInv(h), NEW root \in DOMAIN h.chunk,
         h.chunk[root].owner = root, NEW r \in Asked,
         h.chunk[root].restr = r \/ DOMAIN h.chunk = {root}
  PROVE  LET g == [h EXCEPT !.chunk[root] = Owned(root, 0, npos, @.plain, r)]
         IN  /\ HeapInv(g) /\ g.pool = h.pool /\ DOMAIN g.chunk = DOMAIN h.chunk
             /\ g.chunk[root].restr = r /\ g.chunk[root].owner = root
             /\ h.chunk[root].restr = r => g = h
<1> DEFINE v == [from |-> 0, to |-> npos]
           c == Owned(root, 0, npos, text, r)
           g == [h EXCEPT !.chunk[root] = Owned(root, 0, npos, @.plain, r)]
           f == [h.chunk EXCEPT ![root] = c]
<1>0. /\ HeapType(h) /\ StreamInv(h) /\ IsRoot(h.chunk[root], root) /\ Len(text) \in Nat
      /\ root \in Nat /\ h.chunk[root] \in Chunk
  BY LenProperties DEF HeapInv, Buffers, StreamInv, OneRoot, HeapType, SourceType
<1>2. InText(v) /\ Whole(v) /\ v.from \in Nat /\ v.to \in Nat \cup {npos}
  BY <1>0 DEF InText, Until, Whole, npos
<1>3. SourceSlice(v) = text
  BY <1>2, SliceFacts DEF SourceType
<1>4. c = Owned(root, v.from, v.to, SourceSlice(v), r)
  BY <1>3
<1>5. /\ c \in Chunk
      /\ \A e : root \in DOMAIN e.chunk /\ e.chunk[root] = c => ChunkInv(e, root)
  BY <1>0, <1>2, <1>4, OwnedFacts DEF SourceType
<1>6. /\ IsRoot(c, root) /\ c.restr = r /\ Whole(c) /\ c.owner = root
      /\ c = [from |-> 0, to |-> npos, owner |-> root, plain |-> text, restr |-> r,
              lo |-> 0, hi |-> Len(RestrictedForm(r, text))]
  BY DEF Owned, IsRoot, Whole
<1>7. g = [pool |-> h.pool, chunk |-> f, left |-> h.left]
  <2>1. h = [pool |-> h.pool, chunk |-> h.chunk, left |-> h.left]
    BY <1>0 DEF HeapType
  <2>2. g = [h EXCEPT !.chunk = f]
    BY <1>0 DEF IsRoot
  <2> HIDE DEF g, f
  <2> QED
    BY <2>1, <2>2
<1>8. /\ DOMAIN f = DOMAIN h.chunk /\ f[root] = c
      /\ \A k \in DOMAIN h.chunk : k # root => f[k] = h.chunk[k]
      /\ f \in [DOMAIN h.chunk -> Chunk]
  BY <1>0, <1>5 DEF HeapType
<1>9. h.chunk[root].restr = r => h.chunk[root] = c
  BY <1>0, <1>6 DEF IsRoot, Whole, Chunk
<1>10. h.chunk[root].restr = r => g = h
  <2> HAVE h.chunk[root].restr = r
  <2>1. f = h.chunk
    BY <1>0, <1>9 DEF HeapType
  <2> QED
    BY <1>0, <1>7, <2>1 DEF HeapType
<1> HIDE DEF f, c, v
<1>11. g.pool = h.pool /\ g.chunk = f /\ g.left = h.left
  BY <1>7
<1> HIDE DEF g
<1>12. HeapInv(g)
  <2>1. CASE h.chunk[root].restr = r
    BY <1>10, <2>1
  <2>2. CASE DOMAIN h.chunk = {root}
    <3>1. HeapType(g)
      BY <1>0, <1>7, <1>8, <1>11 DEF HeapType
    <3>2. StreamInv(g)
      BY <1>0, <1>6, <1>8, <1>11, <2>2, ZenonT(40) DEF StreamInv, OneRoot
    <3>3. ChunkInv(g, root)
      BY <1>5, <1>8, <1>11
    <3> QED
      BY <1>8, <1>11, <2>2, <3>1, <3>2, <3>3 DEF HeapInv, Buffers, StreamInv
  <2> QED
    BY <2>1, <2>2
<1> QED
  BY <1>6, <1>8, <1>10, <1>11, <1>12 DEF g

\* Where a slice lies in the root.
LEMMA SliceBounds ==
  ASSUME SourceType, kind = "stream", NEW v, Wanted(v), ~Whole(v), v.to = npos \/ ~v.restr.null,
         NEW s \in Seq(Nat), IsRestricted(v.restr, text, s)
  PROVE  LET lo == Translated(v.restr, s, v.from)
             hi == IF v.to = npos THEN Len(s) ELSE Translated(v.restr, s, v.to)
         IN  /\ lo \in 0 .. Len(s) /\ hi \in 0 .. Len(s)
             /\ Translatable(v.restr, v) =>
                  /\ lo = Offset(v.restr, text, v.from + 1)
                  /\ hi = Offset(v.restr, text, Until(v) + 1) + Noff(v.restr)
                  /\ lo <= hi
<1> DEFINE lo == Translated(v.restr, s, v.from)
           hi == IF v.to = npos THEN Len(s) ELSE Translated(v.restr, s, v.to)
<1>1. /\ v.from \in Nat /\ v.to \in Nat \cup {npos} /\ InText(v)
      /\ v.restr \in Asked /\ PoolSuffices(v.restr) /\ text \in Seq(Nat) /\ npos \notin Nat
  BY AskedFacts DEF Wanted, SourceType, npos
<1>2. /\ Len(text) \in Nat /\ v.from \in 0 .. Len(text) /\ Until(v) \in v.from .. Len(text)
      /\ Len(s) \in Nat
  BY <1>1, SliceFacts, LenProperties
<1>3. v.to # npos => Until(v) = v.to /\ v.to \in 0 .. Len(text) /\ hi = Translated(v.restr, s, v.to)
  BY <1>1, <1>2 DEF Until
<1>4. lo \in 0 .. Len(s)
  BY <1>1, <1>2, TranslatedBound
<1>5. hi \in 0 .. Len(s)
  <2>1. CASE v.to = npos
    <3>1. hi = Len(s)
      BY <2>1
    <3> QED
      BY <1>2, <3>1
  <2>2. CASE v.to # npos
    BY <1>1, <1>3, <2>2, TranslatedBound
  <2> QED
    BY <2>1, <2>2
<1>6. ASSUME Translatable(v.restr, v)
      PROVE  /\ lo = Offset(v.restr, text, v.from + 1)
             /\ hi = Offset(v.restr, text, Until(v) + 1) + Noff(v.restr)
             /\ lo <= hi
  <2>1. lo = Offset(v.restr, text, v.from + 1)
    <3>1. HasEscapeRestrictions(v.restr) =>
            v.from = 0 \/ /\ \A j \in 1 .. v.from : text[j] # EscapeByte(v.restr)
                          /\ v.from < Len(text) \/ v.restr.null
      BY <1>6 DEF Translatable
    <3> QED
      BY <1>1, <1>2, <3>1, TranslatedRight
  <2>2. hi = Offset(v.restr, text, Until(v) + 1) + Noff(v.restr)
    <3>1. CASE v.to = npos
      <4>1. hi = Len(s) /\ Until(v) = Len(text)
        BY <3>1 DEF Until
      <4> QED
        BY <4>1 DEF IsRestricted
    <3>2. CASE v.to # npos
      <4>1. HasEscapeRestrictions(v.restr) =>
              v.to = 0 \/ /\ \A j \in 1 .. v.to : text[j] # EscapeByte(v.restr)
                          /\ v.to < Len(text) \/ v.restr.null
        BY <1>6, <3>2 DEF Translatable
      <4>2. Noff(v.restr) = 0
        BY <3>2 DEF Noff
      <4>3. Translated(v.restr, s, v.to) = Offset(v.restr, text, v.to + 1)
        BY <1>1, <1>2, <1>3, <3>2, <4>1, TranslatedRight
      <4>4. Offset(v.restr, text, v.to + 1) \in Nat
        BY <1>3, <3>2, OffsetBound
      <4>5. hi = Offset(v.restr, text, v.to + 1)
        BY <1>3, <3>2, <4>3
      <4> HIDE DEF hi
      <4> QED
        BY <1>3, <3>2, <4>2, <4>4, <4>5
    <3> QED
      BY <3>1, <3>2
  <2>3. Offset(v.restr, text, v.from + 1) <= Offset(v.restr, text, Until(v) + 1) + Noff(v.restr)
    <3>1. /\ v.from + 1 \in Nat \ {0} /\ Until(v) + 1 \in Nat \ {0} /\ v.from + 1 <= Until(v) + 1
          /\ v.from \in Nat /\ Until(v) \in Nat
      BY <1>2
    <3>2. Offset(v.restr, text, v.from + 1) + (Until(v) + 1 - (v.from + 1))
            <= Offset(v.restr, text, Until(v) + 1)
      BY <3>1, OffsetGrows
    <3>3. /\ Noff(v.restr) \in {0, 1} /\ Offset(v.restr, text, v.from + 1) \in Nat
          /\ Offset(v.restr, text, Until(v) + 1) \in Nat
      BY <3>1, OffsetBound DEF Noff
    <3> QED
      BY <3>1, <3>2, <3>3, SMTT(30)
  <2> QED
    BY <2>1, <2>2, <2>3
<1> QED
  BY <1>4, <1>5, <1>6

\* A slice of the root, if its bounds are in order.
LEMMA CreateRefRight ==
  ASSUME SourceType, kind = "stream", NEW h, HeapInv(h), NEW root \in DOMAIN h.chunk,
         h.chunk[root].owner = root, NEW v, Wanted(v), h.chunk[root].restr = v.restr,
         ~Whole(v), v.to = npos \/ ~v.restr.null
  PROVE  LET g == CreateRef(h, root, v)
             id == Fresh(h)
             fine == ~(g.chunk[id].lo > g.chunk[id].hi)
         IN  /\ Translatable(v.restr, v) => fine
             /\ fine =>
                  /\ HeapInv(g) /\ Serves(g, id, v) /\ DOMAIN g.chunk = DOMAIN h.chunk \cup {id}
                  /\ \A k \in DOMAIN h.chunk :
                       g.chunk[k] = h.chunk[k] /\ Owner(g, k) = Owner(h, k)
<1> DEFINE s == View(h, root)
           id == Fresh(h)
           lo == Translated(v.restr, s, v.from)
           hi == IF v.to = npos THEN Len(s) ELSE Translated(v.restr, s, v.to)
           c == [from |-> v.from, to |-> v.to, owner |-> root, plain |-> <<>>,
                 restr |-> NoRestriction, lo |-> lo, hi |-> hi]
           g == Pushed(h, id, c)
<1>1. /\ HeapType(h) /\ IsRoot(h.chunk[root], root) /\ h.chunk[root] \in Chunk /\ root \in Nat
  BY DEF HeapInv, Buffers, StreamInv, OneRoot, HeapType
<1>2. /\ v.from \in Nat /\ v.to \in Nat \cup {npos} /\ InText(v)
      /\ v.restr \in Asked /\ PoolSuffices(v.restr) /\ text \in Seq(Nat) /\ npos \notin Nat
  BY AskedFacts DEF Wanted, SourceType, npos
<1>4. /\ s \in Seq(Nat) /\ IsRestricted(v.restr, text, s) /\ s = RestrictedForm(v.restr, text)
      /\ Len(s) \in Nat
  <2> DEFINE form == RestrictedForm(v.restr, text)
  <2>1. form \in Seq(Nat) /\ IsRestricted(v.restr, text, form)
    BY <1>2, FormType, FormRestricted
  <2>2. s = SubSeq(form, 1, Len(form))
    <3>1. 0 + 1 = 1
      OBVIOUS
    <3> QED
      BY <1>1, <3>1 DEF View, Owner, IsRoot
  <2> HIDE DEF form, s
  <2>3. s = form
    BY <2>1, <2>2, SubSeqFull
  <2> QED
    BY <2>1, <2>3, LenProperties DEF form
<1> HIDE DEF s
<1>5. /\ lo \in 0 .. Len(s) /\ hi \in 0 .. Len(s)
      /\ Translatable(v.restr, v) =>
           /\ lo = Offset(v.restr, text, v.from + 1)
           /\ hi = Offset(v.restr, text, Until(v) + 1) + Noff(v.restr)
           /\ lo <= hi
  BY <1>4, SliceBounds
<1> HIDE DEF lo, hi
<1>7. lo \in Nat /\ hi \in Nat /\ hi <= Len(s)
  BY <1>4, <1>5
<1>8. c \in Chunk
  <2>1. <<>> \in Seq(Nat) /\ NoRestriction \in Asked
    BY AskedFacts, EmptySeq
  <2> QED
    BY <1>1, <1>2, <1>7, <2>1 DEF Chunk
<1>9. /\ c.from = v.from /\ c.to = v.to /\ c.owner = root /\ c.lo = lo /\ c.hi = hi
      /\ Until(c) = Until(v) /\ InText(c) /\ ~Whole(c)
  BY <1>2 DEF Until, InText, Whole
<1> HIDE DEF c
<1>10. id \in Nat \ {0} /\ id \notin DOMAIN h.chunk
  BY <1>1, FreshFacts
<1> HIDE DEF id
<1>11. /\ HeapType(g) /\ DOMAIN g.chunk = DOMAIN h.chunk \cup {id} /\ g.chunk[id] = c
       /\ \A k \in DOMAIN h.chunk : k # id /\ g.chunk[k] = h.chunk[k]
  BY <1>1, <1>8, <1>10, PushedFacts
<1> HIDE DEF g
<1>15. Translatable(v.restr, v) => ~(g.chunk[id].lo > g.chunk[id].hi)
  BY <1>5, <1>7, <1>9, <1>11
<1> SUFFICES ASSUME ~(g.chunk[id].lo > g.chunk[id].hi)
             PROVE  /\ HeapInv(g) /\ Serves(g, id, v)
                    /\ DOMAIN g.chunk = DOMAIN h.chunk \cup {id}
                    /\ \A k \in DOMAIN h.chunk :
                         g.chunk[k] = h.chunk[k] /\ Owner(g, k) = Owner(h, k)
  BY <1>15 DEF g, c, id, lo, hi, s, CreateRef
<1>12. ChunkInv(g, id)
  <2>1. /\ h.chunk[root].owner = root /\ h.chunk[root].plain = text
        /\ h.chunk[root].restr = v.restr /\ g.chunk[root] = h.chunk[root]
        /\ root \in DOMAIN g.chunk /\ id \in DOMAIN g.chunk
    BY <1>1, <1>11 DEF IsRoot
  <2>2. v.restr.null => Until(v) = Len(text)
    BY DEF Until
  <2>3. c.lo <= c.hi /\ c.hi <= Len(RestrictedForm(v.restr, text))
    BY <1>4, <1>7, <1>9, <1>11
  <2>4. Translatable(v.restr, c) =>
          /\ c.lo = Offset(v.restr, text, c.from + 1)
          /\ c.hi = Offset(v.restr, text, Until(c) + 1) + Noff(v.restr)
    <3>1. Translatable(v.restr, c) => Translatable(v.restr, v)
      BY <1>9 DEF Translatable, Whole
    <3> QED
      BY <1>5, <1>9, <3>1
  <2> QED
    BY <1>1, <1>2, <1>8, <1>9, <1>11, <2>1, <2>2, <2>3, <2>4, ReferencedRight
<1>13. HeapInv(g) /\ \A k \in DOMAIN h.chunk : Owner(g, k) = Owner(h, k)
  BY <1>8, <1>9, <1>10, <1>12, PushedInv DEF g
<1>14. Serves(g, id, v)
  BY <1>9, <1>11 DEF Serves, Owner
<1> QED
  BY <1>11, <1>13, <1>14
-----------------------------------------------------------------------------
(* find_or_construct.                                                      *)

HeapReaders(h) == HeapInv(h) /\ ReaderInv(h, reader) /\ HeldInv(h, reader)

\* What find_or_construct may answer.
Answer(f, v) ==
  /\ f.failed = TRUE =>
       /\ f.why \in {"copy", "slice", "bounds"}
       /\ f.why = "copy" =>
            \E x \in Readers : reader[x] # Closed /\ inputs[reader[x].of].restr # v.restr
       /\ f.why = "bounds" => ~Translatable(v.restr, v)
  /\ f.failed # TRUE =>
       /\ HeapInv(f.heap) /\ Serves(f.heap, f.id, v) /\ ReaderInv(f.heap, reader)
       /\ kind = "stream" =>
            \A k \in DOMAIN f.heap.chunk :
              f.heap.chunk[k].owner = k \/ k = f.id \/ \E x \in Readers : reader[x].id = k

\* Readers are served as before when their chunks and buffers stay.
LEMMA ReadersKept ==
  ASSUME NEW h, NEW g, ReaderInv(h, reader), DOMAIN h.chunk \subseteq DOMAIN g.chunk,
         \A k \in DOMAIN h.chunk : g.chunk[k] = h.chunk[k] /\ Owner(g, k) = Owner(h, k)
  PROVE  ReaderInv(g, reader)
BY DEF ReaderInv, ServedBy, Serves

LEMMA StreamRead ==
  ASSUME SourceType, kind = "stream", shared, NEW h, HeapReaders(h), NEW r \in Asked
  PROVE  LET read == IF Roots(h) # {} THEN h
                     ELSE [Pushed(h, Fresh(h), Owned(Fresh(h), 0, npos, h.left, r))
                             EXCEPT !.left = <<>>]
         IN  /\ HeapReaders(read)
             /\ \E root \in DOMAIN read.chunk :
                  Roots(read) = {root} /\ read.chunk[root].owner = root
<1>0. HeapInv(h) /\ HeapType(h) /\ StreamInv(h)
  BY DEF HeapReaders, HeapInv, Buffers
<1>1. ASSUME NEW g, HeapInv(g), NEW id \in DOMAIN g.chunk
      PROVE  /\ g.chunk[id].owner \in DOMAIN g.chunk
             /\ g.chunk[g.chunk[id].owner].owner = g.chunk[id].owner
             /\ Roots(g) = {g.chunk[id].owner}
  <2> DEFINE root == g.chunk[id].owner
  <2>1. StreamInv(g) /\ ChunkInv(g, id) /\ g.pool \subseteq DOMAIN g.chunk
    BY <1>1 DEF HeapInv, Buffers, HeapType
  <2>2. root \in DOMAIN g.chunk /\ g.chunk[root].owner = root /\ root \in g.pool
    BY <2>1 DEF StreamInv, OneRoot, ChunkInv
  <2>3. IsRoot(g.chunk[root], root)
    BY <2>1, <2>2 DEF StreamInv, OneRoot
  <2>4. \A k \in DOMAIN g.chunk : Whole(g.chunk[k]) => k = root
    BY <2>1, <2>2 DEF StreamInv, OneRoot
  <2> HIDE DEF root
  <2>5. Roots(g) = {root}
    BY <2>1, <2>2, <2>3, <2>4 DEF Roots, IsRoot, Whole
  <2> QED
    BY <2>2, <2>5 DEF root
<1>2. CASE Roots(h) # {}
  <2>1. PICK id \in DOMAIN h.chunk : TRUE
    BY <1>0, <1>2 DEF Roots, HeapType
  <2> QED
    BY <1>0, <1>1, <1>2, <2>1
<1>3. CASE Roots(h) = {}
  <2> DEFINE id == Fresh(h)
             g == [Pushed(h, id, Owned(id, 0, npos, h.left, r)) EXCEPT !.left = <<>>]
  <2>1. DOMAIN h.chunk = {}
    <3> SUFFICES ASSUME NEW k \in DOMAIN h.chunk
                 PROVE  FALSE
      OBVIOUS
    <3>1. Roots(h) = {h.chunk[k].owner}
      BY <1>0, <1>1
    <3> QED
      BY <1>3, <3>1
  <2>2. HeapInv(g) /\ DOMAIN g.chunk = {id}
    BY <1>0, <2>1, ReadStream
  <2> HIDE DEF g, id
  <2>3. g.chunk[id].owner = id
    BY <1>1, <2>2
  <2>4. ReaderInv(g, reader)
    BY <2>1 DEF HeapReaders, ReaderInv, ServedBy, Serves
  <2>5. HeldInv(g, reader)
    BY <2>2, <2>3 DEF HeldInv
  <2> QED
    BY <1>1, <1>3, <2>2, <2>3, <2>4, <2>5 DEF HeapReaders, g, id
<1> QED
  BY <1>2, <1>3

\* The CHECK of create_stream: who refers to the root is a reader with the
\* restrictions the root has now.
LEMMA RefusedRight ==
  ASSUME kind = "stream", shared, NEW h, HeapReaders(h), NEW root \in DOMAIN h.chunk,
         h.chunk[root].owner = root, ~Unique(h, root), NEW r, h.chunk[root].restr # r
  PROVE  \E x \in Readers : reader[x] # Closed /\ inputs[reader[x].of].restr # r
<1>0. HeapType(h) /\ HeapInv(h) /\ StreamInv(h) /\ ReaderInv(h, reader) /\ HeldInv(h, reader)
  BY DEF HeapReaders, HeapInv, Buffers
<1>1. \E k \in DOMAIN h.chunk, x \in Readers : reader[x].id = k
  <2>1. CASE \E x \in Readers : reader[x].id = root
    BY <2>1
  <2>2. CASE \E k \in DOMAIN h.chunk \ {root} : h.chunk[k].owner = root
    BY <1>0, <2>2 DEF HeldInv
  <2> QED
    BY <2>1, <2>2 DEF Unique
<1>2. PICK k \in DOMAIN h.chunk, x \in Readers : reader[x].id = k
  BY <1>1
<1>3. reader[x] # Closed
  <2>1. k # 0
    BY <1>0 DEF HeapType
  <2> QED
    BY <1>2, <2>1 DEF Closed
<1>4. Owner(h, k).restr = inputs[reader[x].of].restr
  BY <1>0, <1>2, <1>3 DEF ReaderInv, ServedBy, Serves
<1>5. Owner(h, k) = h.chunk[root]
  BY <1>0 DEF Owner, StreamInv, OneRoot
<1> QED
  BY <1>3, <1>4, <1>5

LEMMA FoundRight ==
  ASSUME NEW h, NEW id, NEW v, HeapInv(h), Serves(h, id, v), ReaderInv(h, reader),
         kind = "stream" =>
           \A k \in DOMAIN h.chunk :
             h.chunk[k].owner = k \/ k = id \/ \E x \in Readers : reader[x].id = k
  PROVE  Answer(Found(h, id), v)
BY DEF Answer, Found

LEMMA CreateStreamRight ==
  ASSUME SourceType, kind = "stream", shared, NEW h, HeapReaders(h), NEW v, Wanted(v)
  PROVE  Answer(CreateStream(h, v), v)
<1> DEFINE read == IF Roots(h) # {} THEN h
                   ELSE [Pushed(h, Fresh(h), Owned(Fresh(h), 0, npos, h.left, v.restr))
                           EXCEPT !.left = <<>>]
           root == CHOOSE id \in Roots(read) : TRUE
           set == [read EXCEPT !.chunk[root] = Owned(root, 0, npos, @.plain, v.restr)]
           made == CreateRef(set, root, v)
           copy == read.chunk[root].restr # v.restr /\ ~Unique(read, root)
           slice == ~Whole(v) /\ v.to # npos /\ v.restr.null
           f == CreateStream(h, v)
<1>0. /\ copy => f = Refused("copy")
      /\ ~copy /\ slice => f = Refused("slice")
      /\ ~copy /\ Whole(v) => f = Found(set, root)
      /\ ~copy /\ ~slice /\ ~Whole(v) =>
           f = IF made.chunk[Fresh(set)].lo > made.chunk[Fresh(set)].hi
               THEN Refused("bounds") ELSE Found(made, Fresh(set))
  BY DEF CreateStream
<1>1. v.restr \in Asked
  BY DEF Wanted
<1>2. /\ HeapReaders(read)
      /\ \E id \in DOMAIN read.chunk : Roots(read) = {id} /\ read.chunk[id].owner = id
  BY <1>1, StreamRead
<1> HIDE DEF read
<1>3. root \in DOMAIN read.chunk /\ read.chunk[root].owner = root /\ Roots(read) = {root}
  BY <1>2
<1> HIDE DEF root
<1>4. HeapInv(read) /\ HeapType(read) /\ StreamInv(read)
  BY <1>2 DEF HeapReaders, HeapInv, Buffers
<1>5. CASE copy
  <2>1. \E x \in Readers : reader[x] # Closed /\ inputs[reader[x].of].restr # v.restr
    BY <1>2, <1>3, <1>5, RefusedRight
  <2>2. f = Refused("copy")
    BY <1>0, <1>5
  <2> QED
    BY <2>1, <2>2 DEF Answer, Refused
<1>6. CASE ~copy /\ slice
  <2>1. f = Refused("slice")
    BY <1>0, <1>6
  <2> QED
    BY <2>1 DEF Answer, Refused
<1>7. CASE ~copy /\ ~slice
  <2>1. read.chunk[root].restr = v.restr \/ Unique(read, root)
    BY <1>7
  <2>2. ASSUME Unique(read, root)
        PROVE  DOMAIN read.chunk = {root}
    BY <1>3, <1>4, <2>2 DEF Unique, StreamInv, OneRoot
  <2>3. /\ HeapInv(set) /\ DOMAIN set.chunk = DOMAIN read.chunk
        /\ set.chunk[root].restr = v.restr /\ set.chunk[root].owner = root
        /\ read.chunk[root].restr = v.restr => set = read
    BY <1>1, <1>3, <1>4, <2>1, <2>2, SetRoot
  <2> HIDE DEF set
  <2>4. HeapReaders(set)
    <3>1. CASE read.chunk[root].restr = v.restr
      BY <1>2, <2>3, <3>1
    <3>2. CASE Unique(read, root)
      <4>1. \A x \in Readers : reader[x] = Closed
        BY <1>2, <2>2, <3>2 DEF HeapReaders, ReaderInv, ServedBy, Serves, Unique
      <4>2. ReaderInv(set, reader)
        BY <1>2, <4>1 DEF HeapReaders, ReaderInv, ServedBy
      <4>3. HeldInv(set, reader)
        BY <2>2, <2>3, <3>2 DEF HeldInv
      <4> QED
        BY <2>3, <4>2, <4>3 DEF HeapReaders
    <3> QED
      BY <2>1, <3>1, <3>2
  <2>5. StreamInv(set) /\ IsRoot(set.chunk[root], root)
    BY <1>3, <2>3 DEF HeapInv, Buffers, StreamInv, OneRoot
  <2>6. CASE Whole(v)
    <3>1. f = Found(set, root)
      BY <1>0, <1>7, <2>6
    <3>2. Serves(set, root, v)
      BY <1>3, <2>3, <2>5, <2>6 DEF Serves, Owner, IsRoot, Whole
    <3>3. Answer(Found(set, root), v)
      BY <2>4, <3>2, FoundRight DEF HeapReaders, HeldInv
    <3> QED
      BY <3>1, <3>3
  <2>7. CASE ~Whole(v)
    <3> DEFINE g == made
               id == Fresh(set)
               fine == ~(g.chunk[id].lo > g.chunk[id].hi)
    <3>1. f = IF fine THEN Found(g, id) ELSE Refused("bounds")
      BY <1>0, <1>7, <2>7
    <3>3. v.to = npos \/ ~v.restr.null
      BY <1>7, <2>7
    <3>4. /\ Translatable(v.restr, v) => fine
          /\ fine =>
               /\ HeapInv(g) /\ Serves(g, id, v) /\ DOMAIN g.chunk = DOMAIN set.chunk \cup {id}
               /\ \A k \in DOMAIN set.chunk :
                    g.chunk[k] = set.chunk[k] /\ Owner(g, k) = Owner(set, k)
      BY <1>3, <2>3, <2>7, <3>3, CreateRefRight
    <3> HIDE DEF made, id, fine
    <3>5. CASE fine
      <4>1. ReaderInv(g, reader)
        BY <2>4, <3>4, <3>5, ReadersKept DEF HeapReaders
      <4>2. \A k \in DOMAIN g.chunk :
              g.chunk[k].owner = k \/ k = id \/ \E x \in Readers : reader[x].id = k
        BY <2>4, <3>4, <3>5 DEF HeapReaders, HeldInv
      <4>3. Answer(Found(g, id), v)
        BY <3>4, <3>5, <4>1, <4>2, FoundRight
      <4> QED
        BY <3>1, <3>5, <4>3
    <3>6. CASE ~fine
      <4>1. f = Refused("bounds") /\ ~Translatable(v.restr, v)
        BY <3>1, <3>4, <3>6
      <4> QED
        BY <4>1 DEF Answer, Refused
    <3> QED
      BY <3>5, <3>6
  <2> QED
    BY <2>6, <2>7
<1> QED
  BY <1>5, <1>6, <1>7

LEMMA CreateBufferRight ==
  ASSUME SourceType, kind # "stream", shared, NEW h, HeapReaders(h), NEW v, Wanted(v)
  PROVE  Answer(CreateBuffer(h, v), v)
<1> DEFINE id == Fresh(h)
           c == Owned(id, v.from, v.to, SourceSlice(v), v.restr)
           g == Pushed(h, id, c)
<1>0. /\ HeapInv(h) /\ HeapType(h) /\ ReaderInv(h, reader)
      /\ v.from \in Nat /\ v.to \in Nat \cup {npos} /\ v.restr \in Asked /\ InText(v)
  BY DEF HeapReaders, HeapInv, Buffers, Wanted
<1>1. id \in Nat \ {0} /\ id \notin DOMAIN h.chunk
  BY <1>0, FreshFacts
<1>2. CreateBuffer(h, v) = Found(g, id)
  BY DEF CreateBuffer
<1>3. /\ c.from = v.from /\ c.to = v.to /\ c.restr = v.restr /\ c.owner = id
  BY DEF Owned
<1> HIDE DEF id
<1>4. /\ c \in Chunk
      /\ \A e : id \in DOMAIN e.chunk /\ e.chunk[id] = c => ChunkInv(e, id)
  BY <1>0, <1>1, OwnedFacts DEF SourceType
<1> HIDE DEF c
<1>5. /\ DOMAIN g.chunk = DOMAIN h.chunk \cup {id} /\ g.chunk[id] = c
      /\ \A k \in DOMAIN h.chunk : g.chunk[k] = h.chunk[k]
  BY <1>0, <1>1, <1>4, PushedFacts
<1>6. ChunkInv(g, id)
  BY <1>4, <1>5
<1>7. HeapInv(g) /\ \A k \in DOMAIN h.chunk : Owner(g, k) = Owner(h, k)
  BY <1>0, <1>1, <1>4, <1>6, PushedInv
<1> HIDE DEF g
<1>8. ReaderInv(g, reader)
  BY <1>0, <1>5, <1>7, ReadersKept
<1>9. Serves(g, id, v)
  BY <1>3, <1>5 DEF Serves, Owner
<1>10. Answer(Found(g, id), v)
  BY <1>7, <1>8, <1>9, FoundRight
<1> QED
  BY <1>2, <1>10

LEMMA FindRight ==
  ASSUME SourceType, shared, NEW h, HeapReaders(h), NEW v, Wanted(v)
  PROVE  Answer(FindOrConstruct(h, v), v)
<1>1. CASE Matching(h, v) # {}
  <2> DEFINE id == CHOOSE k \in Matching(h, v) : TRUE
  <2>1. id \in Matching(h, v)
    BY <1>1
  <2>2. FindOrConstruct(h, v) = Found(h, id)
    BY <1>1 DEF FindOrConstruct
  <2> HIDE DEF id
  <2>3. Serves(h, id, v)
    BY <2>1 DEF Matching, Serves, HeapReaders, HeapInv, Buffers, HeapType
  <2>4. Answer(Found(h, id), v)
    BY <2>3, FoundRight DEF HeapReaders, HeldInv
  <2> QED
    BY <2>2, <2>4
<1>2. CASE Matching(h, v) = {} /\ kind = "stream"
  BY <1>2, CreateStreamRight DEF FindOrConstruct
<1>3. CASE Matching(h, v) = {} /\ kind # "stream"
  BY <1>3, CreateBufferRight DEF FindOrConstruct
<1> QED
  BY <1>1, <1>2, <1>3
-----------------------------------------------------------------------------
(* The steps.                                                              *)

\* What the invariant says of the heap in the state after a step.
LEMMA HeapInvAfter ==
  ASSUME NEW g, Buffers(g), heap' = g, text' = text, kind' = kind,
         kind = "stream" /\ shared' => StreamInv(g) /\ shared
  PROVE  HeapInv(heap)'
<1>1. Buffers(heap)'
  BY SMTT(30) DEF Buffers, HeapType, ChunkInv, OneRoot, IsRoot, InText, Until, Whole, SourceSlice,
         View, Owner, Translatable
<1>2. ASSUME kind' = "stream"
      PROVE  StreamInv(heap)'
  <2>1. OneRoot(heap)'
    BY <1>1, <1>2 DEF Buffers
  <2>2. ASSUME shared'
        PROVE  /\ \A a \in DOMAIN heap'.chunk : heap'.chunk[a].owner \in heap'.pool
               /\ DOMAIN heap'.chunk = {} => heap'.left = text'
    BY <1>2, <2>2 DEF StreamInv
  <2> QED
    BY <2>1, <2>2 DEF StreamInv
<1> QED
  BY <1>1, <1>2 DEF HeapInv

LEMMA InitInv == Init => InputsInv
<1> SUFFICES ASSUME Init PROVE InputsInv
  OBVIOUS
<1>1. text \in Seq(Nat) /\ Len(text) \in Nat
  BY InputsAssumption, LenProperties DEF Init
<1>2. inputs \in Seq(Input) /\ \A k \in DOMAIN inputs : InputInv(inputs[k])
  <2> DEFINE v == [from |-> 0, to |-> npos, restr |-> NoRestriction, size |-> npos]
  <2>1. v \in Input
    BY AskedFacts DEF Input
  <2>2. InputInv(v)
    BY <1>1 DEF InputInv, InText, Until
  <2>3. inputs = <<v>>
    BY DEF Init, Source
  <2> HIDE DEF v
  <2> QED
    BY <2>1, <2>2, <2>3
<1>3. heap = [pool |-> {}, chunk |-> <<>>, left |-> text]
  BY DEF Init
<1>4. heap.pool = {} /\ heap.chunk = <<>> /\ heap.left = text /\ DOMAIN heap.chunk = {}
  BY <1>3
<1>5. HeapType(heap)
  <2>1. heap.chunk \in [DOMAIN heap.chunk -> Chunk]
    BY <1>4
  <2> QED
    BY <1>3, <1>4, <2>1, FS_EmptySet DEF HeapType
<1>6. HeapInv(heap)
  BY <1>4, <1>5 DEF HeapInv, Buffers, StreamInv, OneRoot
<1>7. ReaderInv(heap, reader) /\ HeldInv(heap, reader)
  BY <1>4 DEF Init, ReaderInv, ServedBy, HeldInv, Closed
<1> QED
  BY <1>1, <1>2, <1>6, <1>7 DEF Init, InputsInv, RefusedOnlyWhenInUse

\* An input that is added changes nothing for the others.
LEMMA InputAdded ==
  ASSUME InputsInv, Running, NEW v \in Input, InputInv(v), inputs' = Append(inputs, v),
         UNCHANGED <<kind, text, shared, heap, reader, outcome>>
  PROVE  InputsInv'
<1>1. /\ inputs' \in Seq(Input) /\ DOMAIN inputs \subseteq DOMAIN inputs'
      /\ \A k \in DOMAIN inputs : inputs'[k] = inputs[k]
      /\ \A k \in DOMAIN inputs' : k \in DOMAIN inputs \/ inputs'[k] = v
  <2>1. inputs \in Seq(Input)
    BY DEF InputsInv
  <2> QED
    BY <2>1, AppendProperties, LenProperties
<1>2. \A k \in DOMAIN inputs' : InputInv(inputs'[k])
  BY <1>1 DEF InputsInv
<1>3. \A k \in DOMAIN inputs' : InputInv(inputs[k])'
  BY <1>2 DEF InputInv, InText, Until, SourceSlice, Translatable, Whole
<1>4. HeapInv(heap)'
  <2>1. Buffers(heap) /\ (kind = "stream" => StreamInv(heap))
    BY DEF InputsInv, HeapInv
  <2> QED
    BY <2>1, HeapInvAfter
<1>5. ReaderInv(heap, reader)'
  BY <1>1 DEF InputsInv, ReaderInv, ServedBy, Serves, Owner
<1>6. HeldInv(heap, reader)'
  BY DEF InputsInv, HeldInv
<1>7. RefusedOnlyWhenInUse'
  BY DEF Running, RefusedOnlyWhenInUse
<1> QED
  BY <1>1, <1>3, <1>4, <1>5, <1>6, <1>7 DEF InputsInv

LEMMA SliceInputInv ==
  ASSUME InputsInv, NEW i \in DOMAIN inputs, NEW a \in 0 .. Len(text),
         NEW b \in {npos} \cup 0 .. Len(text), SliceInput(i, a, b)
  PROVE  InputsInv'
<1> DEFINE v == inputs[i]
           w == [from |-> v.from + a, to |-> IF b = npos THEN npos ELSE v.from + b,
                 restr |-> v.restr, size |-> npos]
<1>1. /\ v \in Input /\ InputInv(v) /\ Len(text) \in Nat
  BY LenProperties DEF InputsInv
<1>2. /\ v.from \in Nat /\ v.restr \in Asked /\ Until(v) <= Len(text) /\ Until(v) \in Int
      /\ v.from + a <= Until(v)
      /\ b # npos => a <= b /\ v.from + b <= Until(v)
  BY <1>1 DEF Input, InputInv, InText, Until, SliceInput, npos
<1>3. w \in Input
  <2>1. v.from + a \in Nat /\ (IF b = npos THEN npos ELSE v.from + b) \in Nat \cup {npos}
    BY <1>1, <1>2
  <2> QED
    BY <1>2, <2>1 DEF Input
<1>4. InputInv(w)
  <2>1. w.from = v.from + a /\ w.to = (IF b = npos THEN npos ELSE v.from + b) /\ w.size = npos
    OBVIOUS
  <2>2. Until(w) = IF b = npos THEN Len(text) ELSE v.from + b
    BY <1>1, <1>2, <2>1 DEF Until, npos
  <2> HIDE DEF w, v
  <2>3. InText(w)
    BY <1>1, <1>2, <2>1, <2>2 DEF InText
  <2> QED
    BY <2>1, <2>3 DEF InputInv
<1>5. /\ Running /\ inputs' = Append(inputs, w)
      /\ UNCHANGED <<kind, text, shared, heap, reader, outcome>>
  BY DEF SliceInput
<1> HIDE DEF w
<1> QED
  BY <1>3, <1>4, <1>5, InputAdded

LEMMA RestrictInputInv ==
  ASSUME InputsInv, NEW i \in DOMAIN inputs, NEW r \in Restrictions, RestrictInput(i, r)
  PROVE  InputsInv'
<1> DEFINE v == inputs[i]
           w == [inputs[i] EXCEPT !.restr = MergeRestrictions(@, r), !.size = npos]
<1>1. v \in Input /\ InputInv(v)
  BY DEF InputsInv
<1>2. MergeRestrictions(v.restr, r) \in Asked
  BY <1>1, AskedFacts DEF Input
<1>3. /\ w \in Input /\ w.from = v.from /\ w.to = v.to /\ w.size = npos
  BY <1>1, <1>2 DEF Input
<1> HIDE DEF w
<1>4. InputInv(w)
  BY <1>1, <1>3 DEF InputInv, InText, Until
<1>5. /\ Running /\ inputs' = Append(inputs, w)
      /\ UNCHANGED <<kind, text, shared, heap, reader, outcome>>
  BY DEF RestrictInput, w
<1> QED
  BY <1>3, <1>4, <1>5, InputAdded

\* The heap after find_or_construct, for the reader or the size it is for.
Ready(h, id, v) ==
  /\ HeapInv(h) /\ Serves(h, id, v) /\ ReaderInv(h, reader)
  /\ kind = "stream" =>
       \A k \in DOMAIN h.chunk :
         h.chunk[k].owner = k \/ k = id \/ \E x \in Readers : reader[x].id = k

LEMMA FoundReady ==
  ASSUME InputsInv, Running, NEW i \in DOMAIN inputs
  PROVE  LET f == FindOrConstruct(heap, inputs[i])
         IN  /\ f.failed = TRUE =>
                  /\ f.why \in {"copy", "slice", "bounds"}
                  /\ f.why = "copy" =>
                       \E x \in Readers : /\ reader[x] # Closed
                                          /\ inputs[reader[x].of].restr # inputs[i].restr
                  /\ f.why = "bounds" => ~Translatable(inputs[i].restr, inputs[i])
             /\ f.failed # TRUE => Ready(f.heap, f.id, inputs[i])
<1> DEFINE f == FindOrConstruct(heap, inputs[i])
<1>1. SourceType /\ shared /\ HeapReaders(heap)
  BY DEF InputsInv, SourceType, HeapReaders, Running
<1>2. Wanted(inputs[i])
  <2>1. inputs[i] \in Input /\ InputInv(inputs[i])
    BY DEF InputsInv
  <2> QED
    BY <2>1 DEF Wanted, Input, InputInv
<1>3. Answer(f, inputs[i])
  BY <1>1, <1>2, FindRight
<1> QED
  BY <1>3 DEF Answer, Ready

LEMMA UnregisteredReady ==
  ASSUME NEW h, NEW id, NEW v, Ready(h, id, v)
  PROVE  /\ Ready(Unregistered(h, id), id, v)
         /\ kind = "stream" /\ h.chunk[id].owner # id => id \notin Unregistered(h, id).pool
<1> DEFINE g == Unregistered(h, id)
<1>1. id \in DOMAIN h.chunk /\ HeapInv(h)
  BY DEF Ready, Serves
<1>2. HeapInv(g) /\ g.chunk = h.chunk
      /\ (kind = "stream" /\ h.chunk[id].owner # id => id \notin g.pool)
  BY <1>1, UnregisteredInv
<1> HIDE DEF g
<1>3. Ready(g, id, v)
  BY <1>2, SMTT(30) DEF Ready, Serves, ReaderInv, ServedBy, Owner
<1> QED
  BY <1>2, <1>3 DEF g

\* The program ends: nothing changes but the outcome.
LEMMA FailInv ==
  ASSUME InputsInv, NEW why, NEW v, Fail(why, v), why \in {"copy", "slice", "bounds", "expired"},
         why = "copy" => \E x \in Readers : /\ reader[x] # Closed
                                            /\ inputs[reader[x].of].restr # v.restr,
         why = "bounds" => ~Translatable(v.restr, v)
  PROVE  InputsInv'
<1>1. /\ outcome' = [why |-> why, asked |-> v]
      /\ UNCHANGED <<kind, text, inputs, shared, heap, reader>>
  BY DEF Fail
<1>2. outcome'.why = why /\ outcome'.asked = v
  BY <1>1
<1>3. HeapInv(heap)'
  <2>1. Buffers(heap) /\ (kind = "stream" => StreamInv(heap))
    BY DEF InputsInv, HeapInv
  <2> QED
    BY <1>1, <2>1, HeapInvAfter
<1>4. \A k \in DOMAIN inputs' : InputInv(inputs[k])'
  BY <1>1 DEF InputsInv, InputInv, InText, Until, SourceSlice, Translatable, Whole
<1>5. ReaderInv(heap, reader)' /\ HeldInv(heap, reader)'
  BY <1>1 DEF InputsInv, ReaderInv, ServedBy, Serves, Owner, HeldInv
<1>6. RefusedOnlyWhenInUse'
  BY <1>1, <1>2 DEF RefusedOnlyWhenInUse, Translatable, Whole
<1> QED
  BY <1>1, <1>2, <1>3, <1>4, <1>5, <1>6 DEF InputsInv

\* A step after which the heap is collected and the program goes on.
LEMMA CollectedStep ==
  ASSUME InputsInv, outcome.why = "running", UNCHANGED <<kind, text, outcome>>,
         shared' \in BOOLEAN,
         inputs' \in Seq(Input), \A k \in DOMAIN inputs' : InputInv(inputs'[k]),
         NEW h, Buffers(h), kind = "stream" /\ shared' => StreamInv(h) /\ shared,
         heap' = Collected(h, reader'),
         ServedBy(h, reader', inputs'),
         kind = "stream" /\ shared' =>
           \A k \in h.pool : h.chunk[k].owner = k \/ \E x \in Readers : reader'[x].id = k
  PROVE  InputsInv'
<1> DEFINE g == Collected(h, reader')
<1>0. reader' \in [Readers -> [of : Nat, id : Nat]]
  BY DEF ServedBy
<1>1. \A x \in Readers : reader'[x].id = 0 \/ reader'[x].id \in DOMAIN h.chunk
  BY <1>0 DEF ReaderInv, ServedBy, Serves, Closed
<1>2. /\ Buffers(g) /\ DOMAIN g.chunk \subseteq DOMAIN h.chunk
      /\ \A k \in DOMAIN g.chunk : g.chunk[k] = h.chunk[k] /\ Owner(g, k) = Owner(h, k)
      /\ \A x \in Readers : reader'[x].id = 0 \/ reader'[x].id \in DOMAIN g.chunk
      /\ \A k \in DOMAIN g.chunk :
           k \in h.pool \/ (\E x \in Readers : reader'[x].id = k) \/ h.chunk[k].owner = k
  BY <1>1, CollectedBuffers
<1>3. ASSUME kind = "stream", shared'
      PROVE  StreamInv(g) /\ shared
  <2>1. HeapInv(h)
    BY <1>3 DEF HeapInv
  <2>2. HeapInv(g)
    BY <1>1, <2>1, CollectedFacts
  <2> QED
    BY <1>3, <2>2 DEF HeapInv
<1>4. heap' = g
  OBVIOUS
<1> HIDE DEF g
<1>5. HeapInv(heap)'
  BY <1>2, <1>3, <1>4, HeapInvAfter
<1>6. \A k \in DOMAIN inputs' : InputInv(inputs[k])'
  BY DEF InputInv, InText, Until, SourceSlice, Translatable, Whole
<1>7. ReaderInv(heap, reader)'
  <2> SUFFICES ASSUME NEW x \in Readers, reader'[x] # Closed
               PROVE  /\ reader'[x].of \in DOMAIN inputs'
                      /\ Serves(g, reader'[x].id, inputs'[reader'[x].of])
    BY <1>0, <1>4 DEF ReaderInv, ServedBy, Serves, Owner
  <2>1. /\ reader'[x].of \in DOMAIN inputs'
        /\ reader'[x].id \in DOMAIN h.chunk
        /\ Serves(h, reader'[x].id, inputs'[reader'[x].of])
    BY DEF ReaderInv, ServedBy, Serves, Owner
  <2>2. 0 \notin DOMAIN h.chunk
    BY DEF Buffers, HeapType
  <2>3. reader'[x].id \in DOMAIN g.chunk
    BY <1>2, <2>1, <2>2
  <2> QED
    BY <1>2, <2>1, <2>3 DEF Serves
<1>8. HeldInv(heap, reader)'
  BY <1>2, <1>4 DEF HeldInv
<1>9. RefusedOnlyWhenInUse'
  BY DEF RefusedOnlyWhenInUse
<1> QED
  BY <1>5, <1>6, <1>7, <1>8, <1>9 DEF InputsInv

LEMMA OpenedInv ==
  ASSUME InputsInv, Running, NEW i \in DOMAIN inputs, NEW x \in Readers, reader[x] = Closed,
         NEW h, NEW id, Ready(h, id, inputs[i]),
         reader' = [reader EXCEPT ![x] = [of |-> i, id |-> id]],
         heap' = Collected(h, reader'),
         UNCHANGED <<kind, text, inputs, shared, outcome>>
  PROVE  InputsInv'
<1>1. /\ HeapInv(h) /\ ReaderInv(h, reader) /\ Serves(h, id, inputs[i])
      /\ HeapType(h) /\ id \in DOMAIN h.chunk
  BY DEF Ready, HeapInv, Buffers, Serves
<1>2. i \in Nat /\ id \in Nat
  <2>1. DOMAIN inputs \subseteq Nat
    BY LenProperties DEF InputsInv
  <2> QED
    BY <1>1, <2>1 DEF HeapType
<1>3. /\ reader' \in [Readers -> [of : Nat, id : Nat]]
      /\ reader'[x] = [of |-> i, id |-> id] /\ reader'[x].of = i /\ reader'[x].id = id
      /\ \A y \in Readers : y # x => reader'[y] = reader[y]
  BY <1>1, <1>2 DEF ReaderInv, ServedBy
<1>4. ServedBy(h, reader', inputs')
  BY <1>1, <1>3 DEF ReaderInv, ServedBy, Serves, Owner
<1>5. kind = "stream" =>
        \A k \in h.pool : h.chunk[k].owner = k \/ \E y \in Readers : reader'[y].id = k
  <2> SUFFICES ASSUME kind = "stream", NEW k \in h.pool, h.chunk[k].owner # k
               PROVE  \E y \in Readers : reader'[y].id = k
    OBVIOUS
  <2>1. k \in DOMAIN h.chunk /\ k # 0
    BY <1>1 DEF HeapType
  <2>2. k = id \/ \E y \in Readers : reader[y].id = k
    BY <2>1 DEF Ready
  <2>3. \A y \in Readers : reader[y].id = k => y # x
    BY <2>1 DEF Closed
  <2> QED
    BY <1>3, <2>2, <2>3
<1>6. /\ inputs' \in Seq(Input) /\ \A k \in DOMAIN inputs' : InputInv(inputs'[k])
      /\ shared' \in BOOLEAN
  BY DEF InputsInv
<1>7. Buffers(h) /\ (kind = "stream" /\ shared' => StreamInv(h) /\ shared)
  BY <1>1 DEF HeapInv
<1>8. outcome.why = "running"
  BY DEF Running
<1> QED
  BY <1>4, <1>5, <1>6, <1>7, <1>8, CollectedStep

LEMMA OpenViewInv ==
  ASSUME InputsInv, NEW i \in DOMAIN inputs, NEW x \in Readers, OpenView(i, x)
  PROVE  InputsInv'
<1> DEFINE found == FindOrConstruct(heap, inputs[i])
<1>1. Running /\ reader[x] = Closed
  BY DEF OpenView
<1>2. /\ found.failed = TRUE =>
           /\ found.why \in {"copy", "slice", "bounds"}
           /\ found.why = "copy" =>
                \E y \in Readers : /\ reader[y] # Closed
                                   /\ inputs[reader[y].of].restr # inputs[i].restr
           /\ found.why = "bounds" => ~Translatable(inputs[i].restr, inputs[i])
      /\ found.failed # TRUE => Ready(found.heap, found.id, inputs[i])
  BY <1>1, FoundReady
<1>3. /\ found.failed = TRUE => Fail(found.why, inputs[i])
      /\ found.failed # TRUE =>
           /\ reader' = [reader EXCEPT ![x] = [of |-> i, id |-> found.id]]
           /\ heap' = Collected(found.heap, reader')
           /\ UNCHANGED <<kind, text, inputs, shared, outcome>>
  BY DEF OpenView
<1> HIDE DEF found
<1>4. CASE found.failed = TRUE
  BY <1>2, <1>3, <1>4, FailInv
<1>5. CASE found.failed # TRUE
  BY <1>1, <1>2, <1>3, <1>5, OpenedInv
<1> QED
  BY <1>4, <1>5

LEMMA OpenStreamInv ==
  ASSUME InputsInv, NEW i \in DOMAIN inputs, NEW x \in Readers, OpenStream(i, x)
  PROVE  InputsInv'
<1> DEFINE found == FindOrConstruct(heap, inputs[i])
<1>1. Running /\ reader[x] = Closed
  BY DEF OpenStream
<1>2. /\ found.failed = TRUE =>
           /\ found.why \in {"copy", "slice", "bounds"}
           /\ found.why = "copy" =>
                \E y \in Readers : /\ reader[y] # Closed
                                   /\ inputs[reader[y].of].restr # inputs[i].restr
           /\ found.why = "bounds" => ~Translatable(inputs[i].restr, inputs[i])
      /\ found.failed # TRUE => Ready(found.heap, found.id, inputs[i])
  BY <1>1, FoundReady
<1>3. /\ found.failed = TRUE => Fail(found.why, inputs[i])
      /\ found.failed # TRUE =>
           /\ reader' = [reader EXCEPT ![x] = [of |-> i, id |-> found.id]]
           /\ heap' = Collected(Unregistered(found.heap, found.id), reader')
           /\ UNCHANGED <<kind, text, inputs, shared, outcome>>
  BY DEF OpenStream
<1> HIDE DEF found
<1>4. CASE found.failed = TRUE
  BY <1>2, <1>3, <1>4, FailInv
<1>5. CASE found.failed # TRUE
  <2>1. Ready(Unregistered(found.heap, found.id), found.id, inputs[i])
    BY <1>2, <1>5, UnregisteredReady
  <2> QED
    BY <1>1, <1>3, <1>5, <2>1, OpenedInv
<1> QED
  BY <1>4, <1>5

LEMMA CloseReaderInv ==
  ASSUME InputsInv, NEW x \in Readers, CloseReader(x)
  PROVE  InputsInv'
<1> DEFINE id == reader[x].id
           h == Unregistered(heap, id)
<1>1. outcome.why = "running" /\ reader[x] # Closed
  BY DEF CloseReader
<1>2. HeapInv(heap) /\ ReaderInv(heap, reader) /\ HeldInv(heap, reader)
  BY DEF InputsInv
<1>3. id \in DOMAIN heap.chunk /\ HeapType(heap)
  BY <1>1, <1>2 DEF ReaderInv, ServedBy, Serves, HeapInv, Buffers
<1>4. /\ HeapInv(h) /\ h.chunk = heap.chunk
      /\ kind = "stream" /\ heap.chunk[id].owner # id => id \notin h.pool
  BY <1>2, <1>3, UnregisteredInv
<1>5. \/ Fail("expired", inputs[reader[x].of])
      \/ /\ reader' = [reader EXCEPT ![x] = Closed] /\ heap' = Collected(h, reader')
         /\ UNCHANGED <<kind, text, inputs, shared, outcome>>
  BY DEF CloseReader
<1> HIDE DEF h
<1>6. CASE Fail("expired", inputs[reader[x].of])
  BY <1>6, FailInv
<1>7. CASE /\ reader' = [reader EXCEPT ![x] = Closed] /\ heap' = Collected(h, reader')
           /\ UNCHANGED <<kind, text, inputs, shared, outcome>>
  <2>1. /\ reader' \in [Readers -> [of : Nat, id : Nat]] /\ reader'[x] = Closed
        /\ \A y \in Readers : y # x => reader'[y] = reader[y]
    BY <1>2, <1>7 DEF ReaderInv, ServedBy, Closed
  <2>2. ServedBy(h, reader', inputs')
    BY <1>2, <1>4, <1>7, <2>1 DEF ReaderInv, ServedBy, Serves, Owner
  <2>3. kind = "stream" /\ shared' =>
          \A k \in h.pool : h.chunk[k].owner = k \/ \E y \in Readers : reader'[y].id = k
    <3> SUFFICES ASSUME kind = "stream", shared', NEW k \in h.pool, h.chunk[k].owner # k
                 PROVE  \E y \in Readers : reader'[y].id = k
      OBVIOUS
    <3>1. k \in DOMAIN heap.chunk /\ k # id
      BY <1>4 DEF HeapInv, Buffers, HeapType
    <3>2. PICK y \in Readers : reader[y].id = k
      BY <1>2, <1>4, <1>7, <3>1 DEF HeldInv
    <3> QED
      BY <2>1, <3>1, <3>2
  <2>4. /\ inputs' \in Seq(Input) /\ \A k \in DOMAIN inputs' : InputInv(inputs'[k])
        /\ shared' \in BOOLEAN
    BY <1>7 DEF InputsInv
  <2>5. Buffers(h) /\ (kind = "stream" /\ shared' => StreamInv(h) /\ shared)
    BY <1>4, <1>7 DEF HeapInv
  <2> QED
    BY <1>1, <1>7, <2>2, <2>3, <2>4, <2>5, CollectedStep
<1> QED
  BY <1>5, <1>6, <1>7

LEMMA DropInputsInv ==
  ASSUME InputsInv, DropInputs
  PROVE  InputsInv'
<1> DEFINE h == [heap EXCEPT !.pool = {}]
<1>1. /\ outcome.why = "running" /\ shared' = FALSE /\ heap' = Collected(h, reader')
      /\ UNCHANGED <<kind, text, inputs, reader, outcome>>
  BY DEF DropInputs, Running
<1>2. Buffers(heap) /\ HeapType(heap) /\ ReaderInv(heap, reader)
  BY DEF InputsInv, HeapInv, Buffers
<1>3. h = [pool |-> {}, chunk |-> heap.chunk, left |-> heap.left]
  BY <1>2 DEF HeapType
<1>4. h.pool = {} /\ h.chunk = heap.chunk /\ h.left = heap.left
  BY <1>3
<1>5. Buffers(h)
  <2>1. HeapType(h)
    BY <1>2, <1>3, <1>4 DEF HeapType
  <2> HIDE DEF h
  <2> QED
    BY <1>2, <1>4, <2>1 DEF Buffers, ChunkInv, OneRoot, View, Owner
<1> HIDE DEF h
<1>6. ServedBy(h, reader', inputs')
  BY <1>1, <1>2, <1>4 DEF ReaderInv, ServedBy, Serves, Owner
<1>7. inputs' \in Seq(Input) /\ \A k \in DOMAIN inputs' : InputInv(inputs'[k])
  BY <1>1 DEF InputsInv
<1> QED
  BY <1>1, <1>5, <1>6, <1>7, CollectedStep

\* The size an input remembers.
LEMMA SizeKnown ==
  ASSUME InputsInv, NEW i \in DOMAIN inputs,
         NEW n \in Nat,
         Translatable(inputs[i].restr, inputs[i]) =>
           n = Len(RestrictedForm(inputs[i].restr, SourceSlice(inputs[i]))),
         inputs' = [inputs EXCEPT ![i].size = n]
  PROVE  /\ inputs' \in Seq(Input) /\ DOMAIN inputs' = DOMAIN inputs
         /\ \A k \in DOMAIN inputs : /\ inputs'[k].from = inputs[k].from
                                     /\ inputs'[k].to = inputs[k].to
                                     /\ inputs'[k].restr = inputs[k].restr
         /\ \A k \in DOMAIN inputs' : InputInv(inputs'[k])
<1> DEFINE v == inputs[i]
           w == [inputs[i] EXCEPT !.size = n]
<1>1. /\ inputs \in Seq(Input) /\ v \in Input /\ InputInv(v) /\ text \in Seq(Nat)
      /\ \A k \in DOMAIN inputs : InputInv(inputs[k])
  BY DEF InputsInv
<1>3. /\ w \in Input /\ w.from = v.from /\ w.to = v.to /\ w.restr = v.restr /\ w.size = n
  BY <1>1 DEF Input
<1>4. InputInv(w)
  BY <1>1, <1>3 DEF InputInv, InText, Until, SourceSlice, Translatable, Whole
<1>5. inputs' = [inputs EXCEPT ![i] = w]
  OBVIOUS
<1> HIDE DEF w
<1>6. /\ inputs' \in Seq(Input) /\ DOMAIN inputs' = DOMAIN inputs /\ inputs'[i] = w
      /\ \A k \in DOMAIN inputs : k # i => inputs'[k] = inputs[k]
  <2>1. inputs \in Seq(Input) /\ w \in Input /\ i \in DOMAIN inputs
    BY <1>1, <1>3
  <2> QED
    BY ONLY <1>5, <2>1
<1> QED
  BY <1>1, <1>3, <1>4, <1>6

LEMMA SizeInv ==
  ASSUME InputsInv, NEW i \in DOMAIN inputs, InputSize(i)
  PROVE  InputsInv'
<1> DEFINE v == inputs[i]
           found == FindOrConstruct(heap, v)
           form == RestrictedForm(v.restr, SourceSlice(v))
           plain == IF HasRestrictions(v.restr) THEN Len(form) ELSE Until(v) - v.from
           h == Unregistered(found.heap, found.id)
<1>1. /\ Running
      /\ kind = "file" /\ HasRestrictions(v.restr) /\ v.to # npos => Fail("slice", v)
      /\ kind # "stream" /\ ~(kind = "file" /\ HasRestrictions(v.restr) /\ v.to # npos) =>
           /\ inputs' = [inputs EXCEPT ![i].size = plain]
           /\ UNCHANGED <<kind, text, shared, heap, reader, outcome>>
      /\ kind = "stream" /\ found.failed = TRUE => Fail(found.why, v)
      /\ kind = "stream" /\ found.failed # TRUE =>
           /\ inputs' = [inputs EXCEPT ![i].size = Len(View(found.heap, found.id))]
           /\ heap' = Collected(h, reader)
           /\ UNCHANGED <<kind, text, shared, reader, outcome>>
  BY DEF InputSize
<1>2. /\ found.failed = TRUE =>
           /\ found.why \in {"copy", "slice", "bounds"}
           /\ found.why = "copy" =>
                \E y \in Readers : /\ reader[y] # Closed
                                   /\ inputs[reader[y].of].restr # v.restr
           /\ found.why = "bounds" => ~Translatable(v.restr, v)
      /\ found.failed # TRUE => Ready(found.heap, found.id, v)
  BY <1>1, FoundReady
<1>3. /\ v.from \in Nat /\ v.to \in Nat \cup {npos} /\ InText(v) /\ PoolSuffices(v.restr)
      /\ text \in Seq(Nat)
  <2>1. v \in Input /\ InputInv(v) /\ text \in Seq(Nat)
    BY DEF InputsInv
  <2> QED
    BY <2>1, AskedFacts DEF Input, InputInv
<1>4. SourceSlice(v) \in Seq(Nat) /\ Len(SourceSlice(v)) = Until(v) - v.from
  <2>1. /\ v.from \in 0 .. Len(text) /\ Until(v) \in v.from .. Len(text) /\ Len(text) \in Nat
        /\ SourceSlice(v) = SubSeq(text, v.from + 1, Until(v)) /\ SourceSlice(v) \in Seq(Nat)
    BY <1>3, SliceFacts
  <2> HIDE DEF v
  <2>2. v.from + 1 \in 1 .. Len(text) + 1 /\ Until(v) \in (v.from + 1) - 1 .. Len(text)
    BY <2>1
  <2>3. Len(SubSeq(text, v.from + 1, Until(v))) = Until(v) - (v.from + 1) + 1
    BY <1>3, <2>1, <2>2, SubSeqProperties
  <2> QED
    BY <2>1, <2>3
<1>5. /\ form \in Seq(Nat)
      /\ Len(form) = Offset(v.restr, SourceSlice(v), Len(SourceSlice(v)) + 1) + Noff(v.restr)
  BY <1>3, <1>4, FormType
<1> HIDE DEF found, form, v, h, plain
<1>9. CASE kind = "file" /\ HasRestrictions(v.restr) /\ v.to # npos
  <2>1. Fail("slice", v)
    BY <1>1, <1>9
  <2> QED
    BY <2>1, FailInv
<1>6. CASE kind # "stream" /\ ~(kind = "file" /\ HasRestrictions(v.restr) /\ v.to # npos)
  <2>1. plain = Len(form)
    <3>1. CASE HasRestrictions(v.restr)
      BY <3>1 DEF plain
    <3>2. CASE ~HasRestrictions(v.restr)
      <4>1. Noff(v.restr) = 0
        BY <3>2 DEF HasRestrictions, Noff
      <4>2. Escaped(v.restr) = {}
        BY <3>2 DEF HasRestrictions, HasEscapeRestrictions, Escaped
      <4>3. Len(SourceSlice(v)) \in Nat
        BY <1>4, LenProperties
      <4>4. Offset(v.restr, SourceSlice(v), Len(SourceSlice(v)) + 1) = Len(SourceSlice(v))
        BY <4>2, <4>3, OffsetPlain
      <4> QED
        BY <1>4, <1>5, <3>2, <4>1, <4>3, <4>4 DEF plain
    <3> QED
      BY <3>1, <3>2
  <2>2. inputs' = [inputs EXCEPT ![i].size = Len(form)]
    BY <1>1, <1>6, <2>1
  <2>3. /\ inputs' \in Seq(Input) /\ DOMAIN inputs' = DOMAIN inputs
        /\ \A k \in DOMAIN inputs : /\ inputs'[k].from = inputs[k].from
                                    /\ inputs'[k].to = inputs[k].to
                                    /\ inputs'[k].restr = inputs[k].restr
        /\ \A k \in DOMAIN inputs' : InputInv(inputs'[k])
    <3>1. Len(form) \in Nat
      BY <1>5, LenProperties
    <3> QED
      BY <2>2, <3>1, SizeKnown DEF form, v
  <2>4. UNCHANGED <<kind, text, shared, heap, reader, outcome>>
    BY <1>1, <1>6
  <2>5. HeapInv(heap)'
    <3>1. Buffers(heap) /\ (kind = "stream" => StreamInv(heap))
      BY DEF InputsInv, HeapInv
    <3> QED
      BY <2>4, <3>1, HeapInvAfter
  <2>6. \A k \in DOMAIN inputs' : InputInv(inputs[k])'
    BY <2>3, <2>4 DEF InputInv, InText, Until, SourceSlice, Translatable, Whole
  <2>7. ReaderInv(heap, reader)'
    BY <2>3, <2>4, SMTT(30) DEF InputsInv, ReaderInv, ServedBy, Serves, Owner
  <2>8. HeldInv(heap, reader)'
    BY <2>4 DEF InputsInv, HeldInv
  <2>9. RefusedOnlyWhenInUse'
    BY <1>1, <2>4 DEF Running, RefusedOnlyWhenInUse
  <2> QED
    BY <2>3, <2>4, <2>5, <2>6, <2>7, <2>8, <2>9 DEF InputsInv
<1>7. CASE kind = "stream" /\ found.failed = TRUE
  BY <1>1, <1>2, <1>7, FailInv DEF v
<1>8. CASE kind = "stream" /\ found.failed # TRUE
  <2>1. Ready(found.heap, found.id, v)
    BY <1>2, <1>8
  <2>2. /\ Ready(h, found.id, v)
        /\ found.heap.chunk[found.id].owner # found.id => found.id \notin h.pool
    BY <1>8, <2>1, UnregisteredReady DEF h
  <2>3. h.chunk = found.heap.chunk
    BY DEF h, Unregistered
  <2>4. /\ Len(View(found.heap, found.id)) \in Nat
        /\ Translatable(v.restr, v) => Len(View(found.heap, found.id)) = Len(form)
    <3> DEFINE c == found.heap.chunk[found.id]
    <3>1. /\ ChunkInv(found.heap, found.id) /\ c.from = v.from /\ c.to = v.to
          /\ Owner(found.heap, found.id).restr = v.restr
      BY <2>1 DEF Ready, HeapInv, Buffers, Serves
    <3>2. /\ View(found.heap, found.id) \in Seq(Nat)
          /\ Translatable(v.restr, c) =>
               IsRestricted(v.restr, SourceSlice(c), View(found.heap, found.id))
      BY <3>1 DEF ChunkInv
    <3>3. SourceSlice(c) = SourceSlice(v) /\ (Translatable(v.restr, v) => Translatable(v.restr, c))
      BY <3>1 DEF SourceSlice, Until, Translatable, Whole
    <3>4. Len(View(found.heap, found.id)) \in Nat
      BY <3>2, LenProperties
    <3> HIDE DEF c
    <3>5. ASSUME Translatable(v.restr, v)
          PROVE  Len(View(found.heap, found.id)) = Len(form)
      BY <1>5, <3>2, <3>3, <3>5 DEF IsRestricted
    <3> QED
      BY <3>4, <3>5
  <2>5. inputs' = [inputs EXCEPT ![i].size = Len(View(found.heap, found.id))]
    BY <1>1, <1>8
  <2>6. /\ inputs' \in Seq(Input) /\ DOMAIN inputs' = DOMAIN inputs
        /\ \A k \in DOMAIN inputs : /\ inputs'[k].from = inputs[k].from
                                    /\ inputs'[k].to = inputs[k].to
                                    /\ inputs'[k].restr = inputs[k].restr
        /\ \A k \in DOMAIN inputs' : InputInv(inputs'[k])
    <3>1. Translatable(inputs[i].restr, inputs[i]) =>
            Len(View(found.heap, found.id))
              = Len(RestrictedForm(inputs[i].restr, SourceSlice(inputs[i])))
      BY <2>4 DEF form, v
    <3> QED
      BY <2>4, <2>5, <3>1, SizeKnown
  <2>7. heap' = Collected(h, reader') /\ UNCHANGED <<kind, text, shared, reader, outcome>>
    BY <1>1, <1>8
  <2>8. ServedBy(h, reader', inputs')
    BY <2>2, <2>6, <2>7 DEF Ready, ReaderInv, ServedBy, Serves
  <2>9. kind = "stream" /\ shared' =>
          \A k \in h.pool : h.chunk[k].owner = k \/ \E x \in Readers : reader'[x].id = k
    <3> SUFFICES ASSUME NEW k \in h.pool, h.chunk[k].owner # k
                 PROVE  \E x \in Readers : reader'[x].id = k
      OBVIOUS
    <3>1. k \in DOMAIN h.chunk /\ k # found.id
      BY <2>2, <2>3 DEF Ready, HeapInv, Buffers, HeapType
    <3> QED
      BY <1>8, <2>2, <2>7, <3>1 DEF Ready
  <2>10. Buffers(h) /\ (kind = "stream" /\ shared' => StreamInv(h) /\ shared)
    BY <2>2, <2>7 DEF Ready, HeapInv
  <2>11. outcome.why = "running" /\ shared' \in BOOLEAN
    BY <1>1, <2>7 DEF Running, InputsInv
  <2> QED
    BY <2>6, <2>7, <2>8, <2>9, <2>10, <2>11, CollectedStep
<1> QED
  BY <1>6, <1>7, <1>8, <1>9

LEMMA StutterInv ==
  ASSUME InputsInv, UNCHANGED vars
  PROVE  InputsInv'
<1>1. /\ text' = text /\ kind' = kind /\ shared' = shared /\ inputs' = inputs
      /\ heap' = heap /\ reader' = reader /\ outcome' = outcome
  BY DEF vars
<1>2. ASSUME NEW k \in DOMAIN inputs PROVE InputInv(inputs[k])'
  BY <1>1, <1>2 DEF InputsInv, InputInv, InText, Until, SourceSlice, Translatable, Whole
<1>3. HeapInv(heap)'
  <2>1. HeapInv(heap)
    BY DEF InputsInv
  <2> QED
    BY <1>1, <2>1, SMTT(30) DEF HeapInv, Buffers, HeapType, ChunkInv, OneRoot, IsRoot, InText, Until,
         SourceSlice, StreamInv, View, Owner, Translatable, Whole
<1>4. ReaderInv(heap, reader)' /\ HeldInv(heap, reader)'
  BY <1>1 DEF InputsInv, ReaderInv, ServedBy, Serves, Owner, HeldInv
<1>5. RefusedOnlyWhenInUse'
  BY <1>1 DEF InputsInv, RefusedOnlyWhenInUse, Translatable, Whole
<1> QED
  BY <1>1, <1>2, <1>3, <1>4, <1>5 DEF InputsInv

LEMMA NextInv ==
  ASSUME InputsInv, [Next]_vars
  PROVE  InputsInv'
<1>1. CASE \E i \in DOMAIN inputs, a \in 0 .. Len(text),
                b \in {npos} \cup 0 .. Len(text) : SliceInput(i, a, b)
  BY <1>1, SliceInputInv
<1>2. CASE \E i \in DOMAIN inputs, r \in Restrictions : RestrictInput(i, r)
  BY <1>2, RestrictInputInv
<1>3. CASE \E i \in DOMAIN inputs, x \in Readers : OpenView(i, x) \/ OpenStream(i, x)
  BY <1>3, OpenViewInv, OpenStreamInv
<1>4. CASE \E i \in DOMAIN inputs : InputSize(i)
  BY <1>4, SizeInv
<1>5. CASE \E x \in Readers : CloseReader(x)
  BY <1>5, CloseReaderInv
<1>6. CASE DropInputs
  BY <1>6, DropInputsInv
<1>7. CASE UNCHANGED vars
  BY <1>7, StutterInv
<1> QED
  BY <1>1, <1>2, <1>3, <1>4, <1>5, <1>6, <1>7 DEF Next
-----------------------------------------------------------------------------
\* The inductive invariant: every live chunk shows its slice of the source in
\* the restrictions of its buffer, the chunks of a stream all belong to the one
\* root that stays in the pool, open readers point at live chunks that are
\* what their inputs asked for, and the sizes remembered are right.
THEOREM InputsInvariant == Spec => []InputsInv
<1>1. Init => InputsInv
  BY InitInv
<1>2. InputsInv /\ [Next]_vars => InputsInv'
  BY NextInv
<1> QED
  BY <1>1, <1>2, PTL DEF Spec

\* Whatever the other inputs and their readers do with the shared buffers, an
\* open reader shows its slice of the source in the restricted form its input
\* asked for, and so does the size that an input remembers.
THEOREM ReadersRightHolds == Spec => []ReadersRight
<1>1. ASSUME InputsInv PROVE ReadersRight
  <2>1. /\ text \in Seq(Nat) /\ inputs \in Seq(Input) /\ Buffers(heap) /\ HeapType(heap)
        /\ ReaderInv(heap, reader)
        /\ \A k \in DOMAIN inputs : inputs[k] \in Input /\ InputInv(inputs[k])
    BY <1>1 DEF InputsInv, HeapInv, Buffers
  <2>2. ASSUME NEW x \in Readers, reader[x] # Closed
        PROVE  /\ reader[x].id \in DOMAIN heap.chunk
               /\ Translatable(inputs[reader[x].of].restr, inputs[reader[x].of]) => ShowsSlice(x)
    <3> DEFINE id == reader[x].id
               v == inputs[reader[x].of]
    <3>1. Serves(heap, id, v)
      BY <2>1, <2>2 DEF ReaderInv, ServedBy
    <3>2. ChunkInv(heap, id) /\ id \in DOMAIN heap.chunk
      BY <2>1, <3>1 DEF Buffers, Serves
    <3> HIDE DEF id, v
    <3>3. /\ SourceSlice(heap.chunk[id]) = SourceSlice(v)
          /\ Translatable(v.restr, v) => Translatable(v.restr, heap.chunk[id])
      BY <3>1 DEF Serves, SourceSlice, Until, Translatable, Whole
    <3>4. Translatable(v.restr, v) => IsRestricted(v.restr, SourceSlice(v), View(heap, id))
      BY <3>1, <3>2, <3>3 DEF ChunkInv, Serves
    <3> QED
      BY <3>2, <3>4 DEF id, v, ShowsSlice
  <2>3. ASSUME NEW k \in DOMAIN inputs
        PROVE  inputs[k].from \in 0 .. Len(text) /\ inputs[k].size >= npos
    <3>1. inputs[k] \in Input /\ InText(inputs[k])
      BY <2>1 DEF InputInv
    <3>2. inputs[k].from \in Nat /\ inputs[k].to \in Nat \cup {npos}
          /\ inputs[k].size \in Nat \cup {npos}
      BY <3>1 DEF Input
    <3>3. inputs[k].from \in 0 .. Len(text)
      BY <2>1, <3>1, <3>2, SliceFacts
    <3> QED
      BY <3>2, <3>3 DEF npos
  <2>4. TypeOK
    BY <1>1, <2>1, <2>2, <2>3 DEF TypeOK, HeapType, InputsInv
  <2> QED
    BY <2>1, <2>2, <2>4 DEF ReadersRight, InputInv
<1> QED
  BY <1>1, InputsInvariant, PTL

\* A stream is refused because of a copy only while a reader is open on an
\* input with other restrictions than the ones asked for: what closed readers
\* and computed sizes left behind in the pool never stands in the way.
THEOREM RefusedOnlyWhenInUseHolds == Spec => []RefusedOnlyWhenInUse
<1>1. InputsInv => RefusedOnlyWhenInUse
  BY DEF InputsInv
<1> QED
  BY <1>1, InputsInvariant, PTL
=============================================================================
