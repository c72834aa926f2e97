---------------------------- MODULE LiteralCoders ---------------------------
(***************************************************************************)
(* The coders that are shown all literals before they code the first one,  *)
(* and ship what they made of them: Huffman's code, the arithmetic coder   *)
(* and the k-mer coder.                                                    *)
(***************************************************************************)
EXTENDS RangeCoder, FiniteSets, SequencesExt

CONSTANTS LitMax,   \* ULITERAL_MAX, one less than a power of two
          Top       \* the largest unsigned long
-----------------------------------------------------------------------------
(***************************************************************************)
(* coders/HuffmanCoder.hpp: the canonical Huffman code of a text, its      *)
(* table on the wire, and decoding with what the table tells.  Codewords   *)
(* of one length are consecutive numbers, in the order of the table.       *)
(* A number that is written with an integer code is one symbol of the wire *)
(* (IntegerCodes), a codeword is its bits.                                 *)
(***************************************************************************)

\* Mutant: a literal is marked, not counted.
CountsMarked(lits) == [c \in ToSet(lits) |-> 1]

\* count_alphabet_literals, of the literals that occur
Counts(lits) ==
  [c \in ToSet(lits) |-> Cardinality({i \in DOMAIN lits : lits[i] = c})]

\* gen_codelengths: the two lightest trees become one, until one is left; each
\* time the codewords of their leaves grow by a bit.  Which of several
\* lightest trees the heap yields first is left to CHOOSE.
CodeLengths(count) ==
  LET Lightest(trees) == CHOOSE t \in trees : \A u \in trees : t.weight <= u.weight
      Forest[i \in 0 .. Cardinality(DOMAIN count) - 1] ==
        IF i = 0
        THEN [trees |-> {[leaves |-> {c}, weight |-> count[c]] : c \in DOMAIN count},
              length |-> [c \in DOMAIN count |-> 0]]
        ELSE LET f == Forest[i - 1]
                 t == Lightest(f.trees)
                 u == Lightest(f.trees \ {t})
                 both == [leaves |-> t.leaves \cup u.leaves, weight |-> t.weight + u.weight]
             IN  [trees |-> (f.trees \ {t, u}) \cup {both},
                  length |-> [c \in DOMAIN count |->
                    IF c \in both.leaves THEN f.length[c] + 1 ELSE f.length[c]]]
  IN  Forest[Cardinality(DOMAIN count) - 1].length

\* gen_numl: how many codewords have each length, in a literal's width.
NumL(lengths) ==
  LET longest == CHOOSE l \in ToSet(lengths) : \A m \in ToSet(lengths) : m <= l
  IN  [l \in 1 .. longest |->
         Cardinality({i \in DOMAIN lengths : lengths[i] = l}) % (LitMax + 1)]

\* gen_first_codes: the smallest codeword of each length.
FirstCodes(numl) ==
  LET longest == Len(numl)
      F[l \in 1 .. longest] ==
        IF l = longest THEN 0 ELSE LET f == F[l + 1] IN (f + numl[l + 1]) \div 2
  IN  [l \in 1 .. longest |-> F[l]]

\* gen_huffmantable: the literals by the length of their codeword, and all
\* that follows from the lengths.
HuffmanTable(lits) ==
  LET length == CodeLengths(Counts(lits))
      order == SortSeq(FoldSet(LAMBDA c, s : Append(s, c), <<>>, DOMAIN length),
                       LAMBDA c, d : length[c] < length[d] \/ (length[c] = length[d] /\ c < d))
      ordered == [i \in DOMAIN order |-> length[order[i]]]
      numl == NumL(ordered)
      first == FirstCodes(numl)
  IN  [literals |-> order, lengths |-> ordered, numl |-> numl,
       codewords |-> [i \in DOMAIN order |->
         first[ordered[i]] + Cardinality({j \in 1 .. i - 1 : ordered[j] = ordered[i]})]]

\* huffmantable_encode, huffmantable_decode
TableOnWire(table) ==
  <<Len(table.numl)>> \o table.numl \o <<Len(table.literals)>> \o table.literals

TableFromWire(wire, pos) ==
  LET longest == wire[pos + 1]
      size == wire[pos + longest + 2]
  IN  [numl |-> SubSeq(wire, pos + 2, pos + longest + 1),
       literals |-> SubSeq(wire, pos + longest + 3, pos + longest + 2 + size),
       next |-> pos + longest + 2 + size]

\* huffman_encode
HuffmanCodeword(table, c) ==
  LET i == CHOOSE i \in DOMAIN table.literals : table.literals[i] = c
  IN  [b \in 1 .. table.lengths[i] |-> (table.codewords[i] \div 2 ^ (table.lengths[i] - b)) % 2]

\* gen_ordered_codelength
OrderedLengths(numl) == FlattenSeq([l \in DOMAIN numl |-> [j \in 1 .. numl[l] |-> l]])

\* gen_prefix_sum_lengths: where in the table the codewords of a length start.
PrefixSums(lengths) ==
  [l \in ToSet(lengths) |->
     CHOOSE i \in 0 .. Len(lengths) - 1 :
       lengths[i + 1] = l /\ (i = 0 \/ lengths[i] # l)]

\* What the constructor of the decoder makes of the table.
DecoderTable(table) ==
  [literals |-> table.literals, first |-> FirstCodes(table.numl),
   starts |-> PrefixSums(OrderedLengths(table.numl))]

\* huffman_decode: bits are read until they are not below the smallest
\* codeword of their length.
HuffmanDecoded(dec, wire, pos) ==
  LET Value[l \in 0 .. Len(dec.first)] ==
        IF l = 0 THEN 0 ELSE 2 * Value[l - 1] + wire[pos + l]
      len == CHOOSE l \in 1 .. Len(dec.first) :
               /\ Value[l] >= dec.first[l]
               /\ \A m \in 1 .. l - 1 : Value[m] < dec.first[m]
  IN  [v |-> dec.literals[dec.starts[len] + Value[len] - dec.first[len] + 1],
       next |-> pos + len]
-----------------------------------------------------------------------------
(***************************************************************************)
(* coders/ArithmeticCoder.hpp: an interval of the unsigned integers is     *)
(* narrowed by one literal after the other; when it gets too narrow for    *)
(* another one, its lower bound is written as one number and a new interval *)
(* is started.  The decoder finds out the same moment from the widths.     *)
(***************************************************************************)

CountMax == Top     \* the largest len_fixup_t: larger than any text

\* build_intervals: cumulative counts, divided by the smallest count but that
\* of literal 0.  The sums the bounds are taken from stop before LitMax.
Intervals(lits) ==
  LET Upto(v) == Cardinality({i \in DOMAIN lits : lits[i] <= v})
      Of(v) == Cardinality({i \in DOMAIN lits : lits[i] = v})
      positive == {Of(v) : v \in ToSet(lits) \ {0}}
      min == IF positive = {} THEN CountMax
             ELSE CHOOSE m \in positive : \A o \in positive : m <= o
  IN  [C |-> [v \in 0 .. LitMax |-> Upto(v) \div min],
       count |-> Upto(LitMax - 1),
       minRange |-> Upto(LitMax - 1) \div min,
       size |-> Cardinality(ToSet(lits)) % (LitMax + 1)]

\* writeCodebook
Codebook(iv) ==
  LET Entry(v) == IF v = 0 THEN IF iv.C[0] # 0 THEN <<0, iv.C[0]>> ELSE <<>>
                  ELSE IF iv.C[v] # iv.C[v - 1] THEN <<v, iv.C[v]>> ELSE <<>>
  IN  <<iv.count, iv.size>> \o FlattenSeq([v \in 1 .. LitMax + 1 |-> Entry(v - 1)])

\* The part of a range up to a share of the whole.
Offset(range, share, whole) ==
  IF range <= whole THEN (range * share) \div whole ELSE (range \div whole) * share

\* The bounds behind literal v.
Narrowed(iv, low, high, v) ==
  LET whole == iv.C[LitMax]
  IN  [low |-> IF v = 0 THEN low ELSE low + Offset(high - low, iv.C[v - 1], whole),
       high |-> low + Offset(high - low, iv.C[v], whole)]

\* encode: setNewBounds with the code it may have to write first, and behind
\* the last literal the last code and a dummy.
ArithmeticEncoded(iv, enc, v) ==
  LET full == enc.high - enc.low < iv.minRange
      next == IF full THEN Narrowed(iv, 0, Top, v) ELSE Narrowed(iv, enc.low, enc.high, v)
  IN  [low |-> next.low, high |-> next.high, counter |-> enc.counter + 1,
       code |-> (IF full THEN <<enc.low>> ELSE <<>>)
                \o (IF enc.counter + 1 = iv.count THEN <<next.low, Top>> ELSE <<>>)]

\* The constructor of the decoder.
CodebookFromWire(wire) ==
  LET size == wire[2]
  IN  [count |-> wire[1],
       entries |-> [i \in 1 .. size |-> [c |-> wire[1 + 2 * i], v |-> wire[2 + 2 * i]]],
       next |-> 2 + 2 * size]

\* decode(code): the literals of one code.  An interval that no entry claims
\* leaves the bounds where the search ended.
BlockDecoded(book, code, counter) ==
  LET size == Len(book.entries)
      whole == book.entries[size].v
      Bound(b, i) == IF i = 0 THEN b.low
                     ELSE b.low + Offset(b.high - b.low, book.entries[i].v, whole)
      D[b \in [low : Nat, high : Nat, out : Seq(Nat), counter : Nat]] ==
        IF ~(whole <= b.high - b.low /\ b.counter < book.count) THEN b
        ELSE LET hits == {i \in 1 .. size : code < Bound(b, i)}
                 hit == CHOOSE i \in hits : \A o \in hits : i <= o
             IN  IF hits = {}
                 THEN D[[b EXCEPT !.high = Bound(b, size), !.counter = @ + 1]]
                 ELSE D[[low |-> Bound(b, hit - 1), high |-> Bound(b, hit),
                         out |-> Append(b.out, book.entries[hit].c),
                         counter |-> b.counter + 1]]
  IN  D[[low |-> 0, high |-> Top, out |-> <<>>, counter |-> counter]]
-----------------------------------------------------------------------------
(***************************************************************************)
(* coders/SLECoder.hpp: literals and the commonest k-mers (k literals that *)
(* follow each other in the text) are ranked by how often they occur, and  *)
(* a rank is written in a class of its own width.  A k-mer is a number     *)
(* above all literals, the ranking a sequence of symbols; where it is      *)
(* written with an integer code, a symbol is one symbol of the wire.       *)
(***************************************************************************)

\* compile_kmer, is_kmer, decompile_kmer
Kmer(literals) ==
  LET V[i \in 0 .. Len(literals)] ==
        IF i = 0 THEN 1 ELSE (LitMax + 1) * V[i - 1] + literals[i]
  IN  V[Len(literals)]
IsKmer(x) == x > LitMax
KmerLiterals(x, k) == [i \in 1 .. k |-> (x \div (LitMax + 1) ^ (k - i)) % (LitMax + 1)]

\* Counter::getSorted: the symbols, the most frequent one first.
Sorted(count) ==
  SortSeq(FoldSet(LAMBDA x, s : Append(s, x), <<>>, DOMAIN count),
          LAMBDA x, y : count[x] > count[y] \/ (count[x] = count[y] /\ x < y))

\* The literals, and where the text goes on for k of them the k-mers, with the
\* number of their occurrences.  lits tells the position of each literal.
LiteralCounts(lits) ==
  [c \in {lits[i].c : i \in DOMAIN lits} |-> Cardinality({i \in DOMAIN lits : lits[i].c = c})]

KmerCounts(lits, k) ==
  LET ends == {i \in k .. Len(lits) : k > 1 /\ lits[i].pos = lits[i - k + 1].pos + k - 1}
      At(i) == Kmer([j \in 1 .. k |-> lits[i - k + j].c])
  IN  [x \in {At(i) : i \in ends} |-> Cardinality({i \in ends : At(i) = x})]

\* How many k-mers may join sigma literals.
Extension(sigma) ==
  LET bits == BitsFor(sigma - 1)
  IN  2 ^ (bits + (IF 2 ^ bits = sigma THEN 1 ELSE 2)) - sigma

\* The ranking the constructor of the encoder builds.
Ranking(lits, k) ==
  LET literals == LiteralCounts(lits)
      kmers == KmerCounts(lits, k)
      best == Sorted(kmers)
      chosen == {best[i] : i \in {i \in DOMAIN best : i <= Extension(Cardinality(DOMAIN literals))}}
  IN  Sorted([x \in DOMAIN literals \cup chosen |->
                IF x \in chosen THEN kmers[x] ELSE literals[x]])

\* The classes of a rank of so many bits, and of an integer: ranks from base
\* to base + 2^width - 1 are written in width bits.  Others get all bits.
RankClasses(bits) ==
  LET Class(base, width) == [base |-> base, width |-> width]
  IN  IF bits < 4 THEN <<>>
      ELSE IF bits < 6 THEN <<Class(0, 2)>>
      ELSE IF bits = 6 THEN <<Class(0, 3), Class(8, 3), Class(16, 4)>>
      ELSE <<Class(0, 2), Class(4, 2), Class(8, 2), Class(12, 2),
             Class(16, 3), Class(24, 3), Class(32, 3)>>
IntegerClasses(bits) == IF bits <= 5 THEN <<>> ELSE RankClasses(6)

\* The class is told by a number in front, none if there is only one.
PrefixBits(classes) == IF classes = <<>> THEN 0 ELSE BitsFor(Len(classes))

WriteBits(v, n) == [i \in 1 .. n |-> (v \div 2 ^ (n - i)) % 2]

\* encode_sym, and encode(v, MinDistributedRange), with the classes above
WriteClassed(classes, bits, v) ==
  LET own == {j \in DOMAIN classes : v - classes[j].base \in 0 .. 2 ^ classes[j].width - 1}
  IN  IF own = {} THEN WriteBits(Len(classes), PrefixBits(classes)) \o WriteBits(v, bits)
      ELSE LET j == CHOOSE j \in own : TRUE
           IN  WriteBits(j - 1, PrefixBits(classes))
               \o WriteBits(v - classes[j].base, classes[j].width)

ReadBits(wire, pos, n) ==
  LET V[i \in 0 .. n] == IF i = 0 THEN 0 ELSE 2 * V[i - 1] + wire[pos + i]
  IN  V[n]

\* decode: the number and where it ends.
ReadClassed(classes, bits, wire, pos) ==
  LET at == pos + PrefixBits(classes)
      j == ReadBits(wire, pos, PrefixBits(classes)) + 1
  IN  IF j \in DOMAIN classes
      THEN [v |-> classes[j].base + ReadBits(wire, at, classes[j].width),
            next |-> at + classes[j].width]
      ELSE [v |-> ReadBits(wire, at, bits), next |-> at + bits]

SymbolBits(ranking) == BitsFor(Len(ranking) - 1)

\* encode_sym, flush_kmer
SymbolCode(ranking, x) ==
  LET bits == SymbolBits(ranking)
      rank == (CHOOSE i \in DOMAIN ranking : ranking[i] = x) - 1
  IN  WriteClassed(RankClasses(bits), bits, rank)
Flushed(ranking, buffer) ==
  FlattenSeq([i \in DOMAIN buffer |-> SymbolCode(ranking, buffer[i])])

\* encode(v, LiteralRange): the literal rolls into the buffer; what rolls out of
\* a full one is written, and a k-mer of the ranking that fills it as a whole.
LiteralEncoded(ranking, k, buffer, c) ==
  LET full == Len(buffer) = k
      rolled == Append(IF full THEN Tail(buffer) ELSE buffer, c)
      out == IF full THEN SymbolCode(ranking, buffer[1]) ELSE <<>>
  IN  IF Len(rolled) = k /\ \E i \in DOMAIN ranking : ranking[i] = Kmer(rolled)
      THEN [code |-> out \o SymbolCode(ranking, Kmer(rolled)), buffer |-> <<>>]
      ELSE [code |-> out, buffer |-> rolled]

\* decode(LiteralRange): the rank of the next symbol; a symbol is one literal,
\* or the literals of a k-mer.
RankDecoded(ranking, wire, pos) ==
  LET bits == SymbolBits(ranking) IN ReadClassed(RankClasses(bits), bits, wire, pos)
SymbolLiterals(x, k) == IF IsKmer(x) THEN KmerLiterals(x, k) ELSE <<x>>
=============================================================================
