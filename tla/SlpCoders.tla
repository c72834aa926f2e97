----------------------------- MODULE SlpCoders ------------------------------
(***************************************************************************)
(* The straight-line program that edit-sensitive parsing makes             *)
(* (compressors/esp/SLP.hpp), its sorting (SLPDepSort.hpp), and the plain  *)
(* and the sorted way to write it (PlainSLPCoder.hpp, SortedSLPCoder.hpp). *)
(* A symbol below 256 is a byte, the others number the rules.              *)
(***************************************************************************)
EXTENDS EspParsing, FiniteSets
-----------------------------------------------------------------------------
(***************************************************************************)
(* compressors/esp/MonotoneSubsequences.hpp and SubseqStrategy.hpp: the    *)
(* positions of a list, in the order of their values, are split into       *)
(* increasing and decreasing subsequences.                                 *)
(*                                                                         *)
(* The optimal strategy keeps one array, linkedList, for four things: the  *)
(* backward links of the positions that are left, the layers of the        *)
(* geometric algorithm that finds a longest subsequence, and, for what was *)
(* removed, the number of the subsequence, which is the result.            *)
(***************************************************************************)

\* sorted_indices (stable); positions and links count from 0.
SortedIndices(values) ==
  LET Before(i, j) == \/ values[i + 1] < values[j + 1]
                      \/ values[i + 1] = values[j + 1] /\ i < j
  IN  SortSeq([i \in 1 .. Len(values) |-> i - 1], Before)

\* What the links from one position lead through to another one.
Chain(links, from, to) ==
  LET C[x \in DOMAIN links] == IF x = to THEN <<x>> ELSE <<x>> \o C[links[x]]
  IN  C[from]

\* L::L
NewList(sis) ==
  LET n == Len(sis)
  IN  [linkedList |-> [i \in 0 .. n - 1 |-> IF i = 0 THEN 0 ELSE i - 1],
       freeList |-> [i \in 0 .. n - 1 |-> IF i = n - 1 THEN i ELSE i + 1],
       start |-> 0, end |-> n - 1, remaining |-> n, removed |-> 0, layers |-> <<>>]

\* LayersIterator: backwards, in reverse mode forwards.
Iterated(l, reverse) ==
  IF l.remaining = 0 THEN <<>>
  ELSE IF reverse THEN Chain(l.freeList, l.start, l.end)
  ELSE Chain(l.linkedList, l.end, l.start)

\* point_coord_for_link
Point(sis, link, reverse) ==
  [x |-> IF reverse THEN Len(sis) - link - 1 ELSE link, y |-> sis[link + 1]]

\* rebuild, of one point: it becomes the head of the deepest layer above it.
\* The last heights of the layers decrease (layers_A_search).
IntoLayer(st, sis, link) ==
  LET y == sis[link + 1]
      j == Max({m \in DOMAIN st.heights : st.heights[m] > y})
      new == j > Len(st.layers)
  IN  [layers |-> IF new THEN Append(st.layers, link) ELSE [st.layers EXCEPT ![j] = link],
       linkedList |-> [st.linkedList EXCEPT ![link] = IF new THEN link ELSE st.layers[j]],
       heights |-> IF j = Len(st.heights) THEN Append(st.heights, y)
                   ELSE [st.heights EXCEPT ![j + 1] = y]]

Rebuilt(l, sis, reverse) ==
  LET order == Iterated(l, reverse)
      S[i \in 0 .. Len(order)] ==
        IF i = 0
        THEN [layers |-> <<>>, linkedList |-> l.linkedList, heights |-> <<Len(sis)>>]
        ELSE IntoLayer(S[i - 1], sis, order[i])
      last == S[Len(order)]
  IN  [l EXCEPT !.layers = last.layers, !.linkedList = last.linkedList]

Dominates(p, q) == p.x > q.x /\ p.y > q.y

\* Mutant: of every layer the point that was put there last.
LayerHeads(l, sis, reverse) == Reverse(l.layers)

\* lis: the longest subsequence, from the last layer to the first one, in every
\* layer the first point that dominates the one before.
Lis(l, sis, reverse) ==
  LET k == Len(l.layers)
      Pt(link) == Point(sis, link, reverse)
      FirstAbove(link, q) ==
        LET F[x \in DOMAIN l.linkedList] ==
              IF Dominates(Pt(x), Pt(q)) \/ l.linkedList[x] = x THEN x ELSE F[l.linkedList[x]]
        IN  F[link]
      Q[i \in 1 .. k] == IF i = k THEN l.layers[k] ELSE FirstAbove(l.layers[i], Q[i + 1])
  IN  [i \in 1 .. k |-> Q[k + 1 - i]]

\* update_free_list: st walks over the free list with its neighbours.
Unlinked(st0, link) ==
  LET walk == Chain(st0.freeList, st0.free, link)
      st == IF Len(walk) = 1 THEN st0
            ELSE [st0 EXCEPT !.prev = walk[Len(walk) - 1], !.free = link, !.next = st0.freeList[link]]
      hasPrev == st.prev # st.free
      hasNext == st.free # st.next
  IN  IF hasPrev /\ hasNext
      THEN [st EXCEPT !.freeList[st.prev] = st.next, !.free = st.next,
                      !.next = st.freeList[st.next]]
      ELSE IF hasPrev
      THEN [st EXCEPT !.freeList[st.prev] = st.prev, !.end = st.prev]
      ELSE IF hasNext
      THEN [st EXCEPT !.start = st.next, !.prev = st.next, !.free = st.next,
                      !.next = st.freeList[st.next]]
      ELSE st

\* remove_all_and_slice, at its end: the backward links of what is left.
Relinked(links, left) ==
  LET At(x) == CHOOSE i \in DOMAIN left : left[i] = x
  IN  [x \in DOMAIN links |->
         IF x \in ToSet(left) THEN (IF At(x) = 1 THEN x ELSE left[At(x) - 1]) ELSE links[x]]

\* remove_all_and_slice: the links of the subsequence get its number.
Removed(l, links) ==
  LET st == FoldLeft(Unlinked,
                     [freeList |-> l.freeList, start |-> l.start, end |-> l.end,
                      prev |-> l.start, free |-> l.start, next |-> l.freeList[l.start]],
                     SortSeq(links, <))
      marked == [x \in DOMAIN l.linkedList |->
                   IF x \in ToSet(links) THEN l.removed ELSE l.linkedList[x]]
  IN  [l EXCEPT !.freeList = st.freeList, !.start = st.start, !.end = st.end,
                !.removed = @ + 1, !.layers = <<>>, !.remaining = @ - Len(links),
                !.linkedList = IF l.remaining = Len(links) THEN marked
                               ELSE Relinked(marked, Chain(st.freeList, st.start, st.end))]

\* create_dpi_and_b_from_sorted_indices, one iteration: the longer subsequence is
\* removed, of equally long ones the increasing one.
LongestSubseq(l, sis) ==
  LET up == Rebuilt(l, sis, FALSE)
      increasing == Lis(up, sis, FALSE)
      down == Rebuilt(up, sis, TRUE)
  IN  IF Len(increasing) >= Len(down.layers)
      THEN [links |-> increasing, b |-> 0, l |-> down]
      ELSE [links |-> Lis(down, sis, TRUE), b |-> 1, l |-> down]

\* SubSeqGreedy, one iteration: from either end, whatever still fits.
GreedySubseq(left, sis) ==
  LET Pick(s, link) ==
        IF s = <<>> \/ sis[link + 1] > sis[s[Len(s)] + 1] THEN Append(s, link) ELSE s
      increasing == FoldLeft(Pick, <<>>, left)
      decreasing == Reverse(FoldLeft(Pick, <<>>, Reverse(left)))
  IN  IF Len(increasing) >= Len(decreasing)
      THEN [links |-> increasing, b |-> 0] ELSE [links |-> decreasing, b |-> 1]

\* create_dsigma_from_dpi_and_sorted_indices
Dsigma(sis, dpi) == [i \in 1 .. Len(sis) |-> dpi[CHOOSE k \in 1 .. Len(sis) : sis[k] = i - 1]]
-----------------------------------------------------------------------------
\* recover_D_from_encoding: every subsequence is a ring of positions of the sorted
\* list; the last element of the list is the end of its subsequence.
RecoverD(dpi, dsi, b, bde) ==
  LET n == Len(dpi)
      NoLink == n
      Linked(st, i) ==
        LET k == dpi[i + 1]
            front == st.front[k]
        IN  IF front = NoLink
            THEN [front |-> [st.front EXCEPT ![k] = i], ring |-> [st.ring EXCEPT ![i] = i]]
            ELSE [front |-> IF b[k + 1] = 1 THEN [st.front EXCEPT ![k] = i] ELSE st.front,
                  ring |-> [st.ring EXCEPT ![front] = i, ![i] = st.ring[front]]]
      rings == FoldLeft(Linked,
                        [front |-> [k \in 0 .. Len(b) - 1 |-> NoLink],
                         ring |-> [i \in 0 .. n - 1 |-> 0]],
                        [i \in 1 .. n |-> i - 1])
      Taken(st, j) ==
        LET front == st.front[dsi[j]]
        IN  [front |-> [st.front EXCEPT ![dsi[j]] = rings.ring[front]],
             values |-> <<bde[front + 1]>> \o st.values]
  IN  FoldLeft(Taken,
               [front |-> [k \in 0 .. Len(b) - 1 |-> rings.ring[rings.front[k]]], values |-> <<>>],
               [i \in 1 .. n |-> n + 1 - i]).values
-----------------------------------------------------------------------------
(***************************************************************************)
(* compressors/esp/DRCoder.hpp: how a list of integers, the right hand     *)
(* sides of the sorted rules, is written.  A field on the wire carries the *)
(* code it was written with: a reader that uses another one reads garbage  *)
(* (BitStream and IntegerCodes show that a field comes back when it is     *)
(* read as it was written).  The monotone subsequences of succinct are     *)
(* chosen by the machine of Esp.                                           *)
(***************************************************************************)

Huffman == INSTANCE LiteralCoders WITH LitMax <- 2 ^ 16 - 1, Top <- 0

\* What is written with write_int, write_unary, write_compressed_int, write_bit.
IntCode(bits) == <<"int", bits>>
UnaryCode == <<"unary">>
VByteCode == <<"compressed_int">>
BitCode == <<"bit">>

Fields(code, values) == [i \in 1 .. Len(values) |-> [code |-> code, v |-> values[i]]]
Ints(values, bits) ==
  Fields(IntCode(bits), [i \in 1 .. Len(values) |-> Cast(values[i], bits)])

\* The member of a set of one.
The(S) == CHOOSE x \in S : TRUE

Garbage == 0
FieldAt(wire, p, code) ==
  IF p < Len(wire) /\ wire[p + 1].code = code THEN wire[p + 1].v ELSE Garbage
FieldsAt(wire, p, n, code) == [i \in 1 .. n |-> FieldAt(wire, p + i - 1, code)]

Prev(values, i) == IF i = 1 THEN 0 ELSE values[i - 1]
Gaps(values) == [i \in 1 .. Len(values) |-> values[i] - Prev(values, i)]
Sums(gaps) ==
  LET S[i \in 0 .. Len(gaps)] == IF i = 0 THEN 0 ELSE S[i - 1] + gaps[i]
  IN  [i \in 1 .. Len(gaps) |-> S[i]]
Total(values) == FoldLeft(LAMBDA a, b : a + b, 0, values)
Stable(values, key(_)) ==
  LET Before(i, j) == key(values[i]) < key(values[j]) \/ (key(values[i]) = key(values[j]) /\ i < j)
      order == SortSeq([i \in 1 .. Len(values) |-> i], Before)
  IN  [i \in 1 .. Len(values) |-> values[order[i]]]
-----------------------------------------------------------------------------
(* DWaveletTree (make_wt, wt_pc.hpp, recover_Dxx, extract_from_wt)         *)

\* Level d has, for the values in the order of their d highest bits, the next bit.
MakeWT(values, maxChar) ==
  LET depth == IF maxChar = 0 THEN 0 ELSE BitsFor(maxChar)
      Level(d) == LET sorted == Stable(values, LAMBDA v : v \div 2 ^ (depth - d))
                  IN  [i \in 1 .. Len(values) |-> (sorted[i] \div 2 ^ (depth - d - 1)) % 2]
  IN  [d \in 1 .. depth |-> Level(d - 1)]

CountBits(level, from, size, bit) ==
  Cardinality({i \in from + 1 .. from + size : level[i] = bit})

\* recover_Dxx counts the bits of every node for the sizes of the two below it, which
\* lie one after the other under it; extract_from_wt has each node hand out its bits
\* from left to right, so the k-th value that reaches a node has its k-th bit.
RecoverWT(levels, n) ==
  LET Step(st, level) ==
        LET bit == level[st.from + st.k]
        IN  [v |-> 2 * st.v + bit,
             k |-> CountBits(level, st.from, st.k, bit),
             from |-> st.from + (IF bit = 1 THEN CountBits(level, st.from, st.size, 0) ELSE 0),
             size |-> CountBits(level, st.from, st.size, bit)]
  IN  [i \in 1 .. n |->
         FoldLeft(Step, [v |-> 0, k |-> i, from |-> 0, size |-> n], levels).v]

EncodeWT(values, maxValue) ==
  LET levels == MakeWT(values, maxValue)
  IN  Fields(VByteCode, <<Len(levels)>>) \o Fields(BitCode, FlattenSeq(levels))
DecodeWT(wire, p, n) ==
  LET depth == FieldAt(wire, p, VByteCode)
  IN  [v |-> RecoverWT([d \in 1 .. depth |-> FieldsAt(wire, p + 1 + (d - 1) * n, n, BitCode)], n),
       next |-> p + 1 + depth * n]
-----------------------------------------------------------------------------
(* DHuffman: esp/HuffmanCoder.hpp is coders/HuffmanCoder.hpp for wider     *)
(* values, with a table of its own.                                        *)

\* ExtendedHuffmantable: no table for less than two different values.
HasTable(values) == Cardinality(ToSet(values)) > 1
HuffTable(values) == Huffman!HuffmanTable(values)
RealAlphabet(values) == Max(ToSet(values)) + 1

\* huffmantable_encode
HuffTableFields(table, real) ==
  Fields(VByteCode, <<real, Len(table.numl)>> \o table.numl \o <<Len(table.literals)>>)
  \o Ints(table.literals, BitsFor(real - 1))

\* HuffmanEncoder
EncodeHuff(values) ==
  IF ~HasTable(values) THEN Fields(BitCode, <<0>>) \o Ints(values, FullBits)
  ELSE LET table == HuffTable(values)
       IN  Fields(BitCode, <<1>>) \o HuffTableFields(table, RealAlphabet(values))
           \o Fields(BitCode, FlattenSeq([i \in 1 .. Len(values) |->
                                            Huffman!HuffmanCodeword(table, values[i])]))

\* huffmantable_decode
HuffTableAt(wire, p) ==
  LET real == FieldAt(wire, p, VByteCode)
      longest == FieldAt(wire, p + 1, VByteCode)
      size == FieldAt(wire, p + 2 + longest, VByteCode)
  IN  [numl |-> FieldsAt(wire, p + 2, longest, VByteCode),
       literals |-> FieldsAt(wire, p + 3 + longest, size, IntCode(BitsFor(real - 1))),
       next |-> p + 3 + longest + size]

\* HuffmanDecoder
DecodeHuff(wire, p, n) ==
  IF FieldAt(wire, p, BitCode) = 0
  THEN [v |-> FieldsAt(wire, p + 1, n, IntCode(FullBits)), next |-> p + 1 + n]
  ELSE LET table == HuffTableAt(wire, p + 1)
           dec == Huffman!DecoderTable(table)
           bits == FieldsAt(wire, 0, Len(wire), BitCode)
           V[i \in 0 .. n] ==
             IF i = 0 THEN [v |-> <<>>, next |-> table.next]
             ELSE LET before == V[i - 1]
                      r == Huffman!HuffmanDecoded(dec, bits, before.next)
                  IN  [v |-> Append(before.v, r.v), next |-> r.next]
       IN  V[n]
-----------------------------------------------------------------------------
(* encode_unary_diff, decode_unary_diff                                    *)

Differences(values) == [i \in 1 .. Len(values) |->
                          LET g == Gaps(values)[i] IN IF g < 0 THEN -g ELSE g]
Changes(values) == Cardinality({i \in 1 .. Len(values) : Differences(values)[i] # 0})
RunCount(values) ==
  Changes(values) + (IF Len(values) > 0 /\ values[1] = 0 THEN 1 ELSE 0)

\* The two ways are compared by their predicted numbers of bits; the prediction
\* for the unary one always counts signs.
UnaryBits(values) == Len(values) + Total(Differences(values)) + Changes(values)
UsesUnary(values, bits, diffBits) ==
  UnaryBits(values) <= RunCount(values) * (bits + diffBits)

\* CHECK_EQ at the end of the unary way: what was written is what was predicted.
UnaryChecks(values, bits, diffBits, sign) ==
  UsesUnary(values, bits, diffBits) =>
    Len(values) + Total(Differences(values)) + (IF sign THEN Changes(values) ELSE 0)
      = UnaryBits(values)

\* Equal values in a row, with their number.
Runs(values) ==
  FoldLeft(LAMBDA r, v : IF r # <<>> /\ r[Len(r)].v = v THEN [r EXCEPT ![Len(r)].n = @ + 1]
                         ELSE Append(r, [v |-> v, n |-> 1]),
           <<>>, values)

EncodeUnaryDiff(values, bits, diffBits, sign) ==
  IF UsesUnary(values, bits, diffBits)
  THEN LET signs == SelectSeq(Gaps(values), LAMBDA g : g # 0)
       IN  Fields(BitCode, <<1>>) \o Fields(UnaryCode, Differences(values))
           \o (IF sign THEN Fields(BitCode, [i \in 1 .. Len(signs) |-> IF signs[i] > 0 THEN 1 ELSE 0])
               ELSE <<>>)
  ELSE Fields(BitCode, <<0>>)
       \o FlattenSeq([i \in 1 .. Len(Runs(values)) |->
            Ints(<<Runs(values)[i].n>>, bits) \o Ints(<<Runs(values)[i].v>>, diffBits)])

\* A sign follows for every difference that is not 0.
DecodeSigned(wire, p, diffs, sign) ==
  LET D[i \in 0 .. Len(diffs)] ==
        IF i = 0 THEN [v |-> <<>>, last |-> 0, next |-> p]
        ELSE LET st == D[i - 1]
                 negative == sign /\ diffs[i] # 0 /\ FieldAt(wire, st.next, BitCode) = 0
                 v == IF negative THEN st.last - diffs[i] ELSE st.last + diffs[i]
             IN  [v |-> Append(st.v, v), last |-> v,
                  next |-> IF sign /\ diffs[i] # 0 THEN st.next + 1 ELSE st.next]
  IN  D[Len(diffs)]

DecodeRuns(wire, p, n, bits, diffBits) ==
  LET R[k \in 0 .. n] ==
        IF k = 0 THEN [v |-> <<>>, next |-> p]
        ELSE LET st == R[k - 1]
             IN  IF Len(st.v) >= n THEN st
                 ELSE [v |-> st.v \o [i \in 1 .. FieldAt(wire, st.next, IntCode(bits)) |->
                                        FieldAt(wire, st.next + 1, IntCode(diffBits))],
                       next |-> st.next + 2]
  IN  R[n]

DecodeUnaryDiff(wire, p, n, bits, diffBits, sign) ==
  IF FieldAt(wire, p, BitCode) = 1
  THEN DecodeSigned(wire, p + 1 + n, FieldsAt(wire, p + 1, n, UnaryCode), sign)
  ELSE DecodeRuns(wire, p + 1, n, bits, diffBits)
-----------------------------------------------------------------------------
(* DRangeFit: every value is written relative to the least value behind    *)
(* it, in as many bits as the greatest value before it needs.  An option   *)
(* is its threshold in percent (0 for none), wt and zero_min.              *)

Mins(values) == [i \in 1 .. Len(values) |-> Min({values[j] : j \in i .. Len(values)})]
Maxs(values) == [i \in 1 .. Len(values) |-> Max({values[j] : j \in 1 .. i})]

\* perc_diff
PercDiff(a, b, threshold) ==
  threshold > 0 /\ a + b > 0 /\ 200 * (IF a > b THEN a - b ELSE b - a) <= threshold * (a + b)

\* The sequence with values replaced by the one before that is close enough to them.
Levelled(values, threshold) ==
  FoldLeft(LAMBDA s, v : Append(s, IF PercDiff(v, IF s = <<>> THEN 0 ELSE s[Len(s)], threshold)
                                   THEN (IF s = <<>> THEN 0 ELSE s[Len(s)]) ELSE v),
           <<>>, values)

\* The same from the back, for maxima (the first one is compared with no other).
LevelledMaxs(values, threshold) ==
  Reverse(FoldLeft(LAMBDA s, v : Append(s, IF s # <<>> /\ PercDiff(v, s[Len(s)], threshold)
                                           THEN s[Len(s)] ELSE v),
                   <<>>, Reverse(values)))

\* Ranges only grow.
LevelledRanges(values, threshold) ==
  FoldLeft(LAMBDA s, v : Append(s, IF s # <<>> /\ v < s[Len(s)] /\ PercDiff(v, s[Len(s)], threshold)
                                   THEN s[Len(s)] ELSE v),
           <<>>, values)

\* zero_min: minima are 0 as long as that does not cost bits.
ZeroMins(mins, maxs) ==
  FoldLeft(LAMBDA s, i :
             Append(s, IF (s = <<>> \/ s[Len(s)] = 0)
                          /\ BitsFor(maxs[i] - mins[i]) = BitsFor(maxs[i]) THEN 0 ELSE mins[i]),
           <<>>, [i \in 1 .. Len(mins) |-> i])

\* The minima and the ranges, as encode computes them.
Fit(values, opt) ==
  LET maxs == IF opt.wt THEN LevelledMaxs(Maxs(values), opt.threshold) ELSE Maxs(values)
      levelled == Levelled(Mins(values), opt.threshold)
      mins == IF opt.zero_min THEN ZeroMins(levelled, maxs) ELSE levelled
      ranges == [i \in 1 .. Len(values) |-> maxs[i] - mins[i]]
      Fitted == Reverse(LevelledRanges(Reverse(ranges), opt.threshold))
  IN  [mins |-> mins,
       ranges |-> IF opt.wt THEN LevelledRanges(Fitted, opt.threshold) ELSE ranges]

\* The bits of every range, in an element of six bits.
RangeBits(ranges) == [i \in 1 .. Len(ranges) |-> BitsFor(ranges[i]) % 64]

\* Chunks of equal ranges: the number of elements behind which each ends.
ChunkEnds(ranges) ==
  SelectSeq([i \in 1 .. Len(ranges) |-> i],
            LAMBDA i : i = Len(ranges) \/ ranges[i] # ranges[i + 1])
ChunkSize(ends, k) == ends[k] - (IF k = 1 THEN 0 ELSE ends[k - 1])

\* A level of a chunk without the zeros at its end, after their number.
TrailingZeros(level) ==
  Len(level) - Max({0} \cup {i \in 1 .. Len(level) : level[i] = 1})
EncodeLevel(level) ==
  Ints(<<TrailingZeros(level)>>, BitsFor(Len(level)))
  \o Fields(BitCode, SubSeq(level, 1, Len(level) - TrailingZeros(level)))

EncodeChunk(offsets, range) ==
  LET levels == MakeWT(offsets, range)
  IN  FlattenSeq([d \in 1 .. Len(levels) |-> EncodeLevel(levels[d])])

\* CHECK_EQ of both encode_unary_diff.
RangeFitChecks(fit, opt, bits) ==
  /\ UnaryChecks(fit.mins, bits, bits, FALSE)
  /\ IF opt.wt THEN UnaryChecks(fit.ranges, bits, bits, TRUE)
     ELSE UnaryChecks(RangeBits(fit.ranges), bits, 64, TRUE)

EncodeRangeFit(values, fit, opt, bits) ==
  LET offsets == [i \in 1 .. Len(values) |-> values[i] - fit.mins[i]]
      ends == ChunkEnds(fit.ranges)
      width == RangeBits(fit.ranges)
  IN  EncodeUnaryDiff(fit.mins, bits, bits, FALSE)
      \o (IF opt.wt
          THEN EncodeUnaryDiff(fit.ranges, bits, bits, TRUE)
               \o FlattenSeq([k \in 1 .. Len(ends) |->
                    EncodeChunk(SubSeq(offsets, ends[k] - ChunkSize(ends, k) + 1, ends[k]),
                                fit.ranges[ends[k]])])
          ELSE EncodeUnaryDiff(width, bits, 64, TRUE)
               \o [i \in 1 .. Len(values) |-> Ints(<<offsets[i]>>, width[i])[1]])

\* A chunk of n elements: the levels are filled up with zeros.
DecodeChunk(wire, p, n, range) ==
  LET depth == IF range = 0 THEN 0 ELSE BitsFor(range)
      L[d \in 0 .. depth] ==
        IF d = 0 THEN [levels |-> <<>>, next |-> p]
        ELSE LET st == L[d - 1]
                 zeros == FieldAt(wire, st.next, IntCode(BitsFor(n)))
                 level == FieldsAt(wire, st.next + 1, n - zeros, BitCode)
             IN  [levels |-> Append(st.levels, level \o [i \in 1 .. zeros |-> 0]),
                  next |-> st.next + 1 + n - zeros]
  IN  [v |-> RecoverWT(L[depth].levels, n), next |-> L[depth].next]

DecodeChunks(wire, p, ranges) ==
  LET ends == ChunkEnds(ranges)
      C[k \in 0 .. Len(ends)] ==
        IF k = 0 THEN [v |-> <<>>, next |-> p]
        ELSE LET st == C[k - 1]
                 c == DecodeChunk(wire, st.next, ChunkSize(ends, k), ranges[ends[k]])
             IN  [v |-> st.v \o c.v, next |-> c.next]
  IN  C[Len(ends)]

DecodeRangeFit(wire, p, n, opt, bits) ==
  LET Ranges(from) == DecodeUnaryDiff(wire, from, n, bits, IF opt.wt THEN bits ELSE 64, TRUE)
      Offsets(ranges) ==
        IF opt.wt THEN DecodeChunks(wire, ranges.next, ranges.v)
        ELSE [v |-> [i \in 1 .. n |-> FieldAt(wire, ranges.next + i - 1, IntCode(ranges.v[i]))],
              next |-> ranges.next + n]
      Sum(mins, offsets) ==
        [v |-> [i \in 1 .. n |-> offsets.v[i] + mins.v[i]], next |-> offsets.next]
  IN  The({The({The({Sum(mins, offsets) : offsets \in {Offsets(ranges)}})
                : ranges \in {Ranges(mins.next)}})
           : mins \in {DecodeUnaryDiff(wire, p, n, bits, bits, FALSE)}})
-----------------------------------------------------------------------------
\* encode and decode of a d_coding other than succinct.
EncodeD(d, values, bits, maxValue) ==
  CASE d.kind = "plain" -> Ints(values, bits)
    [] d.kind = "huffman" -> EncodeHuff(values)
    [] d.kind = "wavelet_tree" -> EncodeWT(values, maxValue)
    [] d.kind = "diff" -> EncodeUnaryDiff(values, bits, bits, TRUE)
    [] d.kind = "range_fit" -> EncodeRangeFit(values, Fit(values, d), d, bits)

DecodeD(d, wire, p, n, bits) ==
  CASE d.kind = "plain" -> [v |-> FieldsAt(wire, p, n, IntCode(bits)), next |-> p + n]
    [] d.kind = "huffman" -> DecodeHuff(wire, p, n)
    [] d.kind = "wavelet_tree" -> DecodeWT(wire, p, n)
    [] d.kind = "diff" -> DecodeUnaryDiff(wire, p, n, bits, bits, TRUE)
    [] d.kind = "range_fit" -> DecodeRangeFit(wire, p, n, d, bits)

\* The checks of an encoder that abort the program when they do not hold.
EncodeChecks(d, values, bits) ==
  CASE d.kind = "diff" -> UnaryChecks(values, bits, bits, TRUE)
    [] d.kind = "range_fit" -> RangeFitChecks(Fit(values, d), d, bits)
    [] OTHER -> TRUE
-----------------------------------------------------------------------------
(* The straight-line program.                                              *)

Bytes == 256   \* GRAMMAR_PD_ELLIDED_PREFIX

\* derive_text_rec
Derivations(rules) ==
  LET D[s \in 0 .. Bytes + Len(rules) - 1] ==
        IF s < Bytes THEN <<s>> ELSE D[rules[s - Bytes + 1][1]] \o D[rules[s - Bytes + 1][2]]
  IN  D

\* derive_text
DeriveText(slp) == IF slp.empty THEN <<>> ELSE Derivations(slp.rules)[slp.root]

\* slp_dep_sort: breadth first through the forest in which the parent of a rule is
\* its left symbol; the rules are numbered in the order in which they are met.
ByLeftSymbol(rules) ==
  LET Left(c) == rules[c - Bytes + 1][1]
      Place(level, c) == CHOOSE i \in DOMAIN level : level[i] = Left(c)
      Below(level) ==
        SortSeq(SelectSeq([k \in 1 .. Len(rules) |-> Bytes + k - 1],
                          LAMBDA c : Left(c) \in ToSet(level)),
                LAMBDA c, e : \/ Place(level, c) < Place(level, e)
                              \/ Left(c) = Left(e) /\ c < e)
      Level[d \in 0 .. Len(rules)] ==
        IF d = 0 THEN [s \in 1 .. Bytes |-> s - 1] ELSE Below(Level[d - 1])
  IN  FlattenSeq([d \in 1 .. Len(rules) |-> Level[d]])

\* Mutant: only the left symbols, by which the rules are sorted, are renamed.
LeftRenamed(slp, order) ==
  LET New(s) == IF s < Bytes THEN s ELSE Bytes - 1 + CHOOSE k \in 1 .. Len(order) : order[k] = s
  IN  [slp EXCEPT !.root = New(@),
                  !.rules = [k \in 1 .. Len(order) |->
                               <<New(slp.rules[order[k] - Bytes + 1][1]),
                                 slp.rules[order[k] - Bytes + 1][2]>>]]

Renamed(slp, order) ==
  LET New(s) == IF s < Bytes THEN s ELSE Bytes - 1 + CHOOSE k \in 1 .. Len(order) : order[k] = s
  IN  [slp EXCEPT !.root = New(@),
                  !.rules = [k \in 1 .. Len(order) |->
                               <<New(slp.rules[order[k] - Bytes + 1][1]),
                                 New(slp.rules[order[k] - Bytes + 1][2])>>]]

DepSorted(slp) ==
  CHOOSE s \in {Renamed(slp, order) : order \in {ByLeftSymbol(slp.rules)}} : TRUE
-----------------------------------------------------------------------------
MaxVal(slp) == Len(slp.rules) + Bytes - 1
BitWidth(slp) == IF slp.empty THEN 0 ELSE BitsFor(MaxVal(slp))
LeftSides(slp) == [k \in 1 .. Len(slp.rules) |-> slp.rules[k][1]]
RightSides(slp) == [k \in 1 .. Len(slp.rules) |-> slp.rules[k][2]]

\* PlainSLPCoder
EncodePlainSLP(slp) ==
  Ints(<<BitWidth(slp)>>, 6)
  \o Ints(<<slp.root>> \o FlattenSeq(slp.rules), BitWidth(slp))

DecodePlainSLP(wire) ==
  LET bits == FieldAt(wire, 0, IntCode(6))
      At(p) == FieldAt(wire, p, IntCode(bits))
  IN  [empty |-> bits = 0, root |-> At(1),
       rules |-> [k \in 1 .. (Len(wire) - 1) \div 2 |-> <<At(2 * k), At(2 * k + 1)>>]]

\* SortedSLPCoder, up to the right hand sides.
EncodeSortedHeader(slp) ==
  Ints(<<BitWidth(slp)>>, 6) \o Ints(<<MaxVal(slp), slp.root>>, BitWidth(slp))
EncodeLeftSides(slp) == Fields(UnaryCode, Gaps(LeftSides(slp)))

\* Nothing follows the header of a program that is empty or a single byte.
OnlyHeader(slp) == slp.empty \/ slp.root < Bytes

\* DMonotonSubseq: the values in their order, the kinds of the subsequences, and
\* for every value, by its place and by its position, the subsequence it is in.
EncodeSuccinct(d, values, sis, dpi, b) ==
  Fields(UnaryCode, Gaps([i \in 1 .. Len(values) |-> values[sis[i] + 1]]))
  \o Fields(VByteCode, <<Len(b)>>) \o Fields(BitCode, b)
  \o EncodeD(d, dpi \o Dsigma(sis, dpi), BitsFor(Len(b) - 1), Len(b) - 1)

\* Where the right hand sides of n rules, or for succinct the numbers of the
\* subsequences of their 2n places, are on the wire.
RightSidesAt(d, wire, n, bits) ==
  IF d.kind = "succinct"
  THEN LET size == FieldAt(wire, 3 + 2 * n, VByteCode)
       IN  [d |-> d.dx, subseqs |-> size, from |-> 4 + 2 * n + size, count |-> 2 * n,
            bits |-> BitsFor(size - 1)]
  ELSE [d |-> d, subseqs |-> 0, from |-> 3 + n, count |-> n, bits |-> bits]

DecodeSuccinct(wire, n, size, both) ==
  RecoverD(SubSeq(both, 1, n), SubSeq(both, n + 1, 2 * n),
           FieldsAt(wire, 4 + 2 * n, size, BitCode),
           Sums(FieldsAt(wire, 3 + n, n, UnaryCode)))

DecodeRightSides(d, wire, n, at) ==
  The({IF d.kind = "succinct" THEN DecodeSuccinct(wire, n, at.subseqs, r.v) ELSE r.v
       : r \in {DecodeD(at.d, wire, at.from, at.count, at.bits)}})

DecodeRules(d, wire, n, bits) ==
  LET Rules(lhs, rhs) == [k \in 1 .. n |-> <<lhs[k], rhs[k]>>]
  IN  The({The({Rules(Sums(FieldsAt(wire, 3, n, UnaryCode)), rhs)
                : rhs \in {DecodeRightSides(d, wire, n, at)}})
           : at \in {RightSidesAt(d, wire, n, bits)}})

DecodeSortedSLP(d, wire) ==
  LET Program(bits, maxVal, root) ==
        [empty |-> bits = 0, root |-> root,
         rules |-> IF bits = 0 \/ root < Bytes THEN <<>>
                   ELSE The({DecodeRules(d, wire, n, bits) : n \in {maxVal + 1 - Bytes}})]
  IN  The({Program(bits, FieldAt(wire, 1, IntCode(bits)), FieldAt(wire, 2, IntCode(bits)))
           : bits \in {FieldAt(wire, 0, IntCode(6))}})
=============================================================================
