---------------------------- MODULE LZSSFactors -----------------------------
(***************************************************************************)
(* compressors/lzss: the factors [pos, src, len] of a text, their sorting  *)
(* and flattening (LZSSFactors.hpp), and their coding together with the    *)
(* literals between them (LZSSCoding.hpp).  Positions count from 0; a      *)
(* stream is the bits the binary coder writes (RangeCoder).                *)
(***************************************************************************)
EXTENDS RangeCoder, FiniteSets, SequencesExt

Span(f) == f.pos .. f.pos + f.len - 1

\* FactorBuffer::sort: by position, each behind as many as come before it.
Sorted(factors) ==
  LET Before(i) == {j \in DOMAIN factors : \/ factors[j].pos < factors[i].pos
                                           \/ factors[j].pos = factors[i].pos /\ j < i}
      ranked == {<<Cardinality(Before(i)) + 1, i>> : i \in DOMAIN factors}
  IN  [k \in DOMAIN factors |-> factors[CHOOSE i \in DOMAIN factors : <<k, i>> \in ranked]]

\* fmap: the factor that covers a position, the last one if there are several.
Covering(factors, p) == {i \in 1 .. Len(factors) : p \in Span(factors[i])}
LastOf(in) == CHOOSE i \in in : \A j \in in : j <= i

\* Mutant: a source may run over the end of the factor it falls into.
ResolvedOver(factors, f) ==
  LET R[src \in Nat] ==
        LET in == Covering(factors, src)
        IN  IF in = {} THEN src
            ELSE LET s == factors[LastOf(in)]
                 IN  R[s.src + src - s.pos]
  IN  R[f.src]

\* flatten: follow the source of f as long as it lies in one other factor.
Resolved(factors, f) ==
  LET R[src \in Nat] ==
        LET in == Covering(factors, src)
        IN  IF in = {} THEN src
            ELSE LET s == factors[LastOf(in)]
                     d == src - s.pos
                 IN  IF d + f.len <= s.len THEN R[s.src + d] ELSE src
  IN  R[f.src]

\* FactorBuffer::flatten: in order, each with the factors before it flattened.
Flattened(factors) ==
  LET F[i \in 0 .. Len(factors)] ==
        IF i = 0 THEN factors
        ELSE LET fs == F[i - 1] IN [fs EXCEPT ![i].src = Resolved(fs, fs[i])]
  IN  F[Len(factors)]

-----------------------------------------------------------------------------
(* Coding *)

IndexMax == 2147483647   \* INDEX_MAX: the length of the shortest of no factors

SmallestLen(factors) ==
  IF factors = <<>> THEN IndexMax
  ELSE CHOOSE l \in {factors[i].len : i \in 1 .. Len(factors)} :
         \A i \in 1 .. Len(factors) : l <= factors[i].len
LargestLen(factors) ==
  IF factors = <<>> THEN 0
  ELSE CHOOSE l \in {factors[i].len : i \in 1 .. Len(factors)} :
         \A i \in 1 .. Len(factors) : l >= factors[i].len

\* The end of the i-th factor; of the 0-th, the start of the text.
End(factors, i) == IF i = 0 THEN 0 ELSE factors[i].pos + factors[i].len

\* fdist_max: the longest run of literals.
LongestGap(factors, n) ==
  LET gaps == {factors[i].pos - End(factors, i - 1) : i \in 1 .. Len(factors)}
                \cup {n - End(factors, Len(factors))}
  IN  CHOOSE g \in gaps : \A h \in gaps : g >= h

Bits(v, max) == Encoded(TRUE, v, max)

\* encode_text: the ranges, then the literals before each factor and the
\* factor, then the rest.  `top` is the largest literal; len_r needs no width
\* of its own here.
EncodedText(text, factors, top, lenMax) ==
  LET n == Len(text)
      min == SmallestLen(factors)
      max == LargestLen(factors)
      gap == LongestGap(factors, n)
      Literals(a, b) == FlattenSeq([i \in 1 .. b - a |-> Bits(text[a + i], top)])
      Run(a, b) ==
        IF a = b THEN Bits(0, 1) ELSE Bits(1, 1) \o Bits(b - a, gap) \o Literals(a, b)
      Item(i) ==
        Run(End(factors, i - 1), factors[i].pos)
          \o Bits(factors[i].src, n) \o Bits(factors[i].len - min, max - min)
  IN  Bits(n, lenMax) \o Bits(min, n) \o Bits(max, n) \o Bits(gap, n)
        \o FlattenSeq([i \in 1 .. Len(factors) |-> Item(i)])
        \o (IF End(factors, Len(factors)) < n THEN Run(End(factors, Len(factors)), n) ELSE <<>>)

\* decode_text: the ranges ...
DecodedRanges(wire, lenMax) ==
  LET n == Decoded(TRUE, wire, 0, lenMax)
      min == Decoded(TRUE, wire, n.next, n.v)
      max == Decoded(TRUE, wire, min.next, n.v)
      gap == Decoded(TRUE, wire, max.next, n.v)
  IN  [n |-> n.v, min |-> min.v, max |-> max.v, gap |-> gap.v, pos |-> gap.next]

\* ... and one round of its loop: the literals, and the factor behind them
\* unless the stream has ended.
DecodedItem(wire, r, top) ==
  LET flag == Decoded(TRUE, wire, r.pos, 1)
      run == IF flag.v = 1 THEN Decoded(TRUE, wire, flag.next, r.gap)
                           ELSE [v |-> 0, next |-> flag.next]
      L[i \in 0 .. run.v] ==   \* the literals so far and the position
        IF i = 0 THEN [lits |-> <<>>, next |-> run.next]
        ELSE LET before == L[i - 1]
                 c == Decoded(TRUE, wire, before.next, top)
             IN  [lits |-> Append(before.lits, c.v), next |-> c.next]
      lits == L[run.v]
      src == Decoded(TRUE, wire, lits.next, r.n)
      len == Decoded(TRUE, wire, src.next, r.max - r.min)
  IN  IF lits.next >= Len(wire)
      THEN [lits |-> lits.lits, factor |-> <<>>, pos |-> lits.next]
      ELSE [lits |-> lits.lits,
            factor |-> <<[src |-> src.v, len |-> r.min + len.v]>>,
            pos |-> len.next]
=============================================================================
