------------------------------- MODULE LZ78U --------------------------------
(***************************************************************************)
(* LZ78UCompressor: LZ78 whose new factor reaches to the next node of the  *)
(* suffix tree, so that it may be longer than the old one by a whole edge. *)
(* A long edge label is coded by the factors it begins with.  The tree is  *)
(* sdsl's, wrapped by lz78u/SuffixTree.hpp: its inner nodes are strings,   *)
(* and on the way to a suffix a node is known by its string depth.         *)
(***************************************************************************)
EXTENDS CodedText

Width == INSTANCE RangeCoder

At(text, p) == text[p + 1]

\* The string depths of the nodes on the way from the root to the leaf of the
\* suffix at pos, the leaf not among them: level_anc(leaf, d) is entry d + 1.
Path(text, inner, pos) ==
  Sorted({d \in 0 .. Len(text) - pos - 1 : Slice(text, pos, d) \in inner})
NodeAt(text, pos, d) == Slice(text, pos, d)

\* R keeps as many bits of a factor number as max_z has.
NumberBits(text) == Width!BitsFor((Len(text) * Width!BitsFor(Cardinality(ToSet(text)))) \div Width!BitsFor(Len(text)))

\* How far the walk from the root comes through nodes that have a factor: the
\* number of such nodes below the root.
Walked(text, R, path, pos) ==
  Max({k \in 0 .. Len(path) - 1 : \A i \in 2 .. k + 1 : R[NodeAt(text, pos, path[i])] # 0})

\* The label without the 0 at the end of the text.
LabelEnd(text, b, e) == IF e > b /\ At(text, e - 1) = 0 THEN e - 1 ELSE e

\* The surplus of the last factor left in.
SubFactorsUncut(text, inner, R, b, e, threshold, range) ==
  LET Depth(pos) == LET path == Path(text, inner, pos)
                    IN  path[Walked(text, R, path, pos) + 1]
      Part(pos, d) ==
        IF d < threshold THEN <<Code(0, BitR), Code(At(text, pos), LiteralR)>>
        ELSE <<Code(1, BitR), Code(R[NodeAt(text, pos, d)], range)>>
      S[pos \in Nat] ==
        IF pos >= e THEN <<Code(0, BitR), Code(0, LiteralR)>>
        ELSE LET d == Depth(pos) IN Part(pos, d) \o S[pos + (IF d < threshold THEN 1 ELSE d)]
  IN  S[b]

\* The factorized label: factors long enough by their number, everything else
\* symbol by symbol; the last factor may reach beyond the label, and 0 and the
\* surplus say so.
SubFactors(text, inner, R, b, e, threshold, range) ==
  LET Depth(pos) == LET path == Path(text, inner, pos)
                    IN  path[Walked(text, R, path, pos) + 1]
      Part(pos, d) ==
        IF d < threshold THEN <<Code(0, BitR), Code(At(text, pos), LiteralR)>>
        ELSE <<Code(1, BitR), Code(R[NodeAt(text, pos, d)], range)>>
             \o IF pos + d > e THEN <<Code(1, BitR), Code(0, range), Code(pos + d - e, LengthR)>>
                ELSE <<>>
      S[pos \in Nat] ==
        IF pos >= e THEN <<Code(0, BitR), Code(0, LiteralR)>>
        ELSE LET d == Depth(pos) IN Part(pos, d) \o S[pos + (IF d < threshold THEN 1 ELSE d)]
  IN  S[b]

\* output: a factor as its reference and its label
OutputFactor(text, inner, R, b, e, ref, threshold, count) ==
  LET end == LabelEnd(text, b, e)
  IN  <<Code(ref, count)>>
      \o IF end - b >= threshold
         THEN <<Code(0, BitR)>> \o SubFactors(text, inner, R, b, end, threshold, count)
         ELSE <<Code(1, BitR)>> \o [k \in 1 .. end - b |-> Code(At(text, b + k - 1), LiteralR)]
              \o <<Code(0, LiteralR)>>

\* BufferingStrategy: three vectors and the order in which to take from them
\* when the strategy is destroyed; a StreamingStrategy writes at once.
Buffered(tape) ==
  LET Kind(c) == CASE c.r = BitR -> 1 [] c.r = LiteralR -> 2 [] OTHER -> 0
  IN  [stream |-> [i \in DOMAIN tape |-> Kind(tape[i])],
       items |-> [k \in 0 .. 2 |-> SelectSeq(tape, LAMBDA c : Kind(c) = k)]]
Flushed(buffer) ==
  LET Take(i) == Cardinality({j \in 1 .. i : buffer.stream[j] = buffer.stream[i]})
  IN  [i \in DOMAIN buffer.stream |-> buffer.items[buffer.stream[i]][Take(i)]]
-----------------------------------------------------------------------------
\* ref_at, str_at: the factors read so far, <<reference, label>>
\* What a factor stands for: the labels along its references.
FactorString(factors, ref, label) ==
  LET F[r \in Nat] == IF r = 0 THEN <<>> ELSE F[factors[r][1]] \o factors[r][2]
  IN  F[ref] \o label

\* The symbols of a label from position p on, until a 0.
ReadLabel(tape, p) ==
  LET end == CHOOSE q \in p .. Len(tape) + 1 :
               /\ q > Len(tape) \/ Read(tape, q, LiteralR) = 0
               /\ \A o \in p .. q - 1 : Read(tape, o, LiteralR) # 0
  IN  [label |-> [k \in 1 .. end - p |-> Read(tape, p + k - 1, LiteralR)], p |-> end + 1]

\* rebuilt_buffer: symbols and factors are appended, a 0 for a reference cuts
\* off the surplus, a 0 as last symbol ends it.
Rebuild(tape, factors, from) ==
  LET count == Len(factors)
      B[p \in Nat, got \in Seq(Nat)] ==
        IF got # <<>> /\ got[Len(got)] = 0
        THEN [label |-> SubSeq(got, 1, Len(got) - 1), p |-> p]
        ELSE IF p > Len(tape) THEN [label |-> got, p |-> p]
        ELSE IF Read(tape, p, BitR) = 0 THEN B[p + 2, Append(got, Read(tape, p + 1, LiteralR))]
        ELSE LET r == Read(tape, p + 1, count)
             IN  IF r = 0
                 THEN B[p + 3, SubSeq(got, 1, Len(got) - Read(tape, p + 2, LengthR))]
                 ELSE B[p + 2, got \o FactorString(factors, r, <<>>)]
  IN  B[from, <<>>]

\* One factor read from position p on.
ReadFactor(tape, factors, p) ==
  LET ref == Read(tape, p, Len(factors))
      body == IF Read(tape, p + 1, BitR) = 1 THEN ReadLabel(tape, p + 2)
              ELSE Rebuild(tape, factors, p + 2)
  IN  [ref |-> ref, label |-> body.label, p |-> body.p]
ReadFactors(tape) ==
  LET D[p \in Nat, factors \in Seq(Nat \X Seq(Nat))] ==
        IF p > Len(tape) THEN factors
        ELSE LET f == ReadFactor(tape, factors, p) IN D[f.p, Append(factors, <<f.ref, f.label>>)]
  IN  D[1, <<>>]
DecodeLz78u(tape) ==
  LET factors == ReadFactors(tape)
  IN  Append(Flat(Len(factors), LAMBDA i : FactorString(factors, factors[i][1], factors[i][2])), 0)
=============================================================================
