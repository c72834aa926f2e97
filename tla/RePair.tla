------------------------------- MODULE RePair -------------------------------
(***************************************************************************)
(* RePairCompressor: as long as some pair of neighbours occurs twice, the  *)
(* most frequent pair becomes a rule and is replaced.  The list that       *)
(* `next' threads through the text is the sequence of its symbols; a symbol*)
(* from sigma on names a rule.                                             *)
(***************************************************************************)
EXTENDS CodedText

sigma == 256

\* The positions where the pair at i starts, overlapping ones too.
DigramAt(syms, i) == <<syms[i], syms[i + 1]>>
Places(syms, di) == {i \in 1 .. Len(syms) - 1 : DigramAt(syms, i) = di}
CountOf(syms, di) == Cardinality(Places(syms, di))

\* max: a pair that gets ahead of all others stays in front until another one
\* is counted more often, so it is the first to reach the highest count.
MaxDigram(syms) ==
  LET digrams == {DigramAt(syms, i) : i \in 1 .. Len(syms) - 1}
      count == [di \in digrams |-> CountOf(syms, di)]
      last == [di \in digrams |-> Max(Places(syms, di))]
      best == {di \in digrams : \A e \in digrams : count[e] <= count[di]}
  IN  CHOOSE di \in best : \A e \in best : last[di] <= last[e]
MaxCount(syms) ==
  IF Len(syms) < 2 THEN 0 ELSE CountOf(syms, MaxDigram(syms))

\* From left to right; what was just replaced is not looked at again.
Replace(syms, di, new) ==
  LET R[i \in Nat] ==
        IF i > Len(syms) THEN <<>>
        ELSE IF i < Len(syms) /\ DigramAt(syms, i) = di THEN <<new>> \o R[i + 2]
        ELSE <<syms[i]>> \o R[i + 1]
  IN  R[1]

\* encode_sym
EncodeSym(x, r) == IF x < sigma THEN Literal(x) ELSE Symbol(x - sigma, r)
EncodeRePair(syms, grammar) ==
  <<Code(Len(grammar), LengthR)>>
  \o Flat(Len(grammar), LAMBDA i : EncodeSym(grammar[i][1], i - 1) \o EncodeSym(grammar[i][2], i - 1))
  \o Flat(Len(syms), LAMBDA i : EncodeSym(syms[i], Len(grammar)))

\* Literals: the symbols of the text cut to a byte, names of rules included,
\* then the literals of the right-hand sides.
RePairLiterals(syms, grammar) ==
  {x % sigma : x \in ToSet(syms)}
  \cup {x \in UNION {ToSet(grammar[i]) : i \in DOMAIN grammar} : x < sigma}

\* decode: what a symbol stands for
Expansion(grammar, x) ==
  LET X[y \in Nat] == IF y < sigma THEN <<y>>
                      ELSE X[grammar[y - sigma + 1][1]] \o X[grammar[y - sigma + 1][2]]
  IN  X[x]
Expand(grammar, syms) == Flat(Len(syms), LAMBDA i : Expansion(grammar, syms[i]))

\* Symbol k of the code, two values each: the rules, two symbols each, then the
\* text until the end of the input.
DecodeRePair(tape) ==
  LET rules == Read(tape, 1, LengthR)
      RangeOf(k) == IF k <= 2 * rules THEN (k - 1) \div 2 ELSE rules
      Sym(k) == IF IsSymbol(tape, 2 * k) THEN sigma + Read(tape, 2 * k + 1, RangeOf(k))
                ELSE Read(tape, 2 * k + 1, LiteralR)
      grammar == [i \in 1 .. rules |-> <<Sym(2 * i - 1), Sym(2 * i)>>]
      count == (Len(tape) - 1) \div 2 - 2 * rules
  IN  Expand(grammar, [k \in 1 .. count |-> Sym(2 * rules + k)])
=============================================================================
