----------------------------- MODULE CodedText ------------------------------
(***************************************************************************)
(* What the grammar compressors hand to their coders: a sequence of values,*)
(* each with the range it is coded in.  What a coder makes of a value is   *)
(* the matter of Coders; here a decoder that asks for another range than   *)
(* the one the value was coded in reads Garbage.                           *)
(***************************************************************************)
EXTENDS Integers, SequencesExt, FiniteSetsExt

\* bit_r, literal_r and len_r, or Range(0, UINT_MAX); r >= 0 is Range(r)
BitR == -1
LiteralR == -2
LengthR == -3
LiteralMax == 255
Code(v, r) == [v |-> v, r |-> r]
MaxOf(r) == CASE r = BitR -> 1 [] r = LiteralR -> LiteralMax [] r = LengthR -> 2 ^ 30 [] OTHER -> r
Fits(code) == code.v \in 0 .. MaxOf(code.r)

Garbage == 0
Read(tape, p, r) == IF p \in DOMAIN tape /\ tape[p].r = r THEN tape[p].v ELSE Garbage

\* A symbol of a right-hand side: a bit, and a literal or the number of a rule.
Literal(c) == <<Code(0, BitR), Code(c, LiteralR)>>
Symbol(number, r) == <<Code(1, BitR), Code(number, r)>>
IsSymbol(tape, p) == Read(tape, p, BitR) = 1

\* text[first .. first + n - 1], positions from 0
Slice(text, first, n) == SubSeq(text, first + 1, first + n)
Sorted(S) == IF S = {} THEN <<>> ELSE [i \in 1 .. Cardinality(S) |->
               CHOOSE x \in S : Cardinality({y \in S : y < x}) = i - 1]
Flat(n, Part(_)) == FoldLeft(LAMBDA s, i : s \o Part(i), <<>>, [i \in 1 .. n |-> i])
=============================================================================
