----------------------------- MODULE RangeCoder -----------------------------
(***************************************************************************)
(* Coder.hpp as the compressors use it: encode(v, r) on one side, decode(r) *)
(* on the other.  The binary coder writes as many bits as the range needs, *)
(* so both sides must agree on the range; the universal coders (gamma,     *)
(* delta, ...; IntegerCodes) ignore it, and a codeword of theirs is one    *)
(* symbol of the wire.  `binary` tells which it is.  Ranges start at 0 and  *)
(* are given by their maximum.                                             *)
(***************************************************************************)
EXTENDS Integers, Sequences

\* bits_for
BitsFor(v) == IF v = 0 THEN 1 ELSE CHOOSE n \in 1 .. 64 : 2 ^ (n - 1) <= v /\ v < 2 ^ n

\* What encode(v, Range(max)) appends to the wire.
Encoded(binary, v, max) ==
  IF binary
  THEN [i \in 1 .. BitsFor(max) |-> (v \div 2 ^ (BitsFor(max) - i)) % 2]
  ELSE <<v>>

\* What decode(Range(max)) reads behind pos, and where it stops.  Behind its
\* end a bit stream yields zeros.
Decoded(binary, wire, pos, max) ==
  LET Bit(i) == IF i <= Len(wire) THEN wire[i] ELSE 0
      V[n \in 0 .. BitsFor(max)] == IF n = 0 THEN 0 ELSE 2 * V[n - 1] + Bit(pos + n)
      end == pos + BitsFor(max)
  IN  IF binary
      THEN [v |-> V[BitsFor(max)], next |-> IF end <= Len(wire) THEN end ELSE Len(wire)]
      ELSE [v |-> wire[pos + 1], next |-> pos + 1]
=============================================================================
