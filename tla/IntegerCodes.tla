---------------------------- MODULE IntegerCodes ----------------------------
(***************************************************************************)
(* The integer codes of io/BitOStream.hpp and io/BitIStream.hpp, and the   *)
(* coders built on them (Coder.hpp, coders/EliasGammaCoder.hpp, ...).      *)
(*                                                                         *)
(* An encoder and a decoder share a bit stream (BitStream shows that it    *)
(* delivers the bits) and the sequence of codes, not the lengths: every    *)
(* code must delimit itself.  Integers are Width bits wide.  The machine   *)
(* that writes and reads them is Coders.                                   *)
(***************************************************************************)
EXTENDS Integers, Sequences, SequencesExt

CONSTANTS Width,        \* the width of the value types
          BlockWidths,  \* block widths used with write_compressed_int
          Ranges        \* ranges [min, max] used with encode(v, Range)

ASSUME WidthAssumption == Width \in Nat \ {0}

MaxValue == 2 ^ Width - 1
Values == 0 .. MaxValue

\* A code is its kind with a parameter: a block width, or a range.
Codes == {<<k>> : k \in {"unary", "ternary", "gamma", "delta", "ascii", "bit"}}
         \cup {<<"compressed", b>> : b \in BlockWidths}
         \cup {<<"range", r>> : r \in Ranges}

\* The values a code may be asked to write.
Encodable(code) ==
  IF code[1] = "range" THEN code[2].min .. code[2].max
  ELSE IF code[1] = "bit" THEN {0, 1} ELSE Values

\* bits_for
BitsFor(v) == IF v = 0 THEN 1 ELSE CHOOSE n \in 1 .. 64 : 2 ^ (n - 1) <= v /\ v < 2 ^ n

\* The digits of v in the given base, least significant first; at least one.
Digits(base, v) ==
  LET D[n \in Nat] == IF n < base THEN <<n>> ELSE <<n % base>> \o D[n \div base]
  IN  D[v]

\* The integer with these digits (least significant first), and what of it
\* remains in a type of Width bits.
Number(base, digits) ==
  LET N[i \in 1 .. Len(digits) + 1] ==
        IF i > Len(digits) THEN 0 ELSE digits[i] + base * N[i + 1]
  IN  N[1]
Value(base, digits) == Number(base, digits) % 2 ^ Width
-----------------------------------------------------------------------------
(* The writer *)

WriteInt(v, bits) == [i \in 1 .. bits |-> (v \div 2 ^ (bits - i)) % 2]
WriteUnary(v) == [i \in 1 .. v |-> 0] \o <<1>>

\* Base 3 digits of v - 1 in two bits each, none for 0, then the terminator 11.
WriteTernary(v) ==
  LET digits == IF v = 0 THEN <<>> ELSE Digits(3, v - 1)
  IN  FlattenSeq([i \in DOMAIN digits |-> WriteInt(digits[i], 2)]) \o <<1, 1>>

WriteEliasGamma(v) == WriteUnary(BitsFor(v)) \o WriteInt(v, BitsFor(v))
WriteEliasDelta(v) == WriteEliasGamma(BitsFor(v)) \o WriteInt(v, BitsFor(v))

\* Blocks of b bits, each after a flag that tells whether another one follows.
WriteCompressedInt(v, b) ==
  LET blocks == Digits(2 ^ b, v)
      Flag(i) == IF i < Len(blocks) THEN 1 ELSE 0
  IN  FlattenSeq([i \in DOMAIN blocks |-> <<Flag(i)>> \o WriteInt(blocks[i], b)])

\* Decimal characters, terminated by a colon.
Colon == 58
WriteAscii(v) ==
  LET digits == Reverse(Digits(10, v))
  IN  FlattenSeq([i \in DOMAIN digits |-> WriteInt(48 + digits[i], 8)]) \o WriteInt(Colon, 8)

\* Encoder::encode
Encoded(code, v) ==
  CASE code[1] = "unary" -> WriteUnary(v)
    [] code[1] = "ternary" -> WriteTernary(v)
    [] code[1] = "gamma" -> WriteEliasGamma(v)
    [] code[1] = "delta" -> WriteEliasDelta(v)
    [] code[1] = "ascii" -> WriteAscii(v)
    [] code[1] = "bit" -> <<v>>
    [] code[1] = "compressed" -> WriteCompressedInt(v, code[2])
    [] code[1] = "range" ->
         WriteInt(v - code[2].min, BitsFor(code[2].max - code[2].min))
-----------------------------------------------------------------------------
(* The reader: each result is the integer and the position behind it.      *)

BitsAt(wire, p, bits) ==
  LET V[i \in 0 .. bits] == IF i = 0 THEN 0 ELSE 2 * V[i - 1] + wire[p + i]
  IN  V[bits]

\* read_int
ReadInt(wire, p, bits) == [v |-> BitsAt(wire, p, bits) % 2 ^ Width, next |-> p + bits]

\* The first group of step bits at or after p at which Stops holds.
FirstGroup(wire, p, step, Stops(_)) ==
  Min({k \in 0 .. (Len(wire) - p) \div step - 1 : Stops(p + k * step)})

ReadUnary(wire, p) ==
  LET zeros == FirstGroup(wire, p, 1, LAMBDA q : wire[q + 1] = 1)
  IN  [v |-> zeros, next |-> p + zeros + 1]

ReadTernary(wire, p) ==
  LET digits == FirstGroup(wire, p, 2, LAMBDA q : ReadInt(wire, q, 2).v = 3)
  IN  [v |-> IF digits = 0 THEN 0
             ELSE (1 + Value(3, [i \in 1 .. digits |-> ReadInt(wire, p + 2 * (i - 1), 2).v])) % 2 ^ Width,
       next |-> p + 2 * digits + 2]

ReadEliasGamma(wire, p) == LET bits == ReadUnary(wire, p) IN ReadInt(wire, bits.next, bits.v)
ReadEliasDelta(wire, p) == LET bits == ReadEliasGamma(wire, p) IN ReadInt(wire, bits.next, bits.v)

ReadCompressedInt(wire, p, b) ==
  LET last == FirstGroup(wire, p, b + 1, LAMBDA q : wire[q + 1] = 0)
  IN  [v |-> Value(2 ^ b, [i \in 1 .. last + 1 |-> ReadInt(wire, p + (b + 1) * (i - 1) + 1, b).v]),
       next |-> p + (b + 1) * (last + 1)]

ReadAscii(wire, p) ==
  LET len == FirstGroup(wire, p, 8, LAMBDA q : BitsAt(wire, q, 8) \notin 48 .. 57)
  IN  [v |-> Value(10, [i \in 1 .. len |-> BitsAt(wire, p + 8 * (len - i), 8) - 48]),
       next |-> p + 8 * (len + 1)]

\* Decoder::decode
Decoded(code, wire, p) ==
  CASE code[1] = "unary" -> ReadUnary(wire, p)
    [] code[1] = "ternary" -> ReadTernary(wire, p)
    [] code[1] = "gamma" -> ReadEliasGamma(wire, p)
    [] code[1] = "delta" -> ReadEliasDelta(wire, p)
    [] code[1] = "ascii" -> ReadAscii(wire, p)
    [] code[1] = "bit" -> [v |-> wire[p + 1], next |-> p + 1]
    [] code[1] = "compressed" -> ReadCompressedInt(wire, p, code[2])
    [] code[1] = "range" ->
         LET r == ReadInt(wire, p, BitsFor(code[2].max - code[2].min))
         IN  [v |-> (code[2].min + r.v) % 2 ^ Width, next |-> r.next]
=============================================================================
