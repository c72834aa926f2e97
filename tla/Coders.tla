------------------------------- MODULE Coders -------------------------------
(***************************************************************************)
(* An encoder and its decoder, for every coder of coders/: the coders that *)
(* write each integer with a code of its own (IntegerCodes), and those that *)
(* are shown all literals first (the literal iterator of their             *)
(* constructor) and write a table in front (LiteralCoders).  The integers  *)
(* between the literals, and what the next item is, are known to whoever   *)
(* uses the decoder.                                                       *)
(*                                                                         *)
(* The wire is a sequence of numbers: the bits, except that what the       *)
(* statistical coders write with a fixed or a self-delimiting code (tables, *)
(* arithmetic codes) is one symbol.                                        *)
(***************************************************************************)
EXTENDS IntegerCodes, FiniteSets

CONSTANTS LitMax,   \* ULITERAL_MAX
          Top,      \* the largest unsigned long, for the arithmetic coder
          Texts,    \* pairs of a coder and the items it is used for
          None      \* not created yet

Literal == INSTANCE LiteralCoders

\* An item of a text is a literal, or an integer with its code.
LiteralItem(c) == [code |-> <<"literal">>, v |-> c]
Item == UNION {ToSet(t[2]) : t \in Texts}

VARIABLES coder,   \* [kind, k]: the coder, with its k-mer length
          text,    \* the items that will be encoded
          table,   \* what the encoder made of the literals
          enc,     \* its k-mer buffer, or its interval and how many it has seen
          wire,    \* what was written
          done,    \* how many items were encoded
          closed,  \* the encoder is gone
          dec,     \* the decoder: its table, the literals it holds, its counter
          pos,     \* how much of the wire was read
          got      \* the items read

vars == <<coder, text, table, enc, wire, done, closed, dec, pos, got>>

\* The literals, and their positions: each item stands for a piece of the text.
IsLiteral(item) == item.code[1] = "literal"
Literals(items) == SelectSeq(items, IsLiteral)
LiteralChars(items) ==
  LET l == Literals(items) IN [i \in DOMAIN l |-> l[i].v]
LocatedLiterals(items) ==
  SelectSeq([i \in DOMAIN items |-> [lit |-> IsLiteral(items[i]), c |-> items[i].v, pos |-> i]],
            LAMBDA l : l.lit)
-----------------------------------------------------------------------------
(* The encoder *)

Init ==
  /\ \E t \in Texts : coder = t[1] /\ text = t[2]
  /\ table = None /\ enc = None /\ dec = None
  /\ wire = <<>> /\ got = <<>>
  /\ done = 0 /\ pos = 0
  /\ closed = FALSE

NewState == [buffer |-> <<>>, low |-> 0, high |-> Top, counter |-> 0]

\* The constructors.
CreatePlain ==
  /\ coder.kind = "plain" /\ table' = <<>> /\ wire' = <<>>

CreateHuffman ==
  /\ coder.kind = "huffman"
  /\ \E chars \in {LiteralChars(text)} :
       IF Cardinality(ToSet(chars)) <= 1
       THEN table' = <<>> /\ wire' = <<0>>
       ELSE \E t \in {Literal!HuffmanTable(chars)} :
              table' = t /\ wire' = <<1>> \o Literal!TableOnWire(t)

CreateArithmetic ==
  /\ coder.kind = "arithmetic"
  /\ \E iv \in {Literal!Intervals(LiteralChars(text))} :
       table' = iv /\ wire' = Literal!Codebook(iv)

CreateSLE ==
  /\ coder.kind = "sle"
  /\ \E ranking \in {Literal!Ranking(LocatedLiterals(text), coder.k)} :
       table' = ranking /\ wire' = <<Len(ranking)>> \o ranking

CreateEncoder ==
  /\ table = None
  /\ enc' = NewState
  /\ CreatePlain \/ CreateHuffman \/ CreateArithmetic \/ CreateSLE
  /\ UNCHANGED <<coder, text, done, closed, dec, pos, got>>

\* Mutant: an integer is written before the literals of the buffer.
EncodeIntegerUnflushed(item) ==
  /\ ~IsLiteral(item)
  /\ wire' = wire \o (IF item.code[1] = "min" THEN <<>> ELSE Encoded(item.code, item.v))
  /\ UNCHANGED enc

\* encode(v, r) of an integer; the buffered literals of an SLE encoder go first.
EncodeInteger(item) ==
  /\ ~IsLiteral(item)
  /\ \E flushed \in {IF coder.kind = "sle" THEN Literal!Flushed(table, enc.buffer) ELSE <<>>},
        code \in {IF item.code[1] # "min" THEN Encoded(item.code, item.v)
                  ELSE LET bits == BitsFor(item.code[2].max - item.code[2].min)
                       IN  Literal!WriteClassed(Literal!IntegerClasses(bits), bits,
                                            item.v - item.code[2].min)} :
       wire' = wire \o flushed \o code
  /\ enc' = [enc EXCEPT !.buffer = <<>>]

EncodeHuffman(c) ==
  /\ coder.kind = "huffman"
  /\ wire' = wire \o (IF table = <<>> THEN <<c>> ELSE Literal!HuffmanCodeword(table, c))
  /\ UNCHANGED enc

EncodeArithmetic(c) ==
  /\ coder.kind = "arithmetic"
  /\ \E e \in {Literal!ArithmeticEncoded(table, enc, c)} :
       /\ wire' = wire \o e.code
       /\ enc' = [enc EXCEPT !.low = e.low, !.high = e.high, !.counter = e.counter]

EncodeSLE(c) ==
  /\ coder.kind = "sle"
  /\ \E e \in {Literal!LiteralEncoded(table, coder.k, enc.buffer, c)} :
       /\ wire' = wire \o e.code
       /\ enc' = [enc EXCEPT !.buffer = e.buffer]

Encode ==
  /\ table # None /\ done < Len(text)
  /\ LET item == text[done + 1]
     IN  \/ EncodeInteger(item)
         \/ IsLiteral(item) /\ (EncodeHuffman(item.v) \/ EncodeArithmetic(item.v)
                                \/ EncodeSLE(item.v))
  /\ done' = done + 1
  /\ UNCHANGED <<coder, text, table, closed, dec, pos, got>>

\* Mutant: the destructor of SLECoder does not flush.
CloseUnflushed ==
  /\ table # None /\ done = Len(text) /\ ~closed
  /\ closed' = TRUE
  /\ UNCHANGED <<coder, text, table, enc, wire, done, dec, pos, got>>

\* The destructor, when everything was encoded.
CloseEncoder ==
  /\ table # None /\ done = Len(text) /\ ~closed
  /\ closed' = TRUE
  /\ wire' = wire \o (IF coder.kind = "sle" THEN Literal!Flushed(table, enc.buffer) ELSE <<>>)
  /\ UNCHANGED <<coder, text, table, enc, done, dec, pos, got>>
-----------------------------------------------------------------------------
(* The decoder *)

OpenPlain == coder.kind = "plain" /\ pos' = 0 /\ dec' = [table |-> <<>>, pending |-> <<>>, counter |-> 0]

OpenHuffman ==
  /\ coder.kind = "huffman"
  /\ IF wire[1] = 0
     THEN pos' = 1 /\ dec' = [table |-> <<>>, pending |-> <<>>, counter |-> 0]
     ELSE \E t \in {Literal!TableFromWire(wire, 1)} :
            /\ pos' = t.next
            /\ dec' = [table |-> Literal!DecoderTable(t), pending |-> <<>>, counter |-> 0]

OpenArithmetic ==
  /\ coder.kind = "arithmetic"
  /\ \E book \in {Literal!CodebookFromWire(wire)} :
       /\ pos' = book.next
       /\ dec' = [table |-> book, pending |-> <<>>, counter |-> 0]

OpenSLE ==
  /\ coder.kind = "sle"
  /\ pos' = wire[1] + 1
  /\ dec' = [table |-> SubSeq(wire, 2, wire[1] + 1), pending |-> <<>>, counter |-> 0]

CreateDecoder ==
  /\ closed /\ dec = None
  /\ OpenPlain \/ OpenHuffman \/ OpenArithmetic \/ OpenSLE
  /\ UNCHANGED <<coder, text, table, enc, wire, done, closed, got>>

\* eof
AtEof == dec.pending = <<>> /\ pos >= Len(wire)

\* decode(r) of an integer: what is left of a k-mer is forgotten.
DecodeInteger(item) ==
  /\ ~IsLiteral(item)
  /\ LET bits == BitsFor(item.code[2].max - item.code[2].min)
         min == item.code[1] = "min"
     IN  \E r \in {IF min THEN Literal!ReadClassed(Literal!IntegerClasses(bits), bits, wire, pos)
                   ELSE Decoded(item.code, wire, pos)} :
           /\ got' = Append(got, [item EXCEPT !.v = r.v + (IF min THEN item.code[2].min ELSE 0)])
           /\ pos' = r.next
  /\ dec' = IF coder.kind = "sle" THEN [dec EXCEPT !.pending = <<>>] ELSE dec

DecodeHuffman ==
  /\ coder.kind = "huffman"
  /\ \E r \in {IF dec.table = <<>> THEN [v |-> wire[pos + 1], next |-> pos + 1]
               ELSE Literal!HuffmanDecoded(dec.table, wire, pos)} :
       /\ got' = Append(got, LiteralItem(r.v))
       /\ pos' = r.next
  /\ UNCHANGED dec

\* A code is decoded as a whole: the first one when the first literal is asked
\* for, the next one when the last literal of the one before is handed out.
DecodeArithmetic ==
  /\ coder.kind = "arithmetic"
  /\ \E first \in {IF dec.pending # <<>> THEN [out |-> dec.pending, counter |-> dec.counter]
                   ELSE Literal!BlockDecoded(dec.table, wire[pos + 1], dec.counter)} :
     \E at \in {IF dec.pending # <<>> THEN pos ELSE pos + 1} :
       /\ got' = Append(got, LiteralItem(first.out[1]))
       /\ IF Len(first.out) > 1
          THEN pos' = at /\ dec' = [dec EXCEPT !.pending = Tail(first.out), !.counter = first.counter]
          ELSE /\ pos' = at + 1
               /\ \E b \in {IF wire[at + 1] = Top THEN [out |-> <<>>, counter |-> first.counter]
                            ELSE Literal!BlockDecoded(dec.table, wire[at + 1], first.counter)} :
                    dec' = [dec EXCEPT !.pending = b.out, !.counter = b.counter]

\* What is left of a k-mer comes first.
DecodeSLE ==
  /\ coder.kind = "sle"
  /\ \/ /\ dec.pending # <<>>
        /\ got' = Append(got, LiteralItem(dec.pending[1]))
        /\ dec' = [dec EXCEPT !.pending = Tail(@)]
        /\ UNCHANGED pos
     \/ /\ dec.pending = <<>>
        /\ \E r \in {Literal!RankDecoded(dec.table, wire, pos)} :
           \E l \in {Literal!SymbolLiterals(dec.table[r.v + 1], coder.k)} :
             /\ got' = Append(got, LiteralItem(l[1]))
             /\ dec' = [dec EXCEPT !.pending = Tail(l)]
             /\ pos' = r.next

Decode ==
  /\ dec # None /\ ~AtEof /\ Len(got) < Len(text)
  /\ LET item == text[Len(got) + 1]
     IN  \/ DecodeInteger(item)
         \/ IsLiteral(item) /\ (DecodeHuffman \/ DecodeArithmetic \/ DecodeSLE)
  /\ UNCHANGED <<coder, text, table, enc, wire, done, closed>>

Next == CreateEncoder \/ Encode \/ CloseEncoder \/ CreateDecoder \/ Decode
SafeSpec == Init /\ [][Next]_vars
\* A decoder that was started runs to the end of its input.
Spec == SafeSpec /\ WF_vars(CreateDecoder) /\ WF_vars(Decode)
-----------------------------------------------------------------------------
(* Properties *)

\* Every coder delimits what it writes: the decoder meets the end of its input
\* when it has delivered the last item and not before, however the literals,
\* k-mers and codes before it were grouped.
EofExact == dec # None => (AtEof <=> Len(got) = Len(text))

\* The lengths of the Huffman codewords satisfy Kraft's inequality, and no other
\* lengths that do make the text shorter (checked for up to four literals).
HuffmanOptimal ==
  coder.kind = "huffman" /\ table # None /\ table # <<>> /\ done = 0 =>
    LET chars == LiteralChars(text)
        letters == ToSet(chars)
        longest == Cardinality(letters) - 1
        Length(c) == table.lengths[CHOOSE i \in DOMAIN table.literals : table.literals[i] = c]
        Cost(L) == SumFunction([i \in DOMAIN chars |-> L[chars[i]]])
        Kraft(L) == SumFunction([i \in DOMAIN table.literals |->
                              2 ^ (longest - L[table.literals[i]])]) <= 2 ^ longest
        own == [c \in letters |-> Length(c)]
    IN  Cardinality(letters) <= 4 =>
          /\ Kraft(own)
          /\ \A L \in [letters -> 1 .. longest] : Kraft(L) => Cost(own) <= Cost(L)

\* Every literal and integer comes back with the value it was written with,
\* whatever surrounds it: encoder and decoder implement the lossless channel.
Channel == INSTANCE LosslessChannel
             WITH Symbol <- Item, sent <- SubSeq(text, 1, done)
ChannelSpec == Channel!Spec
=============================================================================
