--------------------------- MODULE ByteTransforms ---------------------------
(***************************************************************************)
(* The compressors that need no coder or only the simplest one: run-length *)
(* encoding, move-to-front, the Burrows-Wheeler transform, and LZSS with a *)
(* sliding window.  Each is a pair of functions between texts.             *)
(*                                                                         *)
(* A char is signed where the code compares it with what peek() returns,   *)
(* so bytes of the upper half never equal a byte that follows them, and    *)
(* the largest one equals the end of the input.                            *)
(***************************************************************************)
EXTENDS TextIndex

CONSTANTS ByteBits,   \* bits of a byte
          Endless     \* the result of a loop that never ends

LitMax == 2 ^ ByteBits - 1
Chars == 0 .. LitMax
Half == 2 ^ (ByteBits - 1)
-----------------------------------------------------------------------------
(* util/vbyte.hpp *)

\* write_vbyte: the lower digits first, the top bit says that more follow.
WriteVbyte(v) ==
  LET W[n \in Nat] == IF n < Half THEN <<n>> ELSE <<Half + (n % Half)>> \o W[n \div Half]
  IN  W[v]

\* read_vbyte: the number in front of s, and how many bytes it takes.
ReadVbyte(s) ==
  LET len == CHOOSE l \in DOMAIN s : s[l] < Half /\ \A k \in 1 .. l - 1 : s[k] >= Half
      digits == [k \in 1 .. len |-> (s[k] % Half) * Half ^ (k - 1)]
  IN  [v |-> FoldLeft(+, 0, digits), len |-> len]
-----------------------------------------------------------------------------
(* RunLengthEncoder.hpp *)

\* is.peek() == c, when s[i] comes next
PeekEquals(s, i, c) == IF i > Len(s) THEN c = LitMax ELSE c < Half /\ s[i] = c

\* The run of further characters equal to s[i - 1], and whether its loop ends.
RunLength(s) ==
  LET R[i \in 2 .. Len(s) + 1] ==
        IF i <= Len(s) /\ PeekEquals(s, i, s[i - 1]) THEN 1 + R[i + 1] ELSE 0
  IN  R
RunEnds(s) ==
  LET n == Len(s) IN n >= 2 /\ s[n] = s[n - 1] => ~PeekEquals(s, n + 1, s[n])

\* Mutant: the length of a run is not reduced by the two characters written.
RleEncodedLong(s, offset) ==
  LET n == Len(s)
      enc[i \in 2 .. n + 1] ==
        IF i > n THEN <<>>
        ELSE IF s[i] # s[i - 1] THEN <<s[i]>> \o enc[i + 1]
        ELSE LET run == RunLength(s)[i + 1]
             IN  <<s[i]>> \o WriteVbyte(run + offset + 1) \o enc[i + 1 + run]
  IN  IF n = 0 THEN <<>> ELSE <<s[1]>> \o enc[2]

\* rle_encode: two equal characters are followed by the number of further ones.
RleEncoded(s, offset) ==
  LET n == Len(s)
      enc[i \in 2 .. n + 1] ==
        IF i > n THEN <<>>
        ELSE IF s[i] # s[i - 1] THEN <<s[i]>> \o enc[i + 1]
        ELSE LET run == RunLength(s)[i + 1]
             IN  <<s[i]>> \o WriteVbyte(run + offset) \o enc[i + 1 + run]
  IN  IF n = 0 THEN <<>> ELSE IF RunEnds(s) THEN <<s[1]>> \o enc[2] ELSE Endless

\* rle_decode
RleDecoded(code, offset) ==
  LET n == Len(code)
      dec[i \in 2 .. n + 1, prev \in Chars] ==
        IF i > n THEN <<>>
        ELSE IF code[i] # prev THEN <<code[i]>> \o dec[i + 1, code[i]]
        ELSE LET read == ReadVbyte(SubSeq(code, i + 1, n))
             IN  [k \in 1 .. read.v - offset + 1 |-> prev] \o dec[i + 1 + read.len, prev]
  IN  IF n = 0 THEN <<>> ELSE <<code[1]>> \o dec[2, code[1]]
-----------------------------------------------------------------------------
(* MTFCompressor.hpp.  Tables are counted from 1, codes from 0. *)

InitialTable == [i \in 1 .. LitMax + 1 |-> i - 1]
MoveToFront(table, i) == <<table[i]>> \o RemoveAt(table, i)

\* mtf_encode
MtfEncoded(s) ==
  LET Step(state, c) ==
        LET i == CHOOSE i \in DOMAIN state.table : state.table[i] = c
        IN  [table |-> MoveToFront(state.table, i), out |-> Append(state.out, i - 1)]
  IN  FoldLeft(Step, [table |-> InitialTable, out |-> <<>>], s).out

\* mtf_decode
MtfDecoded(code) ==
  LET Step(state, v) ==
        [table |-> MoveToFront(state.table, v + 1), out |-> Append(state.out, state.table[v + 1])]
  IN  FoldLeft(Step, [table |-> InitialTable, out |-> <<>>], code).out
-----------------------------------------------------------------------------
(* BWTCompressor.hpp and ds/bwt.hpp, for a text that ends with its only 0. *)

\* bwt: the character before each suffix, in the order of the suffixes.
BwtEncoded(text) ==
  LET sa == SuffixArray(text)
      n == Len(text)
  IN  [i \in 1 .. n |-> IF sa[i - 1] = 0 THEN text[n] ELSE text[sa[i - 1]]]

\* compute_LF: where the rows of character c start.  The prefix sums leave out
\* the entry of the largest character, which holds the count of one other.
RowsBefore(bwt, c) ==
  Cardinality({i \in DOMAIN bwt : IF c = LitMax THEN bwt[i] = c - 1 ELSE bwt[i] < c})
LF(bwt) ==
  [i \in DOMAIN bwt |->
     1 + RowsBefore(bwt, bwt[i]) + Cardinality({k \in 1 .. i - 1 : bwt[k] = bwt[i]})]

\* decode_bwt and the terminator written behind it; nothing for a text that
\* consists of its terminator.
BwtDecoded(bwt) ==
  LET n == Len(bwt)
      lf == LF(bwt)
      row[j \in 1 .. n] == IF j = 1 THEN 1 ELSE lf[row[j - 1]]
  IN  IF n <= 1 THEN <<>> ELSE [k \in 1 .. n - 1 |-> bwt[row[n - k]]] \o <<0>>
-----------------------------------------------------------------------------
(* LZSSSlidingWindowCompressor.hpp.  The buffer is the part of the text from *)
(* off to off + len; its look-ahead starts at ahead.                         *)

\* How far the buffer continues at ahead as it does at k.
MatchLength(text, b, k) ==
  LET M[j \in Nat] ==
        IF b.ahead + j < b.len /\ text[b.off + k + j + 1] = text[b.off + b.ahead + j + 1]
        THEN M[j + 1] ELSE j
  IN  M[0]

\* The longest factor of the back buffer, the first one of those; num = 0 if
\* there is none.
LongestFactor(text, b, window, threshold) ==
  LET low == IF b.ahead > window THEN b.ahead - window ELSE 0
      F[k \in Nat] ==
        IF k < low THEN [src |-> 0, num |-> 0]
        ELSE LET best == IF k = 0 THEN [src |-> 0, num |-> 0] ELSE F[k - 1]
                 j == MatchLength(text, b, k)
             IN  IF j >= threshold /\ j > best.num THEN [src |-> k, num |-> j] ELSE best
  IN  IF b.ahead = 0 THEN [src |-> 0, num |-> 0] ELSE F[b.ahead - 1]

\* The buffer moves on by one character: it is still being filled, takes
\* another character of the text, or the text is at its end.
Advanced(text, b, window) ==
  IF b.ahead < window THEN [b EXCEPT !.ahead = @ + 1]
  ELSE IF b.off + b.len < Len(text) THEN [b EXCEPT !.off = @ + 1]
  ELSE [b EXCEPT !.ahead = @ + 1]

\* compress: a bit, then the distance and the length of a factor, or a literal.
\* The length is coded in the range of the window, half of what it may be.
WindowEncoded(text, binary, window, threshold) ==
  LET Buffer == [off : Nat, ahead : Nat, len : Nat]
      move[b \in Buffer, n \in Nat] ==
        IF n = 0 THEN b ELSE move[Advanced(text, b, window), n - 1]
      enc[b \in Buffer] ==
        IF b.ahead >= b.len THEN <<>>
        ELSE LET f == LongestFactor(text, b, window, threshold)
                 pos == b.off + b.ahead
             IN  IF f.num > 0
                 THEN <<1>> \o Encoded(binary, b.ahead - f.src, pos)
                            \o Encoded(binary, f.num, window) \o enc[move[b, f.num]]
                 ELSE <<0>> \o Encoded(binary, text[pos + 1], LitMax) \o enc[move[b, 1]]
      len == IF Len(text) < 2 * window THEN Len(text) ELSE 2 * window
  IN  enc[[off |-> 0, ahead |-> 0, len |-> len]]

\* decompress
WindowDecoded(code, binary, window) ==
  LET copy[text \in Seq(Chars), src \in Nat, n \in Nat] ==
        IF n = 0 THEN text ELSE copy[Append(text, text[src + 1]), src + 1, n - 1]
      dec[pos \in Nat, text \in Seq(Chars)] ==
        IF pos >= Len(code) THEN text
        ELSE IF code[pos + 1] = 1
        THEN LET delta == Decoded(binary, code, pos + 1, Len(text))
                 num == Decoded(binary, code, delta.next, window)
             IN  dec[num.next, copy[text, Len(text) - delta.v, num.v]]
        ELSE LET c == Decoded(binary, code, pos + 1, LitMax) IN dec[c.next, Append(text, c.v)]
  IN  dec[0, <<>>]
=============================================================================
