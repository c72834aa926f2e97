-------------------------------- MODULE LZ78 --------------------------------
(***************************************************************************)
(* compressors/LZ78Compressor.hpp: the text is parsed into phrases, each a *)
(* phrase seen before and one more character; a factor is the number of    *)
(* the former and the latter.  The decompressor rebuilds the dictionary    *)
(* from the factors.  The end of the text may cut the last phrase short.   *)
(***************************************************************************)
EXTENDS RangeCoder, PhraseDict

CONSTANTS Binary,   \* the coder is BitCoder, see RangeCoder; otherwise one that
                    \* restores the low bits of a negative number, too
          Sigma,    \* the size of the alphabet; literals are 0 .. Sigma - 1
          MaxSize,  \* dict_size: the dictionary is reset at this size; 0: never
          MaxLen    \* bound on the length of the text

Literal == 0 .. Sigma - 1
NoLiteral == -1
Roots == 1

VARIABLES
  sent,    \* history: the text read by the compressor
  closed,  \* the compressor has finished
  dict, node, parent, factors, last,   \* compressor; factors = factor_count
  wire,    \* the encoded factors
  pos, indices, literals,              \* decompressor
  got      \* what it has written

enc == <<dict, node, parent, factors, last>>
dec == <<pos, indices, literals, got>>
vars == <<sent, closed, enc, wire, dec>>

Init ==
  /\ sent = <<>> /\ closed = FALSE
  /\ dict = <<>> /\ node = 0 /\ parent = 0 /\ factors = 0 /\ last = NoLiteral
  /\ wire = <<>>
  /\ pos = 0 /\ indices = <<>> /\ literals = <<>> /\ got = <<>>

EncodeFactor(id, c) == Encoded(Binary, id, factors) \o Encoded(Binary, c, Sigma - 1)

\* A literal as a plain char, which is signed on the usual platforms.
Char(c) == IF 2 * c < Sigma THEN c ELSE c - Sigma

\* One iteration of the loop of compress.
CompressChar(c) ==
  /\ ~closed /\ Len(sent) < MaxLen
  /\ sent' = Append(sent, c)
  /\ last' = c
  /\ IF HasChild(dict, node, c)
     THEN /\ parent' = node
          /\ node' = Child(dict, Roots, node, c)
          /\ UNCHANGED <<dict, factors, wire>>
     ELSE LET reset == Size(dict, Roots) + 1 = MaxSize
          IN  /\ wire' = wire \o EncodeFactor(node, c)
              /\ node' = 0 /\ parent' = 0
              /\ dict' = IF reset THEN <<>> ELSE Insert(dict, node, c)
              /\ factors' = IF reset THEN 0 ELSE factors + 1
  /\ UNCHANGED <<closed, dec>>

\* Mutant: the left-over is coded from its own node.
FinishFromNode ==
  /\ ~closed /\ closed' = TRUE
  /\ wire' = IF node = 0 THEN wire ELSE wire \o EncodeFactor(node, Char(last))
  /\ factors' = IF node = 0 THEN factors ELSE factors + 1
  /\ UNCHANGED <<sent, dict, node, parent, last, dec>>

\* Left-overs: the last phrase is in the dictionary; it is coded again, with
\* the character the failed read has left in place, which here is not cast to
\* a literal first.
Finish ==
  /\ ~closed /\ closed' = TRUE
  /\ wire' = IF node = 0 THEN wire ELSE wire \o EncodeFactor(parent, Char(last))
  /\ factors' = IF node = 0 THEN factors ELSE factors + 1
  /\ UNCHANGED <<sent, dict, node, parent, last, dec>>

\* Decompressor::decompress: the phrase of a factor, back to front.
Expand(index, c) ==
  LET Walk[i \in 0 .. Len(indices)] ==
        IF i = 0 THEN <<>> ELSE Append(Walk[indices[i]], literals[i])
  IN  Append(Walk[index], c)

\* Mutant: the range of the decoder lags one factor behind.
DecompressFactorLate ==
  /\ closed /\ pos < Len(wire)
  /\ LET i == Decoded(Binary, wire, pos, IF indices = <<>> THEN 0 ELSE Len(indices) - 1)
         c == Decoded(Binary, wire, i.next, Sigma - 1)
     IN  /\ indices' = Append(indices, i.v)
         /\ literals' = Append(literals, c.v % Sigma)
         /\ got' = got \o Expand(i.v, c.v % Sigma)
         /\ pos' = c.next
  /\ UNCHANGED <<sent, closed, enc, wire>>

\* One iteration of the loop of decompress; factor_count is Len(indices).  The
\* literal is read into a uliteral_t, which keeps the low bits of a number.
DecompressFactor ==
  /\ closed /\ pos < Len(wire)
  /\ LET i == Decoded(Binary, wire, pos, Len(indices))
         c == Decoded(Binary, wire, i.next, Sigma - 1)
     IN  /\ indices' = Append(indices, i.v)
         /\ literals' = Append(literals, c.v % Sigma)
         /\ got' = got \o Expand(i.v, c.v % Sigma)
         /\ pos' = c.next
  /\ UNCHANGED <<sent, closed, enc, wire>>

Next == (\E c \in Literal : CompressChar(c)) \/ Finish \/ DecompressFactor
SafeSpec == Init /\ [][Next]_vars
\* A decompressor that was started runs to the end of its input.
Spec == SafeSpec /\ WF_vars(DecompressFactor)
-----------------------------------------------------------------------------
(* Properties *)

\* Node and factor numbers stay in the ranges they are coded with: a node of
\* the dictionary is never above the factor count (the DCHECKs of compress),
\* and the decompressor only refers to factors it has seen.
TypeOK ==
  /\ sent \in Seq(Literal) /\ got \in Seq(Literal)
  /\ closed \in BOOLEAN
  /\ IsTrie(dict, Roots)
  /\ node \in 0 .. Len(dict) /\ parent \in 0 .. Len(dict)
  /\ last \in Literal \cup {NoLiteral}
  /\ pos \in 0 .. Len(wire)
  /\ Len(literals) = Len(indices)
  /\ \A i \in 1 .. Len(indices) : indices[i] \in 0 .. i - 1 /\ literals[i] \in Literal

\* The parse is greedy and complete: no two phrases are equal, and together
\* with the phrase of the current node they make up the text.  (Without
\* resets.)
ParsePartitions ==
  LET P == Phrases(dict, Roots, [id \in {0} |-> <<>>])
      Cat[i \in 0 .. Len(dict)] == IF i = 0 THEN <<>> ELSE Cat[i - 1] \o P[i]
  IN  /\ ~closed => Len(dict) = factors
      /\ Cat[Len(dict)] \o P[node] = sent
      /\ node # 0 => P[node] = Append(P[parent], last)
      /\ \A i, j \in 0 .. Len(dict) : P[i] = P[j] => i = j

\* The parse is greedy and complete, and both dictionaries agree: the
\* decompressor's factor i is node i of the compressor's trie, except that the
\* left-over is a repetition.
DictsAgree ==
  /\ TypeOK
  /\ ParsePartitions
  /\ \A i \in 1 .. Len(indices) :
       i <= Len(dict) => indices[i] = dict[i].parent /\ literals[i] = dict[i].c

\* The decompressor writes a prefix of the text, and in the end all of it:
\* the two implement the lossless channel (LZ78Compressor.hpp:60-158).
Channel == INSTANCE LosslessChannel WITH Symbol <- Literal
ChannelSpec == Channel!Spec
=============================================================================
