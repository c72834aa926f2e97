-------------------------------- MODULE Esp ---------------------------------
(***************************************************************************)
(* EspCompressor.hpp: grammar compression by edit-sensitive parsing.       *)
(* generate_grammar (EspContextImpl.hpp) parses the text in rounds: the    *)
(* string is cut into blocks of two or three symbols (EspParsing), equal   *)
(* blocks get the same number (GrammarRules), and the numbers are the      *)
(* string of the next round, until one symbol is left.  The rules of all   *)
(* rounds make a straight-line program, which is written in the plain or   *)
(* in the sorted way (SlpCoders), read again and expanded.                 *)
(***************************************************************************)
EXTENDS SlpCoders

CONSTANTS Jobs,         \* records of a text and an ipd map
          CodersOf(_),  \* the slp coders to be used for a job
          None          \* no coder is chosen yet

VARIABLES job,       \* what is compressed, and how
          pc,        \* round, adjust, name, coder, subseq, write, read, done, aborted
          string,    \* the string of the round
          alphabet,  \* the size of its alphabet
          prev,      \* the symbol of the program that its symbol 0 stands for
          pending,   \* blocks that adjust_blocks has not seen
          queue,     \* the blocks it looks at
          blocks,    \* the blocks it is done with
          gr,        \* the rules of the round
          names,     \* the string of the next round
          slp,       \* the program so far
          coder,     \* the slp coder
          subseq,    \* the subsequences of the right hand sides found so far
          wire,      \* what was written
          decoded    \* the program that was read

parseVars == <<string, alphabet, prev, pending, queue, blocks, gr, names>>
codeVars == <<coder, subseq, wire, decoded>>
vars == <<job, pc, parseVars, slp, codeVars>>

Init ==
  /\ job \in Jobs
  /\ pc = "round"
  /\ string = job.text /\ alphabet = Bytes /\ prev = 0
  /\ pending = <<>> /\ queue = <<>> /\ blocks = <<>>
  /\ gr = NewRules(job.ipd, Bytes) /\ names = <<>>
  /\ slp = [rules |-> <<>>, root |-> 0, empty |-> FALSE]
  /\ coder = None /\ subseq = None /\ wire = <<>> /\ decoded = None
-----------------------------------------------------------------------------
(* generate_grammar *)

\* No symbol or one symbol is left.
LastRound ==
  /\ pc = "round" /\ Len(string) < 2
  /\ pc' = "coder"
  /\ slp' = IF string = <<>> THEN [slp EXCEPT !.empty = TRUE]
            ELSE [slp EXCEPT !.root = string[1] + prev]
  /\ UNCHANGED <<job, parseVars, codeVars>>

\* split, and the early return of adjust_blocks.
Split ==
  /\ pc = "round" /\ Len(string) >= 2
  /\ \E b \in {SplitBlocks(string, alphabet)} :
       IF Len(b) < 2
       THEN pc' = "name" /\ blocks' = b /\ pending' = <<>>
       ELSE pc' = "adjust" /\ blocks' = <<>> /\ pending' = b
  /\ UNCHANGED <<job, string, alphabet, prev, queue, gr, names, slp, codeVars>>

\* fill: three blocks are looked at, as long as there are three.
Taking == Min({3 - Len(queue), Len(pending)})
Filled == queue \o SubSeq(pending, 1, Taking)
NotFilled == SubSeq(pending, Taking + 1, Len(pending))

AdjustMerge ==
  /\ pc = "adjust" /\ Merges(Filled)
  /\ queue' = Merged(Filled) /\ pending' = NotFilled
  /\ UNCHANGED <<job, pc, string, alphabet, prev, blocks, gr, names, slp, codeVars>>

AdjustEmit ==
  /\ pc = "adjust" /\ Filled # <<>> /\ ~Merges(Filled) /\ ~Stuck(Filled)
  /\ blocks' = Append(blocks, Filled[1])
  /\ queue' = Tail(Filled) /\ pending' = NotFilled
  /\ UNCHANGED <<job, pc, string, alphabet, prev, gr, names, slp, codeVars>>

AdjustDone ==
  /\ pc = "adjust" /\ Filled = <<>>
  /\ pc' = "name"
  /\ UNCHANGED <<job, parseVars, slp, codeVars>>

\* Every block is replaced by the number of its rule, from 0.
NameBlock ==
  /\ pc = "name" /\ Len(names) < Len(blocks)
  /\ \E from \in {TotalLen(SubSeq(blocks, 1, Len(names)))} :
     \E r \in {Add(gr, SubSeq(string, from + 1, from + blocks[Len(names) + 1].len))} :
       /\ gr' = r.gr
       /\ names' = Append(names, NameInRound(gr, r.name))
  /\ UNCHANGED <<job, pc, string, alphabet, prev, pending, queue, blocks, slp, codeVars>>

\* The rules are appended to the program, in which the symbols of all rounds have
\* numbers of their own; the next string has elements as wide as the length needs.
NextRound ==
  /\ pc = "name" /\ Len(names) = Len(blocks)
  /\ pc' = "round"
  /\ slp' = [slp EXCEPT !.rules = @ \o [k \in 1 .. RulesCount(gr) |->
                                          <<RuleOf(gr, k - 1)[1] + prev, RuleOf(gr, k - 1)[2] + prev>>]]
  /\ prev' = Bytes + Len(slp.rules)
  /\ alphabet' = RulesCount(gr)
  /\ string' = [i \in 1 .. Len(names) |-> Cast(names[i], BitsFor(Len(string) - 1))]
  /\ gr' = NewRules(job.ipd, RulesCount(gr))
  /\ names' = <<>> /\ blocks' = <<>>
  /\ UNCHANGED <<job, pending, queue, codeVars>>
-----------------------------------------------------------------------------
(* The slp coders *)

IsSuccinct(c) == c.kind = "sorted" /\ c.d.kind = "succinct"

\* The encode phase starts; the sorted coder sorts the program first.
ChooseCoder ==
  /\ pc = "coder"
  /\ \E c \in CodersOf(job) :
       /\ coder' = c
       /\ slp' = IF c.kind = "sorted" THEN DepSorted(slp) ELSE slp
       /\ IF IsSuccinct(c) /\ ~OnlyHeader(slp)
          THEN /\ pc' = "subseq"
               /\ \E sis \in {SortedIndices(RightSides(slp'))} :
                    subseq' = [sis |-> sis, l |-> NewList(sis), b |-> <<>>, taken |-> <<>>]
          ELSE pc' = "write" /\ UNCHANGED subseq
  /\ UNCHANGED <<job, parseVars, wire, decoded>>

\* What create_dpi_and_b_from_sorted_indices has not put into a subsequence.
Left == Iterated(subseq.l, TRUE)

NextSubseq ==
  /\ pc = "subseq" /\ subseq.l.remaining > 0
  /\ \E s \in {IF coder.d.subseq = "optimal" THEN LongestSubseq(subseq.l, subseq.sis)
               ELSE [l |-> subseq.l] @@ GreedySubseq(Left, subseq.sis)} :
       subseq' = [subseq EXCEPT !.l = Removed(s.l, s.links), !.b = Append(@, s.b),
                                !.taken = Append(@, s.links)]
  /\ UNCHANGED <<job, pc, parseVars, slp, coder, wire, decoded>>

SubseqsFound ==
  /\ pc = "subseq" /\ subseq.l.remaining = 0
  /\ pc' = "write"
  /\ UNCHANGED <<job, parseVars, slp, codeVars>>

\* The result of create_dpi_and_b_from_sorted_indices.
Dpi == [i \in 1 .. Len(subseq.sis) |-> subseq.l.linkedList[i - 1]]

EncodedSorted(d) ==
  EncodeSortedHeader(slp)
  \o (IF OnlyHeader(slp) THEN <<>>
      ELSE EncodeLeftSides(slp)
           \o (IF d.kind = "succinct"
               THEN EncodeSuccinct(d.dx, RightSides(slp), subseq.sis, Dpi, subseq.b)
               ELSE EncodeD(d, RightSides(slp), BitWidth(slp), MaxVal(slp))))

\* encode; a check that fails ends the program.
Write ==
  /\ pc = "write"
  /\ IF /\ coder.kind = "sorted" /\ ~OnlyHeader(slp)
        /\ ~EncodeChecks(coder.d, RightSides(slp), BitWidth(slp))
     THEN pc' = "aborted" /\ UNCHANGED wire
     ELSE /\ pc' = "read"
          /\ wire' = IF coder.kind = "plain" THEN EncodePlainSLP(slp) ELSE EncodedSorted(coder.d)
  /\ UNCHANGED <<job, parseVars, slp, coder, subseq, decoded>>

\* decompress
Read ==
  /\ pc = "read"
  /\ pc' = "done"
  /\ decoded' = IF coder.kind = "plain" THEN DecodePlainSLP(wire) ELSE DecodeSortedSLP(coder.d, wire)
  /\ UNCHANGED <<job, parseVars, slp, coder, subseq, wire>>

Stopped == pc \in {"done", "aborted"} /\ UNCHANGED vars

Next ==
  \/ LastRound \/ Split \/ AdjustMerge \/ AdjustEmit \/ AdjustDone \/ NameBlock \/ NextRound
  \/ ChooseCoder \/ NextSubseq \/ SubseqsFound \/ Write \/ Read \/ Stopped

Spec == Init /\ [][Next]_vars
-----------------------------------------------------------------------------
(* Properties *)

\* The blocks of a round cover its string, without a gap or an overlap, while they
\* are merged (landmarks stay two or three symbols apart, which check_landmarks
\* does not check), and in the end each has two or three symbols.  adjust_blocks
\* always finds a neighbour to merge a single symbol with: the place that "should
\* not be reached", where it would loop for ever, is not.
BlocksSound ==
  /\ pc = "adjust" => TotalLen(blocks \o queue \o pending) = Len(string) /\ ~Stuck(Filled)
  /\ pc = "name" => TotalLen(blocks) = Len(string) /\ \A i \in DOMAIN blocks : blocks[i].len \in {2, 3}

\* The string of the next round fits its elements, which are sized by the length of
\* the string before, and its reserved capacity of half of it and one.
LayerFits ==
  pc = "name" =>
    /\ Len(blocks) <= Len(string) \div 2 + 1
    /\ \A i \in DOMAIN names : names[i] < 2 ^ BitsFor(Len(string) - 1)

\* In every round the string still stands for the text, by the rules so far:
\* renumbering the symbols of a round, and moving its pairs into a wider map,
\* changes the meaning of none, and the string of the next round has room for it.
RoundsDerive ==
  /\ LayerFits
  /\ pc = "round" =>
    \E D \in {Derivations(slp.rules)} :
      FlattenSeq([i \in 1 .. Len(string) |-> D[string[i] + prev]]) = job.text

\* A subsequence is monotone in the values' positions, and the optimal strategy takes
\* a longest one of what is left, although one array serves as the backward links,
\* as the layers and as the result.
IsRun(s, sis, up) ==
  \A i \in 1 .. Len(s) - 1 : IF up THEN sis[s[i] + 1] < sis[s[i + 1] + 1]
                                 ELSE sis[s[i] + 1] > sis[s[i + 1] + 1]
Taken(k) == SortSeq(subseq.taken[k], <)
LeftBefore(k) == UNION {ToSet(subseq.taken[j]) : j \in k .. Len(subseq.taken)} \cup ToSet(Left)
SubsequencesLongest ==
  pc = "subseq" =>
    LET n == Len(subseq.taken)
        last == Taken(n)
    IN  n > 0 /\ subseq.l.remaining > 0 =>
          /\ IsRun(last, subseq.sis, subseq.b[n] = 0)
          /\ coder.d.subseq = "optimal" =>
               \A S \in SUBSET LeftBefore(n) :
                 Cardinality(S) > Len(last) =>
                   \E s \in {SelectSeq([i \in 1 .. Len(subseq.sis) |-> i - 1], LAMBDA x : x \in S)} :
                     ~IsRun(s, subseq.sis, TRUE) /\ ~IsRun(s, subseq.sis, FALSE)

\* With every ipd map, slp coder and d_coding, the program that is read expands to
\* the text.
TextBack == pc = "done" => DeriveText(decoded) = job.text

=============================================================================
