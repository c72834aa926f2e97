----------------------------- MODULE MCGrammars -----------------------------
(* Instances of Grammars and Esp for TLC, in one run. *)
EXTENDS Grammars

CONSTANTS EspJobs, EspCodersOf(_), None   \* the constants of Esp

VARIABLES
  family,   \* which of the two runs: "grammars" or "esp"
  espJob, pc, string, alphabet, prev, pending, queue, blocks, gr, names,
  slp, coder, subseq, wire, decoded   \* the variables of Esp

E == INSTANCE Esp WITH job <- espJob, Jobs <- EspJobs, CodersOf <- EspCodersOf
espVars == <<espJob, pc, string, alphabet, prev, pending, queue, blocks, gr, names,
             slp, coder, subseq, wire, decoded>>

\* The one that does not run waits in front of an empty text.
NoGrammar == INSTANCE Grammars WITH Jobs <-
  {[comp |-> "lz78u", text |-> <<0>>, min_lrf |-> 2, exact |-> FALSE, threshold |-> 1,
    max_rules |-> 0]}
NoEsp == INSTANCE Esp WITH job <- espJob, CodersOf <- EspCodersOf,
  Jobs <- {[text |-> <<>>, ipd |-> "std_unordered_map"]}

MCInit ==
  \/ family = "grammars" /\ Init /\ NoEsp!Init
  \/ family = "esp" /\ E!Init /\ NoGrammar!Init
GrammarStep == family = "grammars" /\ Next /\ UNCHANGED <<family, espVars>>
EspStep == family = "esp" /\ E!Next /\ UNCHANGED <<family, allVars>>
GrammarDone == family = "grammars" /\ phase \in {"done", "overrun"} /\ UNCHANGED <<family, allVars, espVars>>
MCSpec ==
  MCInit /\ [][GrammarStep \/ EspStep \/ GrammarDone]_<<family, allVars, espVars>>

\* The blocks and the strings of the rounds of edit-sensitive parsing
\* (adjust_blocks and generate_grammar in EspContextImpl.hpp).
BlocksSound == family = "esp" => E!BlocksSound
RoundsDerive == family = "esp" => E!RoundsDerive

\* The subsequences of the succinct coding of its rules (DRCoder.hpp).
SubsequencesLongest == family = "esp" => E!SubsequencesLongest

\* What its decompressor makes of the code (EspCompressor.hpp).
TextBack == family = "esp" => E!TextBack
-----------------------------------------------------------------------------
(* The jobs of Grammars *)

Upto(k, S) == UNION {[1 .. m -> S] : m \in 0 .. k}
Job(comp, texts, min, exact, threshold, rules) ==
  {[comp |-> comp, text |-> t, min_lrf |-> min, exact |-> exact, threshold |-> threshold,
    max_rules |-> rules] : t \in texts}
WithEnd(S) == {t \o <<0>> : t \in S}

Small == Upto(6, {1, 2})
Repeats == {<<1, 2, 3, 1, 2, 3, 3, 1, 2>>, <<1, 1, 1, 2, 1, 1, 1, 1, 2>>,
            <<1, 2, 1, 2, 3, 1, 2, 1, 2, 1>>, <<3, 1, 2, 1, 3, 1, 2, 1, 2, 3>>,
            <<1, 2, 3, 3, 2, 2, 3, 3, 1, 2>>}
Texts == WithEnd(Small \cup Repeats)
MCJobs ==
  UNION {Job(c, Texts, 2, FALSE, 0, 0) : c \in {"esa", "st", "bst", "sim_st", "lfs2bst"}}
  \cup UNION {Job("lfs2", Texts, 2, e, 0, 0) : e \in BOOLEAN}
  \cup UNION {Job("lfs2", Texts, 1, e, 0, 0) : e \in BOOLEAN}
  \cup UNION {Job("repair", (Small \cup Repeats) \ {<<>>}, 0, FALSE, 0, r) : r \in {0, 1}}
  \cup UNION {Job("lz78u", Texts, 0, FALSE, h, 0) : h \in {1, 2, 3}}
-----------------------------------------------------------------------------
(* The jobs of Esp *)

Plain == [kind |-> "plain"]
SortedCoder(d) == [kind |-> "sorted", d |-> d]
Kind(k) == [kind |-> k]
Succinct(strategy, dx) == [kind |-> "succinct", subseq |-> strategy, dx |-> dx]
RangeFit(t, wt, zero) == [kind |-> "range_fit", threshold |-> t, wt |-> wt, zero_min |-> zero]

RangeFits == {RangeFit(t, wt, zero) : t \in {0, 60}, wt \in BOOLEAN, zero \in BOOLEAN}
Successions == {Succinct(s, Kind(k)) : s \in {"optimal", "greedy"},
                                        k \in {"plain", "huffman", "wavelet_tree"}}
AllCoders == {Plain} \cup {SortedCoder(d) : d \in RangeFits \cup Successions
                                                  \cup {Kind(k) : k \in {"plain", "huffman", "diff"}}}

\* All bytes different, in an order that is not theirs; k = 1 is theirs.
Stride(m, k) == [i \in 1 .. m |-> (i * k) % 64]
Repeat(s, m) == FlattenSeq([i \in 1 .. m |-> s])

\* Texts whose later rounds have alphabets of 7 to 8, 9 to 16 and more symbols.
Long == {Stride(m, k) : m \in {18, 25, 33, 42, 64}, k \in {1, 11, 37}}
Mixed == {Repeat(<<97, 98>>, 9) \o Repeat(<<97>>, 7) \o Repeat(<<255>>, 5),
          Repeat(<<7, 8, 9, 7, 7>>, 5), Repeat(<<1, 2, 1, 3>>, 6) \o <<255, 255, 1>>}
Few == Upto(4, {1, 2}) \cup Upto(4, {97, 255}) \cup Mixed \cup {Stride(18, 11)}

EspJob(texts, ipds) == {[text |-> t, ipd |-> i] : t \in texts, i \in ipds}
MCEspJobs ==
  EspJob(Upto(10, {1, 2}) \cup Upto(6, {97, 98, 99}) \cup Few \cup Long, {"std_unordered_map"})
  \cup EspJob(Few \cup Long, {"dynamic_size", "hash_map"})
MCEspCodersOf(j) ==
  IF j.ipd = "std_unordered_map" /\ j.text \in Few THEN AllCoders ELSE {Plain}
=============================================================================
