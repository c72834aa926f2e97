------------------------------ MODULE Grammars ------------------------------
(***************************************************************************)
(* The compressors that replace repeats by symbols of a grammar or a       *)
(* dictionary, each from its text to its code and back: LFSCompressor with *)
(* its four strategies, LFS2Compressor, LFS2BSTCompressor, RePairCompressor*)
(* and LZ78UCompressor.                                                    *)
(***************************************************************************)
EXTENDS LongestFirst

CONSTANT Jobs      \* what to run: a text and the options of a compressor

RP == INSTANCE RePair
LU == INSTANCE LZ78U

VARIABLES
  syms, grammar,   \* RePairCompressor: the text with its symbols, the rules
  at, R, z,        \* LZ78UCompressor: pos, the factor of a node, the factors so far
  tape, out        \* the code, and the text read back from it
rpVars == <<syms, grammar>>
luVars == <<at, R, z>>
allVars == <<vars, lfsVars, lfs2Vars, rpVars, luVars, tape, out>>

Init ==
  /\ \E j \in Jobs : Text = j.text /\ job = j
  /\ TreeInit /\ LfsInit /\ Lfs2Init
  /\ syms = Text /\ grammar = <<>>
  /\ at = 0 /\ z = 0
  /\ R = [s \in (IF job.comp = "lz78u" THEN BranchingOf(Text) \cup {<<>>} ELSE {}) |-> 0]
  /\ tape = <<>> /\ out = <<>>

IsLfs == job.comp \in {"esa", "st", "bst", "sim_st"}

GrowTree ==
  /\ Builds /\ TreeNext
  /\ UNCHANGED <<lfsVars, lfs2Vars, rpVars, luVars, tape, out>>

Substitution ==
  /\ IsLfs \/ IsLfs2
  /\ \/ FillBins /\ UNCHANGED lfs2Vars
     \/ BinsOverrun /\ UNCHANGED lfs2Vars
     \/ VisitNode /\ UNCHANGED lfs2Vars
     \/ VisitRank /\ UNCHANGED lfs2Vars
     \/ VisitNode2
     \/ NextBin /\ UNCHANGED lfs2Vars
  /\ UNCHANGED <<rpVars, luVars, tape, out>>

\* One round of the loop in RePairCompressor: count, then replace.
Round ==
  /\ job.comp = "repair" /\ phase = "build"
  /\ RP!MaxCount(syms) > 1
  /\ grammar = <<>> \/ job.max_rules = 0 \/ Len(grammar) < job.max_rules
  /\ \E di \in {RP!MaxDigram(syms)} :
       /\ grammar' = Append(grammar, di)
       /\ syms' = RP!Replace(syms, di, RP!sigma + Len(grammar))
  /\ UNCHANGED <<vars, lfsVars, lfs2Vars, luVars, tape, out>>
RoundsDone ==
  /\ job.comp = "repair" /\ phase = "build"
  /\ RP!MaxCount(syms) <= 1 \/ (job.max_rules > 0 /\ Len(grammar) >= job.max_rules)

\* One factor of LZ78UCompressor, to the first node without one, or one symbol
\* into a leaf.
Factor ==
  /\ job.comp = "lz78u" /\ phase = "build" /\ at < n - 1
  /\ \E path \in {LU!Path(Text, DOMAIN R, at)} :
     LET Node(i) == LU!NodeAt(Text, at, path[i])
         above == path[Len(path)]
         Put(b, e, ref) == LU!OutputFactor(Text, DOMAIN R, R, b, e, ref, job.threshold, z)
     IN  IF above = 0 \/ R[Node(Len(path))] # 0
         THEN /\ tape' = tape \o Put(at + above, at + above + 1, R[Node(Len(path))])
              /\ at' = at + above + 1
              /\ UNCHANGED R
         ELSE \E k \in {LU!Walked(Text, R, path, at) + 1} :
                /\ tape' = tape \o Put(at + path[k], at + path[k + 1], R[Node(k)])
                /\ at' = at + path[k + 1]
                /\ R' = [R EXCEPT ![Node(k + 1)] = (z + 1) % 2 ^ LU!NumberBits(Text)]
  /\ z' = z + 1
  /\ UNCHANGED <<vars, lfsVars, lfs2Vars, rpVars, out>>

\* What was kept back is written, through the buffers of BufferingStrategy for
\* LZ78U.
Encode ==
  /\ \/ Substituted
     \/ RoundsDone
     \/ job.comp = "lz78u" /\ phase = "build" /\ at >= n - 1
  /\ tape' = CASE IsLfs -> EncodeLfs
               [] IsLfs2 -> EncodeLfs2
               [] job.comp = "repair" -> RP!EncodeRePair(syms, grammar)
               [] job.comp = "lz78u" -> LU!Flushed(LU!Buffered(tape))
  /\ phase' = "encoded"
  /\ UNCHANGED <<vars, job, tree, bins, len, begins, dead, dictionary, nts, lfs2Vars,
                 rpVars, luVars, out>>

Decode ==
  /\ phase = "encoded"
  /\ out' = CASE IsLfs -> DecodeLfs(tape)
              [] IsLfs2 -> DecodeLfs2(tape)
              [] job.comp = "repair" -> RP!DecodeRePair(tape)
              [] job.comp = "lz78u" -> LU!DecodeLz78u(tape)
  /\ phase' = "done"
  /\ UNCHANGED <<vars, job, tree, bins, len, begins, dead, dictionary, nts, lfs2Vars,
                 rpVars, luVars, tape>>

Next == GrowTree \/ Substitution \/ Round \/ Factor \/ Encode \/ Decode
Spec == Init /\ [][Next]_allVars
-----------------------------------------------------------------------------
(* Ukkonen's tree.                                                         *)

\* What is read on the way from the root to node m.
EdgeOf(m) == Slice(Text, start[m], edge_length(m))
Labels ==
  LET L[m \in Nat, before \in Seq(Nat)] ==
        {<<m, before>>} \cup UNION {L[k, before \o EdgeOf(k)] : k \in ToSet(Children(m))}
  IN  L[0, <<>>]
Label(labels, m) == (CHOOSE l \in labels : l[1] = m)[2]

\* After every symbol the tree holds the suffixes of what was read and nothing
\* else: a leaf for each that occurs once, in the order of their positions and
\* under the number of its position, a way for each of the others, and inner
\* nodes only where the ways part (add_char).
TreeHoldsSuffixes ==
  ~adding /\ Builds =>
    \E labels \in {Labels} :
      LET leaves == {l \in labels : ~IsInner(l[1])}
          Suffix(p) == Slice(Text, p, pos + 1 - p)
      IN  /\ pos + 1 = current_suffix + remainder
          /\ {<<suffix[l[1]], l[2]>> : l \in leaves} = {<<p, Suffix(p)>> : p \in 0 .. current_suffix - 1}
          /\ \A p \in current_suffix .. pos : \E l \in leaves : IsPrefix(Suffix(p), l[2])
          /\ \A m \in Nodes : IsInner(m) /\ m # 0 =>
               Cardinality({At(start[k]) : k \in ToSet(Children(m))}) >= 2

\* The suffix link of a node leads to the node without its first symbol, so
\* that the next suffix is inserted where it belongs (add_sl).
LinksDropFirst ==
  ~adding /\ Builds =>
    \E labels \in {Labels} :
      \A m \in Nodes : IsInner(m) /\ m # 0 =>
        Label(labels, suffix_link[m]) = Tail(Label(labels, m))

\* Ukkonen's tree, after every symbol (BinarySuffixTree::add_char).
TreeSound == TreeHoldsSuffixes /\ LinksDropFirst

\* The arrays reserve() allocates are long enough: no step reads a sibling,
\* follows a link or makes a node outside of them.
NodesInArrays ==
  /\ new_node \in DOMAIN start
  /\ adding => /\ active_node \in DOMAIN first_child
               /\ last_added_sl \in DOMAIN suffix_link
               /\ \A i \in 1 .. FoundAt - 1 : Siblings[i] \in DOMAIN next_sibling
               /\ Child # 0 => Child \in DOMAIN next_sibling

\* Both suffix trees are the same tree at every step: the sibling lists of
\* BinarySuffixTree implement the maps of SuffixTree.
BinaryImplements == Tree!Spec
-----------------------------------------------------------------------------
(* The substitutions.                                                      *)
RuleText(i) == Slice(Text, dictionary[i][1], dictionary[i][2])
Disjoint(S) == \A a, b \in S : a # b => a[1] + a[2] <= b[1] \/ b[1] + b[2] <= a[1]
LayerOf(layer) == {<<p, dictionary[layer[p]][2], layer[p]>> : p \in {q \in DOMAIN layer : layer[q] > 0}}
Reads(S) == \A a \in S : Slice(Text, a[1], a[2]) = RuleText(a[3])

\* Symbols stand for the text under them and never overlap, although only the
\* two ends of an occurrence are looked up in the bit vector of replaced
\* positions; what is replaced in a right-hand side lies within one rule, an
\* older one (the strategies of LFSCompressor, both layers of LFS2Compressor).
\* The symbols and rules of Re-Pair derive the text, whatever was replaced.
SymbolsSound ==
  /\ job.comp = "repair" => RP!Expand(grammar, syms) = Text
  /\ \E S \in {{<<s[1], s[3], s[2] + 1>> : s \in nts}} : Disjoint(S) /\ Reads(S)
  /\ IsLfs2 =>
       \E first \in {LayerOf(first_layer_nts)} : \E second \in {LayerOf(second_layer_nts)} :
         /\ Disjoint(first) /\ Reads(first) /\ Disjoint(second) /\ Reads(second)
         /\ \A s \in second : \E i \in 1 .. s[3] - 1 :
              dictionary[i][1] <= s[1] /\ s[1] + s[2] <= dictionary[i][1] + dictionary[i][2]

\* Until there is a rule, no string longer than the bin in work occurs twice
\* without overlap: the first rule is a longest repeat, although only nodes of
\* the tree are looked at and a string in the middle of an edge never is.  The
\* strategy esa is left out: it looks at ranks and misses some repeats.
LongestRepeatFirst ==
  phase = "substitute" /\ job.comp # "esa" /\ ~TooShort /\ dictionary = <<>> =>
    \A l \in len + 1 .. n : \A p, q \in 0 .. n - l :
      l >= job.min_lrf /\ p + l <= q => Slice(Text, p, l) # Slice(Text, q, l)

\* The number of a node is the number of the factor whose labels spell the node
\* for the decoder, whether its label was coded plainly or by other factors
\* (compress, lz78u::Decompressor).
NodesNameFactors ==
  job.comp = "lz78u" =>
    \E factors \in {LU!ReadFactors(tape)} :
      /\ Len(factors) = z
      /\ \A s \in DOMAIN R : R[s] # 0 => LU!FactorString(factors, R[s], <<>>) = s
-----------------------------------------------------------------------------
(* The codes.                                                              *)

\* Every value is in the range it is coded in: lengths differ by what the
\* range of the first one allows, rules and factors name older ones.
ValuesFit == \A i \in DOMAIN tape : Fits(tape[i])

\* A coder that counts literals before it codes has counted all it is given:
\* the literals it is built with are those of the text, of the first layer and
\* the right-hand sides, or of the symbols cut to a byte.
LiteralsCounted ==
  phase \in {"encoded", "done"} /\ job.comp # "lz78u" =>
    {tape[i].v : i \in {j \in DOMAIN tape : tape[j].r = LiteralR}}
      \subseteq (CASE IsLfs -> LfsLiterals
                   [] IsLfs2 -> Lfs2Literals
                   [] job.comp = "repair" -> RP!RePairLiterals(syms, grammar))

\* What the coders are given, they can code.
CodesFit == ValuesFit /\ LiteralsCounted

\* What is decoded is the text; a value asked for in another range than its
\* own reads as garbage.
ReadsBack == phase = "done" => out = Text
=============================================================================
