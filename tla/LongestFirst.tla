---------------------------- MODULE LongestFirst ----------------------------
(***************************************************************************)
(* Longest-first substitution, LFSCompressor with its four strategies: the *)
(* repeats of the text, the longest first, are replaced by symbols of a    *)
(* grammar.  The strategies st and bst walk a suffix tree of their own     *)
(* (BinarySuffixTree, built in the first steps), sim_st one of sdsl, esa   *)
(* the suffix and LCP arrays.  A bin holds the nodes of one string depth,  *)
(* or the suffix ranks of one factor length; the order inside a bin is     *)
(* left open, and so is that of the children of a node.  A sorted vector   *)
(* of distinct positions is the set of them.                               *)
(***************************************************************************)
EXTENDS BinarySuffixTree, CodedText

Index == INSTANCE TextIndex

CONSTANT FirstBins   \* how many bins STStrategy starts with

VARIABLES
  job,         \* [comp |-> the strategy or compressor, text, min_lrf, exact]
  phase,       \* "build", "substitute", "encoded", "done", "overrun"
  tree,        \* the suffix tree the bins are filled from
  bins, len,   \* the bins, and the one in work
  begins,      \* node -> beginning_positions
  dead,        \* dead_positions
  dictionary,  \* rule -> <<position in the text, length>>
  nts          \* nts_symbols: <<position, number of the rule, length>>

n == Len(Text)
IsLfs2 == job.comp \in {"lfs2", "lfs2bst"}
\* compress(): no rules are computed for a short text
TooShort == n < IF IsLfs2 THEN job.min_lrf ELSE 2
Builds == job.comp \in {"st", "bst", "lfs2bst"} /\ ~TooShort
-----------------------------------------------------------------------------
(* The tree as the strategies use it: its inner nodes, and for each its    *)
(* string depth, its parent, its inner children and the suffixes that are  *)
(* leaves below it.                                                        *)

\* compute_string_depth over the tree that was built: string_depth and parent
OwnTree ==
  LET inner == {m \in Nodes : IsInner(m)}
      KidSet(m) == ToSet(Children(m))
      Parent(m) == IF m = 0 THEN 0 ELSE CHOOSE k \in inner : m \in KidSet(k)
      Depth[m \in Nodes] == IF m = 0 THEN 0 ELSE Depth[Parent(m)] + edge_length(m)
  IN  [inner |-> inner,
       depth |-> [m \in inner |-> Depth[m]],
       parent |-> [m \in inner |-> Parent(m)],
       kids |-> [m \in inner |-> KidSet(m) \cap inner],
       leaves |-> [m \in inner |-> {suffix[k] : k \in KidSet(m) \ inner}]]

\* sdsl's tree of a text: a node is the string on the way to it, the root and
\* every string that two different symbols follow.
Occurrences(text, s) == {p \in 0 .. Len(text) - Len(s) : Slice(text, p, Len(s)) = s}
FollowedBy(text, s) == {text[p + Len(s) + 1] : p \in {q \in Occurrences(text, s) : q + Len(s) < Len(text)}}
BranchingOf(text) ==
  {s \in {Slice(text, p[1], p[2]) : p \in {q \in (0 .. Len(text) - 1) \X (0 .. Len(text) - 1) :
                                              q[1] + q[2] <= Len(text)}} :
     Cardinality(FollowedBy(text, s)) >= 2}
SdslTree(text) ==
  LET inner == BranchingOf(text) \cup {<<>>}
      Deepest(S) == CHOOSE s \in S : \A r \in S : Len(r) <= Len(s)
      Parent(s) == IF s = <<>> THEN s ELSE Deepest({r \in inner \ {s} : IsPrefix(r, s)})
      LeafParent(p) == Deepest({r \in inner : IsPrefix(r, SubSeq(text, p + 1, Len(text)))})
      parent == [s \in inner |-> Parent(s)]
      above == [p \in 0 .. Len(text) - 1 |-> LeafParent(p)]
  IN  [inner |-> inner,
       depth |-> [s \in inner |-> Len(s)],
       parent |-> parent,
       kids |-> [s \in inner |-> {r \in inner \ {<<>>} : parent[r] = s}],
       leaves |-> [s \in inner |-> {p \in DOMAIN above : above[p] = s}]]

NodeBins(t) == [d \in 0 .. n |-> IF d = 0 THEN {} ELSE {m \in t.inner : t.depth[m] = d}]

\* The orders compute_string_depth may walk the inner nodes in.
Preorders(t) ==
  LET Walks[m \in t.inner] ==
        UNION {FoldLeft(LAMBDA before, k : {a \o b : a \in before, b \in Walks[k]},
                        {<<m>>}, kids) : kids \in SetToSeqs(t.kids[m])}
  IN  Walks[CHOOSE m \in t.inner : t.depth[m] = 0]

\* How many bins STStrategy has after the walk: a node too deep for them doubles
\* them, once, and one that is too deep even then is put behind the last, for
\* which the 0 stands.
BinSizes(t) ==
  {FoldLeft(LAMBDA size, m : IF t.depth[m] < size THEN size
                             ELSE IF t.depth[m] < 2 * size THEN 2 * size ELSE 0,
            FirstBins, order) : order \in Preorders(t)}
-----------------------------------------------------------------------------
(* ESAStrategy: the suffix ranks by the length of their factor.            *)
LCPOf(sa) == [r \in DOMAIN sa |-> IF r = 0 THEN 0 ELSE Index!CommonPrefix(Text, sa[r - 1], sa[r])]
Distance(p, q) == IF p < q THEN q - p ELSE p - q

\* A match cannot be longer than its two suffixes are apart; a suffix further
\* up, as long as the matches are longer than that, may be further away.
FactorLength(sa, lcp, r) ==
  LET near == Distance(sa[r - 1], sa[r])
      short == IF near < lcp[r] THEN near ELSE lcp[r]
      Walk == {j \in 1 .. r - 1 : \A k \in j .. r - 1 : lcp[k] > short}
      dif == Max({near} \cup {Distance(sa[j], sa[r]) : j \in Walk})
  IN  IF dif < lcp[r] THEN dif ELSE lcp[r]

RankBins(sa, lcp) ==
  [d \in 0 .. n |-> {r \in DOMAIN sa \ {0} : lcp[r] >= job.min_lrf /\ FactorLength(sa, lcp, r) = d}]

\* The occurrences around rank r that are free at both ends.
StartingPositions(r) ==
  LET sa == tree.sa
      lcp == tree.lcp
      Match(k) == \/ k < r /\ \A i \in k + 1 .. r : lcp[i] >= len
                  \/ k >= r /\ \A i \in r .. k : lcp[i] >= len
  IN  {p \in {sa[k] : k \in {i \in DOMAIN sa : Match(i)}} : p \notin dead /\ p + len - 1 \notin dead}
-----------------------------------------------------------------------------
(* Substitution.                                                           *)
Covered(S, l) == {p + k : p \in S, k \in 0 .. l - 1}
\* The end of an occurrence not looked up.
FreeStart(p) == p \notin dead

FreeEnds(p) == p \notin dead /\ p + len - 1 \notin dead

\* select_starting_positions: from left to right, what does not overlap
Greedy(S) ==
  FoldLeft(LAMBDA sel, p : IF \A q \in sel : q + len <= p THEN sel \cup {p} ELSE sel, {}, Sorted(S))

\* min_shorter of STStrategy and SimSTStrategy: how far an occurrence reaches
\* that is free where it starts and dead where it ends.
MinShorter(S) ==
  FoldLeft(LAMBDA m, p : IF p \notin dead /\ p + len - 1 \in dead
                         THEN Min({k \in m .. n : p + k >= n \/ p + k \in dead})
                         ELSE m,
           1, Sorted(S))
Again(m, S) ==
  LET short == MinShorter(S)
  IN  IF job.comp \in {"st", "sim_st"} /\ short < len /\ short >= job.min_lrf
         /\ tree.depth[tree.parent[m]] < short
      THEN {short} ELSE {}

\* A new rule for the occurrences sel, the text at first its right-hand side.
NewRule(first, sel) ==
  /\ dictionary' = Append(dictionary, <<first, len>>)
  /\ nts' = nts \cup {<<p, Len(dictionary), len>> : p \in sel}
  /\ dead' = dead \cup Covered(sel, len)
NoRule == UNCHANGED <<dictionary, nts, dead>>

\* The beginning positions of a node: its own, or those of its children, which
\* lose theirs, and of its leaves.
Known(m) == m \in DOMAIN begins /\ (job.comp \in {"sim_st", "lfs2"} => begins[m] # {})
Gathered(m) ==
  IF Known(m) THEN begins[m]
  ELSE UNION {begins[k] : k \in tree.kids[m] \cap DOMAIN begins}
       \cup {p \in tree.leaves[m] : job.comp \in {"bst", "sim_st"} => p \notin dead}
Kept(m) == IF Known(m) THEN DOMAIN begins \ {m} ELSE DOMAIN begins \ (tree.kids[m] \cup {m})

\* Neighbours that touch taken for ones that overlap.
WorthALookStrict(S) ==
  IF job.comp = "sim_st" THEN S # {} /\ (Cardinality(S) >= 2 => Max(S) - Min(S) > len)
  ELSE Cardinality(S) >= 2 /\ Max(S) - Min(S) > len /\ {Max(S), Min(S)} \cap dead = {}

\* Whether the node is worth a look: far enough apart, and for two of the
\* strategies alive at its first and its last position.
WorthALook(S) ==
  IF job.comp = "sim_st" THEN S # {} /\ (Cardinality(S) >= 2 => Max(S) - Min(S) >= len)
  ELSE Cardinality(S) >= 2 /\ Max(S) - Min(S) >= len /\ {Max(S), Min(S)} \cap dead = {}
Remaining(S, sel) ==
  CASE job.comp = "st" -> S
    [] job.comp = "bst" -> {p \in S \ sel : p \notin dead}
    [] job.comp = "sim_st" -> S \ sel

AfterBuild == phase = "build" /\ (Builds => Built)
lfsVars == <<job, phase, tree, bins, len, begins, dead, dictionary, nts>>
Unchanged == UNCHANGED vars /\ UNCHANGED job

LfsInit ==
  /\ phase = "build" /\ tree = [inner |-> {}] /\ bins = <<>> /\ len = 0
  /\ begins = [m \in {} |-> {}] /\ dead = {} /\ dictionary = <<>> /\ nts = {}

\* compute_rules before its loop
FillBins ==
  /\ AfterBuild
  /\ phase' = "substitute" /\ len' = n
  /\ IF TooShort THEN tree' = tree /\ bins' = [d \in 0 .. n |-> {}]
     ELSE IF job.comp = "esa"
     THEN \E sa \in {Index!SuffixArray(Text)} : \E lcp \in {LCPOf(sa)} :
            tree' = [sa |-> sa, lcp |-> lcp] /\ bins' = RankBins(sa, lcp)
     ELSE \E t \in {IF Builds THEN OwnTree ELSE SdslTree(Text)} :
            /\ job.comp = "st" => BinSizes(t) # {0}
            /\ tree' = t /\ bins' = NodeBins(t)
  /\ UNCHANGED <<begins, dead, dictionary, nts>> /\ Unchanged

\* STStrategy writes behind its bins: the program is lost, and so is the run.
BinsOverrun ==
  /\ AfterBuild /\ job.comp = "st" /\ ~TooShort /\ 0 \in BinSizes(OwnTree)
  /\ phase' = "overrun"
  /\ UNCHANGED <<tree, bins, len, begins, dead, dictionary, nts>> /\ Unchanged

\* The body of the loop over a bin, for the strategies that walk a tree.
VisitNode ==
  /\ phase = "substitute" /\ job.comp \in {"st", "bst", "sim_st"} /\ len >= job.min_lrf
  /\ \E m \in bins[len] :
       \E S \in {Gathered(m)} :
       \E sel \in {IF WorthALook(S) THEN Greedy({p \in S : FreeEnds(p)}) ELSE {}} :
       \E again \in {IF WorthALook(S) THEN Again(m, S) ELSE {}} :
         /\ bins' = [d \in DOMAIN bins |->
                       IF d = len THEN bins[d] \ {m} ELSE bins[d] \cup {k \in {m} : d \in again}]
         /\ begins' = [k \in Kept(m) \cup {m} |->
                         IF k # m THEN begins[k]
                         ELSE IF Cardinality(sel) >= 2 THEN Remaining(S, sel) ELSE S]
         /\ IF Cardinality(sel) >= 2 THEN NewRule(Min(sel), sel) ELSE NoRule
  /\ UNCHANGED <<phase, tree, len>> /\ Unchanged

\* The same for ESAStrategy; the rule is the occurrence of the rank itself.
VisitRank ==
  /\ phase = "substitute" /\ job.comp = "esa" /\ len >= job.min_lrf
  /\ \E r \in bins[len] :
       \E sel \in {Greedy(StartingPositions(r))} :
         /\ bins' = [bins EXCEPT ![len] = @ \ {r}]
         /\ IF Cardinality(sel) >= 2 THEN NewRule(tree.sa[r], sel) ELSE NoRule
  /\ UNCHANGED <<phase, tree, len, begins>> /\ Unchanged

NextBin ==
  /\ phase = "substitute" /\ len >= job.min_lrf /\ bins[len] = {}
  /\ len' = len - 1
  /\ UNCHANGED <<phase, tree, bins, begins, dead, dictionary, nts>> /\ Unchanged
Substituted == phase = "substitute" /\ len < job.min_lrf
-----------------------------------------------------------------------------
(* EncodeStrategy, and the code of LFS2 where it is the same.              *)

\* The differences the wrong way round.
LengthsRising ==
  LET k == Len(dictionary)
      l == [i \in 1 .. k |-> dictionary[i][2]]
  IN  IF k = 0 THEN <<Code(0, LengthR)>>
      ELSE <<Code(l[1], LengthR)>> \o [i \in 1 .. k - 1 |-> Code(l[i + 1] - l[i], l[1])]
           \o <<Code(l[k], l[1])>>

\* The lengths of the rules: the first, the differences, and the last length
\* once more, which brings the decoder to 0.
EncodeLengths ==
  LET k == Len(dictionary)
      l == [i \in 1 .. k |-> dictionary[i][2]]
  IN  IF k = 0 THEN <<Code(0, LengthR)>>
      ELSE <<Code(l[1], LengthR)>> \o [i \in 1 .. k - 1 |-> Code(l[i] - l[i + 1], l[1])]
           \o <<Code(l[k], l[1])>>

EncodeRules ==
  Flat(Len(dictionary), LAMBDA i : [k \in 1 .. dictionary[i][2] |->
                                      Code(Text[dictionary[i][1] + k], LiteralR)])

\* The text with its symbols from left to right; from is where the rest starts.
Literals(from, to) == Flat(to - from, LAMBDA k : Literal(Text[from + k]))
EncodeStart ==
  LET order == Sorted({s[1] : s \in nts})
      SymbolAt(p) == CHOOSE s \in nts : s[1] = p
      Add(acc, s) ==
        [from |-> Max({acc.from, s[1]}) + s[3],
         tape |-> acc.tape \o Literals(acc.from, s[1]) \o Symbol(s[2], Len(dictionary))]
      coded == FoldLeft(LAMBDA acc, p : Add(acc, SymbolAt(p)), [from |-> 0, tape |-> <<>>], order)
  IN  coded.tape \o Literals(coded.from, n)
EncodeLfs == EncodeLengths \o EncodeRules \o EncodeStart
\* ViewLiterals(in): the whole text
LfsLiterals == ToSet(Text)

\* The lengths of the rules as decode reads them.
DecodeLengths(tape) ==
  LET first == Read(tape, 1, LengthR)
      L[i \in Nat] == IF i = 1 THEN first ELSE L[i - 1] - Read(tape, i, first)
      k == CHOOSE i \in 1 .. Len(tape) : L[i] = 0 /\ \A j \in 1 .. i - 1 : L[j] # 0
  IN  [i \in 1 .. k - 1 |-> L[i]]

\* The symbols from position p on, until the end of the input.
DecodeStart(tape, p, rules, base) ==
  LET Part(q) == IF IsSymbol(tape, q)
                 THEN LET s == Read(tape, q + 1, Len(rules)) + 1 - base
                      IN  IF s \in DOMAIN rules THEN rules[s] ELSE <<>>
                 ELSE <<Read(tape, q + 1, LiteralR)>>
      count == (Len(tape) - p + 1) \div 2
  IN  Flat(count, LAMBDA i : Part(p + 2 * (i - 1)))

DecodeLfs(tape) ==
  LET lengths == DecodeLengths(tape)
      head == Len(lengths) + 1
      Before(i) == FoldLeft(LAMBDA a, b : a + b, head, SubSeq(lengths, 1, i - 1))
      rules == [i \in DOMAIN lengths |->
                  [k \in 1 .. lengths[i] |-> Read(tape, Before(i) + k, LiteralR)]]
  IN  DecodeStart(tape, Before(Len(lengths) + 1) + 1, rules, 0)
-----------------------------------------------------------------------------
(***************************************************************************)
(* LFS2Compressor and LFS2BSTCompressor: longest-first substitution in two *)
(* layers.  An occurrence in untouched text becomes a symbol of the first  *)
(* layer.  One that lies inside a symbol is replaced in the right-hand side*)
(* of that symbol, which is the text at the symbol's first occurrence: the *)
(* second layer.                                                           *)
(***************************************************************************)

VARIABLES
  first_layer_nts,     \* position -> number of the rule that starts there, from 1
  fl_offsets,          \* position -> 1 + its offset in the symbol over it, 0 when free
  second_layer_nts,    \* the same two for right-hand sides
  second_layer_dead
lfs2Vars == <<first_layer_nts, fl_offsets, second_layer_nts, second_layer_dead>>

Lfs2Init ==
  LET Zero == [p \in 0 .. n - 1 |-> 0]
  IN  /\ first_layer_nts = Zero /\ fl_offsets = Zero /\ second_layer_nts = Zero
      /\ second_layer_dead = {}

\* The rule whose symbol covers position p, and the place of p in the text of
\* its right-hand side.
RuleAt(p) == dictionary[first_layer_nts[p - (fl_offsets[p] - 1)]]
PlaceOf(p) == RuleAt(p)[1] + fl_offsets[p] - 1

\* An occurrence is viable in the first layer when it is free, in the second
\* when it lies in one symbol; only the first kind keeps the next ones away.
Viable(S) ==
  LET Add(acc, p) ==
        IF \E q \in acc.first : q + len > p THEN acc
        ELSE IF fl_offsets[p] = 0
        THEN [acc EXCEPT !.first = @ \cup {q \in {p} : fl_offsets[p + len - 1] = 0}]
        ELSE [acc EXCEPT !.second = @ \cup {q \in {p} : RuleAt(p)[2] >= fl_offsets[p] - 1 + len}]
  IN  FoldLeft(Add, [first |-> {}, second |-> {}], Sorted(S))

\* The places in right-hand sides that are still free, one after the other.
FreePlaces(S) ==
  LET Ends(s) == {s, s + len - 1}
      Add(acc, p) ==
        LET s == PlaceOf(p)
        IN  IF Ends(s) \cap (second_layer_dead \cup Covered(acc, len)) = {} THEN acc \cup {s} ELSE acc
  IN  FoldLeft(Add, {}, Sorted(S))

Substitute(first, second) ==
  LET number == Len(dictionary) + 1
      places == FreePlaces(second)
      start1 == [p \in Covered(first, len) |-> CHOOSE q \in first : p \in q .. q + len - 1]
  IN  /\ dictionary' = Append(dictionary, <<Min(first), len>>)
      /\ first_layer_nts' = [p \in 0 .. n - 1 |-> IF p \in first THEN number ELSE first_layer_nts[p]]
      /\ fl_offsets' = [p \in 0 .. n - 1 |->
                          IF p \in DOMAIN start1 THEN p - start1[p] + 1 ELSE fl_offsets[p]]
      /\ second_layer_nts' = [p \in 0 .. n - 1 |->
                                IF p \in places THEN number ELSE second_layer_nts[p]]
      /\ second_layer_dead' = second_layer_dead \cup Covered(places, len)

\* The body of the loop over a bin.  A node whose occurrences all overlap is
\* put into the bin of the length they do not overlap in, if exact is set.
VisitNode2 ==
  /\ phase = "substitute" /\ IsLfs2 /\ len >= job.min_lrf
  /\ \E m \in bins[len] :
       \E S \in {Gathered(m)} :
       \E v \in {Viable(S)} :
       \E width \in {IF S = {} THEN 0 ELSE Max(S) - Min(S)} :
       \E again \in {IF job.exact /\ Cardinality(S) >= 2 /\ width < len
                        /\ tree.depth[tree.parent[m]] < width
                     THEN {width} ELSE {}} :
         /\ bins' = [d \in DOMAIN bins |->
                       IF d = len THEN bins[d] \ {m} ELSE bins[d] \cup {k \in {m} : d \in again}]
         /\ begins' = [k \in Kept(m) \cup {m} |-> IF k = m THEN S ELSE begins[k]]
         /\ IF Cardinality(S) >= 2 /\ width >= len /\ v.first # {}
               /\ Cardinality(v.first) + Cardinality(v.second) >= 2
            THEN Substitute(v.first, v.second)
            ELSE UNCHANGED <<dictionary, lfs2Vars>>
  /\ UNCHANGED <<phase, tree, len, dead, nts>> /\ Unchanged
-----------------------------------------------------------------------------
\* What starts at position p of a layer from left to right, up to before to.
EncodeLayer(layer, from, to) ==
  LET E[p \in Nat] ==
        IF p >= to THEN <<>>
        ELSE IF layer[p] > 0
        THEN Symbol(layer[p], Len(dictionary)) \o E[p + dictionary[layer[p]][2]]
        ELSE Literal(Text[p + 1]) \o E[p + 1]
  IN  E[from]

\* The right-hand sides from the first rule on.
EncodeRulesForward ==
  Flat(Len(dictionary), LAMBDA i : EncodeLayer(second_layer_nts, dictionary[i][1],
                                               dictionary[i][1] + dictionary[i][2]))

\* The right-hand sides, the last rule first.
EncodeRules2 ==
  LET k == Len(dictionary)
      Side(i) == EncodeLayer(second_layer_nts, dictionary[i][1], dictionary[i][1] + dictionary[i][2])
  IN  Flat(k, LAMBDA i : Side(k + 1 - i))
EncodeLfs2 == EncodeLengths \o EncodeRules2 \o EncodeLayer(first_layer_nts, 0, n)

\* The literals counted for the coder.
Lfs2Literals ==
  {Text[p + 1] : p \in {q \in 0 .. n - 1 :
     \/ fl_offsets[q] = 0
     \/ /\ second_layer_nts[q] = 0
        /\ \E i \in DOMAIN dictionary : q \in dictionary[i][1] .. dictionary[i][1] + dictionary[i][2] - 1}}

\* The right-hand sides are read the last rule first, each until it has the
\* length of its rule.
DecodeLfs2(tape) ==
  LET lengths == DecodeLengths(tape)
      k == Len(lengths)
      Side[p \in Nat, left \in Int, got \in Seq(Int), rules \in Seq(Seq(Int))] ==
        IF left <= 0 THEN [p |-> p, got |-> got]
        ELSE IF IsSymbol(tape, p)
        THEN LET s == Read(tape, p + 1, k)
             IN  IF s \in 1 .. k THEN Side[p + 2, left - lengths[s], got \o rules[s], rules]
                 ELSE [p |-> p + 2, got |-> got]
        ELSE Side[p + 2, left - 1, Append(got, Read(tape, p + 1, LiteralR)), rules]
      Add(acc, i) ==
        LET side == Side[acc.p, lengths[i], <<>>, acc.rules]
        IN  [p |-> side.p, rules |-> [acc.rules EXCEPT ![i] = side.got]]
      all == FoldLeft(Add, [p |-> k + 2, rules |-> [i \in 1 .. k |-> <<>>]],
                      [i \in 1 .. k |-> k + 1 - i])
  IN  DecodeStart(tape, all.p, all.rules, 1)
=============================================================================
