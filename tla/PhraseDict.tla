----------------------------- MODULE PhraseDict -----------------------------
(***************************************************************************)
(* The dictionary of LZ78 and LZW as compressors/lz78/LZ78Trie.hpp defines *)
(* it for its implementations: nodes are numbered in order of insertion,   *)
(* the first `roots` of them being root nodes.  A dictionary is the        *)
(* sequence of its other nodes, each [parent, c].                          *)
(***************************************************************************)
EXTENDS Integers, Sequences

\* size(): entries plus root nodes; also the number the next node will get.
Size(dict, roots) == roots + Len(dict)

HasChild(dict, parent, c) ==
  \E i \in 1 .. Len(dict) : dict[i].parent = parent /\ dict[i].c = c

\* find_or_insert when the child exists ...
Child(dict, roots, parent, c) ==
  roots - 1 + CHOOSE i \in 1 .. Len(dict) : dict[i].parent = parent /\ dict[i].c = c

\* ... and when it does not.
Insert(dict, parent, c) == Append(dict, [parent |-> parent, c |-> c])

\* The phrase of every node: that of its root and the labels on the way.
Phrases(dict, roots, root) ==
  LET P[id \in 0 .. Size(dict, roots) - 1] ==
        IF id < roots THEN root[id]
        ELSE LET e == dict[id - roots + 1] IN Append(P[e.parent], e.c)
  IN  P

\* The nodes form a trie: no node has two children with the same label, and a
\* parent is older than its children.
IsTrie(dict, roots) ==
  /\ \A i \in 1 .. Len(dict) : dict[i].parent \in 0 .. roots + i - 2
  /\ \A i, j \in 1 .. Len(dict) : dict[i] = dict[j] => i = j
=============================================================================
