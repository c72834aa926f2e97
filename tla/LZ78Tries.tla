----------------------------- MODULE LZ78Tries ------------------------------
(***************************************************************************)
(* The pointer and the hash implementations of the LZ78 dictionary.        *)
(*   binary   BinaryTrie        children in a list, in order of insertion  *)
(*   sorted   BinarySortedTrie  children in a list, sorted by character    *)
(*   ternary  TernaryTrie       children in a binary search tree           *)
(*   hash     HashTrie          (parent, character) packed into one key    *)
(* A slot <<f, id>> is the entry `id` of one of the vectors: first_child,  *)
(* next_sibling (left_sibling in the ternary trie) or right_sibling.  Node *)
(* ids are 0, 1, 2, ... in the order of insertion.                         *)
(***************************************************************************)
EXTENDS Integers, FiniteSets, Sequences

CONSTANTS Kinds,    \* the implementations to run
          Sigma,    \* the characters, numbers
          Roots,    \* LZ78: 1; LZW: the size of the alphabet
          MaxSize   \* bound on the number of nodes

ASSUME TriesAssumption ==
  /\ Kinds \subseteq {"binary", "sorted", "ternary", "hash"}
  /\ Sigma \subseteq Nat /\ Roots \in Nat \ {0} /\ MaxSize \in Nat

VARIABLES kind,    \* which implementation this is
          link,    \* [vector -> [node -> node or Undef]]
          literal, \* the label of the edge to each node
          table,   \* the hash table: <<parent, c>> -> id
          answer   \* the node_t the last call returned

vars == <<kind, link, literal, table, answer>>

Undef == -1  \* undef_id
Fields == {"first", "next", "right"}

LinkedRoots ==
  [link |-> [f \in Fields |-> [i \in 0 .. Roots - 1 |-> Undef]],
   literal |-> [i \in 0 .. Roots - 1 |-> i]]

Ids == DOMAIN literal
At(slot) == link[slot[1]][slot[2]]

(***************************************************************************)
(* The search loops.  Each follows slots from <<"first", parent>> until it *)
(* is at the slot that holds c's node or in which a node for c belongs.    *)
(***************************************************************************)
ListStep(slot, c) == <<"next", At(slot)>>
ListEnds(slot, c) == At(slot) = Undef \/ literal[At(slot)] = c
SortedEnds(slot, c) == At(slot) = Undef \/ literal[At(slot)] >= c
TreeStep(slot, c) ==
  <<IF c < literal[At(slot)] THEN "next" ELSE "right", At(slot)>>

Ends(slot, c) == IF kind = "sorted" THEN SortedEnds(slot, c) ELSE ListEnds(slot, c)
Step(slot, c) == IF kind = "ternary" THEN TreeStep(slot, c) ELSE ListStep(slot, c)

\* The slot at which find_or_insert(parent, c) stops.
Slot(parent, c) ==
  LET Walk[slot \in Fields \X Ids] ==
        IF Ends(slot, c) THEN slot ELSE Walk[Step(slot, c)]
  IN  Walk[<<"first", parent>>]

Linked == kind # "hash"
Size == IF Linked THEN Cardinality(Ids) ELSE Cardinality(DOMAIN table)

\* The node that find_or_insert(parent, c) finds, or Undef.
Found(parent, c) ==
  IF Linked
  THEN LET id == At(Slot(parent, c))
       IN  IF id # Undef /\ literal[id] = c THEN id ELSE Undef
  ELSE IF <<parent, c>> \in DOMAIN table THEN table[<<parent, c>>] ELSE Undef

\* Mutant: a node put in front of a larger one forgets it.
GrowForgetting(parent, c) ==
  LET slot == Slot(parent, c) new == Cardinality(Ids)
  IN  /\ link' = [f \in Fields |-> [id \in 0 .. new |->
                   IF <<f, id>> = slot THEN new
                   ELSE IF id = new THEN Undef ELSE link[f][id]]]
      /\ literal' = [id \in 0 .. new |-> IF id = new THEN c ELSE literal[id]]

\* The push_backs of a new leaf, and the slot that now points to it.  Only the
\* sorted list ever inserts in front of a node.
Grow(parent, c) ==
  LET slot == Slot(parent, c) new == Cardinality(Ids)
  IN  /\ link' = [f \in Fields |-> [id \in 0 .. new |->
                   IF <<f, id>> = slot THEN new
                   ELSE IF id < new THEN link[f][id]
                   ELSE IF f = "next" THEN At(slot) ELSE Undef]]
      /\ literal' = [id \in 0 .. new |-> IF id = new THEN c ELSE literal[id]]

\* HashMap::insert of a new key.  Mutant: the value is the size after it.
PutLate(key) ==
  table' = [k \in DOMAIN table \cup {key} |-> IF k = key THEN Size + 1 ELSE table[k]]
Put(key) ==
  table' = [k \in DOMAIN table \cup {key} |-> IF k = key THEN Size ELSE table[k]]

\* add_rootnode(0), ..., add_rootnode(Roots - 1) of the hash trie: the key of
\* a root is create_node(0, c).
RootsIn(t) ==
  [k \in DOMAIN t \cup {<<0, i>> : i \in 0 .. Roots - 1} |->
     IF k \in DOMAIN t THEN t[k] ELSE k[2]]

Init ==
  /\ kind \in Kinds
  /\ link = IF Linked THEN LinkedRoots.link ELSE [f \in Fields |-> <<>>]
  /\ literal = IF Linked THEN LinkedRoots.literal ELSE <<>>
  /\ table = IF Linked THEN <<>> ELSE RootsIn(<<>>)
  /\ answer = [id |-> Roots - 1, new |-> TRUE]

Find(parent, c) ==
  /\ Found(parent, c) # Undef
  /\ answer' = [id |-> Found(parent, c), new |-> FALSE]
  /\ UNCHANGED <<kind, link, literal, table>>

InsertLinked(parent, c) ==
  /\ Linked /\ Size < MaxSize
  /\ Found(parent, c) = Undef
  /\ Grow(parent, c)
  /\ answer' = [id |-> Size, new |-> TRUE]
  /\ UNCHANGED <<kind, table>>

InsertHashed(parent, c) ==
  /\ ~Linked /\ Size < MaxSize
  /\ Found(parent, c) = Undef
  /\ Put(<<parent, c>>)
  /\ answer' = [id |-> Size, new |-> TRUE]
  /\ UNCHANGED <<kind, link, literal>>

\* clear() and the calls of add_rootnode that follow it in the compressors.
ResetLinked ==
  /\ Linked
  /\ link' = LinkedRoots.link /\ literal' = LinkedRoots.literal
  /\ answer' = [id |-> Roots - 1, new |-> TRUE]
  /\ UNCHANGED <<kind, table>>

\* HashTrie::clear() does nothing.
ResetHashed ==
  /\ ~Linked
  /\ table' = RootsIn(table)
  /\ answer' = [id |-> Cardinality(DOMAIN table') - 1, new |-> TRUE]
  /\ UNCHANGED <<kind, link, literal>>

Next ==
  \/ \E parent \in 0 .. Size - 1, c \in Sigma :
       Find(parent, c) \/ InsertLinked(parent, c) \/ InsertHashed(parent, c)
  \/ ResetLinked
  \/ ResetHashed

Spec == Init /\ [][Next]_vars
-----------------------------------------------------------------------------
TypeOK ==
  /\ kind \in Kinds
  /\ answer \in [id : Nat, new : BOOLEAN]
  /\ Linked =>
       /\ literal \in [0 .. Size - 1 -> Sigma \cup 0 .. Roots - 1]
       /\ link \in [Fields -> [0 .. Size - 1 -> {Undef} \cup 0 .. Size - 1]]
       /\ table = <<>>
  /\ ~Linked => \A k \in DOMAIN table : table[k] \in 0 .. Size - 1

\* The dictionary the trie stands for: its nodes in order of insertion, each
\* with the edge by which find_or_insert reaches it.
Dictionary ==
  LET Edges == {[parent |-> p, c |-> x, id |-> Found(p, x)] : p \in 0 .. Size - 1, x \in Sigma}
      To(id) == {e \in Edges : e.id = id}
      EdgeTo(id) == CHOOSE e \in To(id) : TRUE
  IN  [i \in 1 .. Size - Roots |->
         IF To(Roots + i - 1) = {} THEN [parent |-> Undef, c |-> Undef]
         ELSE [parent |-> EdgeTo(Roots + i - 1).parent, c |-> EdgeTo(Roots + i - 1).c]]

D == INSTANCE LZ78Dictionary WITH dict <- Dictionary

\* Every implementation behaves as LZ78Trie.hpp says: it finds a child exactly
\* when it has been inserted since the last clear, under the number it was
\* given then, and adds exactly one leaf otherwise, whatever the order in which
\* the children of the nodes came.  Nothing is asked of the hash trie's
\* clear(), which does nothing.
LookupSpec == D!Init /\ [][D!Next \/ ResetHashed]_<<Dictionary, answer>>

\* The order of the siblings that the two searches which stop early rely on:
\* increasing along the list of the sorted trie; in the ternary trie, smaller
\* characters in the left and larger ones in the right subtree.
Below(slot) ==
  LET B[s \in Fields \X Ids] ==
        IF At(s) = Undef THEN {}
        ELSE {At(s)} \cup B[<<"next", At(s)>>] \cup B[<<"right", At(s)>>]
  IN  B[slot]

SiblingsOrdered ==
  Linked => \A id \in Ids :
    /\ kind = "sorted" =>
         \A o \in Below(<<"next", id>>) : literal[o] > literal[id]
    /\ kind = "ternary" =>
         /\ \A o \in Below(<<"next", id>>) : literal[o] < literal[id]
         /\ \A o \in Below(<<"right", id>>) : literal[o] > literal[id]

\* No node is lost and none is shared: every node but the roots is the child
\* of exactly one node, an older one, by exactly one character; siblings are in
\* the order that the searches rely on.
NodesReachableOnce ==
  /\ TypeOK
  /\ SiblingsOrdered
  /\ \A id \in Roots .. Size - 1 :
       Cardinality({e \in [parent : 0 .. Size - 1, c : Sigma] : Found(e.parent, e.c) = id}) = 1
=============================================================================
