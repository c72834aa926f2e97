-------------------------- MODULE BinarySuffixTree --------------------------
(***************************************************************************)
(* ds/BinarySuffixTree.hpp: the same construction over arrays that are     *)
(* allocated before it starts.  The children of a node are a list, from    *)
(* first_child along next_sibling, and 0 is at once the root, "no child",  *)
(* "no sibling" and "no suffix link".  The tree is shown to implement      *)
(* SuffixTree.                                                             *)
(***************************************************************************)
EXTENDS Integers, Sequences, FiniteSets, TLC

VARIABLES
  Text, pos, remainder, first_child, next_sibling, start, end, suffix_link, suffix,
  current_suffix, new_node, active_node, active_edge, active_length, last_added_sl,
  adding
links == <<first_child, next_sibling, suffix_link>>
edges == <<start, end, suffix>>
active == <<active_node, active_edge, active_length>>
vars == <<Text, pos, remainder, links, edges, current_suffix, new_node, active,
          last_added_sl, adding>>

At(p) == Text[p + 1]

edge_length(n) ==
  CASE n = 0 -> 0
    [] n # 0 /\ end[n] = 0 -> pos - start[n] + 1
    [] OTHER -> end[n] - start[n]

\* resize() cuts the arrays to the nodes there are when the tree is complete;
\* a last node without an entry has none of what 0 stands for.
Entry(array, n) == IF n \in DOMAIN array THEN array[n] ELSE 0

\* The children of node n in the order of the list.
Children(n) ==
  LET C[k \in Nat] == IF k = 0 THEN <<>> ELSE <<k>> \o C[Entry(next_sibling, k)]
  IN  C[Entry(first_child, n)]

\* Two entries less, as if the root were the only inner node too many.
ReserveShort(n) ==
  /\ first_child = [i \in 0 .. 2 * n - 4 |-> 0]
  /\ next_sibling = [i \in 0 .. 2 * n - 4 |-> 0]
  /\ suffix_link = [i \in 0 .. 2 * n - 4 |-> 0]
  /\ start = [i \in 0 .. 2 * n - 1 |-> 0]
  /\ end = [i \in 0 .. 2 * n - 1 |-> 0]
  /\ suffix = [i \in 0 .. 2 * n - 1 |-> 0]

\* reserve(): arrays for a text of n symbols, the root is node 0 and
\* create_node(0, 0, 0) uses up number 1
Reserve(n) ==
  /\ first_child = [i \in 0 .. 2 * n - 2 |-> 0]
  /\ next_sibling = [i \in 0 .. 2 * n - 2 |-> 0]
  /\ suffix_link = [i \in 0 .. 2 * n - 2 |-> 0]
  /\ start = [i \in 0 .. 2 * n - 1 |-> 0]
  /\ end = [i \in 0 .. 2 * n - 1 |-> 0]
  /\ suffix = [i \in 0 .. 2 * n - 1 |-> 0]

TreeInit ==
  /\ Reserve(Len(Text))
  /\ pos = -1 /\ remainder = 0 /\ current_suffix = 0 /\ new_node = 1
  /\ active_node = 0 /\ active_edge = 0 /\ active_length = 0
  /\ last_added_sl = 0 /\ adding = FALSE

NextChar ==
  /\ ~adding /\ pos + 1 < Len(Text)
  /\ pos' = pos + 1 /\ remainder' = remainder + 1
  /\ last_added_sl' = 0 /\ adding' = TRUE
  /\ UNCHANGED <<Text, links, edges, current_suffix, new_node, active>>

Edge == IF active_length = 0 THEN At(pos) ELSE active_edge

\* The walk along the siblings: where the child is whose edge starts with the
\* active edge, that child, 0 when there is none, and the child before it.
Siblings == Children(active_node)
FoundAt ==
  LET Hit(i) == At(start[Siblings[i]]) = Edge
  IN  CHOOSE i \in 1 .. Len(Siblings) + 1 :
        (i > Len(Siblings) \/ Hit(i)) /\ \A j \in 1 .. i - 1 : ~Hit(j)
Child == IF FoundAt > Len(Siblings) THEN 0 ELSE Siblings[FoundAt]
PreviousSibling == Siblings[IF FoundAt = 1 THEN 1 ELSE FoundAt - 1]

\* The link put at the wrong end.
LinkBackwards(n) ==
  /\ suffix_link' = IF last_added_sl # 0 THEN [suffix_link EXCEPT ![n] = last_added_sl]
                    ELSE suffix_link
  /\ last_added_sl' = n

\* add_sl: 0 stands for "none added yet"
add_sl(n) ==
  /\ suffix_link' = IF last_added_sl # 0 THEN [suffix_link EXCEPT ![last_added_sl] = n]
                    ELSE suffix_link
  /\ last_added_sl' = n

\* Mutant: the next leaf gets the number of this one.
AfterLeafSame ==
  /\ remainder' = remainder - 1 /\ adding' = (remainder' > 0)
  /\ current_suffix' = current_suffix
  /\ IF active_node = 0 /\ active_length > 0
     THEN /\ active_length' = active_length - 1
          /\ active_edge' = At(pos - remainder' + 1)
          /\ UNCHANGED active_node
     ELSE /\ active_node' = suffix_link'[active_node]
          /\ active_edge' = Edge
          /\ UNCHANGED active_length
  /\ UNCHANGED <<Text, pos>>

\* The end of an iteration that put in a leaf.
AfterLeaf ==
  /\ remainder' = remainder - 1 /\ adding' = (remainder' > 0)
  /\ current_suffix' = current_suffix + 1
  /\ IF active_node = 0 /\ active_length > 0
     THEN /\ active_length' = active_length - 1
          /\ active_edge' = At(pos - remainder' + 1)
          /\ UNCHANGED active_node
     ELSE /\ active_node' = suffix_link'[active_node]
          /\ active_edge' = Edge
          /\ UNCHANGED active_length
  /\ UNCHANGED <<Text, pos>>

NewLeaf ==
  /\ adding /\ Child = 0
  /\ new_node' = new_node + 1
  /\ start' = [start EXCEPT ![new_node'] = pos]
  /\ suffix' = [suffix EXCEPT ![new_node'] = current_suffix]
  /\ UNCHANGED end
  /\ IF first_child[active_node] = 0
     THEN first_child' = [first_child EXCEPT ![active_node] = new_node'] /\ UNCHANGED next_sibling
     ELSE /\ next_sibling' = [next_sibling EXCEPT ![PreviousSibling] = new_node']
          /\ UNCHANGED first_child
  /\ add_sl(active_node)
  /\ AfterLeaf

WalkDown ==
  /\ adding /\ Child # 0 /\ active_length >= edge_length(Child)
  /\ active_node' = Child
  /\ active_length' = active_length - edge_length(Child)
  /\ active_edge' = At(pos - active_length')
  /\ UNCHANGED <<Text, pos, remainder, links, edges, current_suffix, new_node,
                 last_added_sl, adding>>

AlreadyThere ==
  /\ adding /\ Child # 0 /\ active_length < edge_length(Child)
  /\ At(start[Child] + active_length) = At(pos)
  /\ active_length' = active_length + 1 /\ active_edge' = Edge
  /\ add_sl(active_node) /\ adding' = FALSE
  /\ UNCHANGED <<Text, pos, remainder, first_child, next_sibling, edges, current_suffix,
                 new_node, active_node>>

\* The split takes the place of the child in its list, the child and a new
\* leaf become the children of the split.
SplitEdge ==
  /\ adding /\ Child # 0 /\ active_length < edge_length(Child)
  /\ At(start[Child] + active_length) # At(pos)
  /\ new_node' = new_node + 2
  /\ LET split == new_node + 1
         mid == start[Child] + active_length
         first == first_child[active_node] = Child
     IN  /\ start' = [start EXCEPT ![split] = start[Child], ![Child] = mid, ![new_node'] = pos]
         /\ end' = [end EXCEPT ![split] = mid]
         /\ suffix' = [suffix EXCEPT ![new_node'] = current_suffix]
         /\ first_child' = [(IF first THEN [first_child EXCEPT ![active_node] = split]
                             ELSE first_child) EXCEPT ![split] = Child]
         /\ next_sibling' = [(IF first THEN next_sibling
                              ELSE [next_sibling EXCEPT ![PreviousSibling] = split])
                             EXCEPT ![split] = next_sibling[Child], ![Child] = new_node']
         /\ add_sl(split)
  /\ AfterLeaf

TreeNext == NextChar \/ NewLeaf \/ WalkDown \/ AlreadyThere \/ SplitEdge
Built == ~adding /\ pos + 1 = Len(Text)
-----------------------------------------------------------------------------
(* The tree of SuffixTree that the arrays stand for, 0 for each of its    *)
(* null pointers.                                                          *)
Nodes == {0} \cup 2 .. new_node
KidsOf(n) ==
  LET kids == Children(n)
  IN  [c \in {At(start[kids[i]]) : i \in DOMAIN kids} |->
         CHOOSE k \in {kids[i] : i \in DOMAIN kids} : At(start[k]) = c]
IsInner(n) == n = 0 \/ Entry(first_child, n) # 0
NodeOf(n) ==
  IF IsInner(n)
  THEN [start |-> IF n = 0 THEN -1 ELSE start[n], end |-> end[n], kids |-> KidsOf(n),
        link |-> suffix_link[n], suffix |-> 0]
  ELSE [start |-> start[n], end |-> end[n], kids |-> KidsOf(n), link |-> 0, suffix |-> suffix[n]]

Tree == INSTANCE SuffixTree WITH
          Root <- 0, NoNode <- 0, suffix <- current_suffix, node <- [n \in Nodes |-> NodeOf(n)]
=============================================================================
