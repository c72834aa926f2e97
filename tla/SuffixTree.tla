----------------------------- MODULE SuffixTree -----------------------------
(***************************************************************************)
(* ds/SuffixTree.hpp: Ukkonen's construction, one symbol after the other,  *)
(* the loop of add_char one iteration per step.  Nodes are numbers, the    *)
(* pointers of the code; children hang in a map from the first symbol of   *)
(* their edge.  Positions count from 0, the edge of a node is the text     *)
(* from start to before end, and end = 0 stands for "to the last symbol".  *)
(***************************************************************************)
EXTENDS Integers, Sequences, FiniteSets, TLC

CONSTANT Root, NoNode
VARIABLES
  Text, pos, remainder,
  node,                                   \* node number -> [start, end, kids, link, suffix]
  new_node,                               \* the number last given to a node
  suffix,                                 \* the suffix the next leaf stands for
  active_node, active_edge, active_length,
  last_added_sl,
  adding                                  \* inside the loop of add_char
vars == <<Text, pos, remainder, node, new_node, suffix, active_node, active_edge,
          active_length, last_added_sl, adding>>

At(p) == Text[p + 1]
NoKids == [c \in {} |-> 0]
Leaf(s, suf) == [start |-> s, end |-> 0, kids |-> NoKids, link |-> NoNode, suffix |-> suf]
Inner(s, e, kids) == [start |-> s, end |-> e, kids |-> kids, link |-> NoNode, suffix |-> NoNode]

edge_length(n) ==
  CASE n = Root -> 0
    [] n # Root /\ node[n].end = 0 -> pos - node[n].start + 1
    [] OTHER -> node[n].end - node[n].start

\* add_sl on the table t, and the node it remembers
add_sl(t, n) == IF last_added_sl # Root THEN [t EXCEPT ![last_added_sl].link = n] ELSE t

Edge == IF active_length = 0 THEN At(pos) ELSE active_edge
Kids == node[active_node].kids
Below == Kids[Edge]                       \* "next" of the code

Init ==
  /\ pos = -1 /\ remainder = 0 /\ suffix = 0
  /\ node = (Root :> Inner(-1, 0, NoKids))
  /\ new_node = 1
  /\ active_node = Root /\ active_edge = 0 /\ active_length = 0
  /\ last_added_sl = Root /\ adding = FALSE

\* append_input hands the next symbol to add_char
NextChar ==
  /\ ~adding /\ pos + 1 < Len(Text)
  /\ pos' = pos + 1 /\ remainder' = remainder + 1
  /\ last_added_sl' = Root /\ adding' = TRUE
  /\ UNCHANGED <<Text, node, new_node, suffix, active_node, active_edge, active_length>>

\* The end of an iteration that put in a leaf, the links in t.
AfterLeaf(t) ==
  /\ remainder' = remainder - 1 /\ adding' = (remainder' > 0)
  /\ suffix' = suffix + 1
  /\ IF active_node = Root /\ active_length > 0
     THEN /\ active_length' = active_length - 1
          /\ active_edge' = At(pos - remainder' + 1)
          /\ UNCHANGED active_node
     ELSE /\ active_node' = IF t[active_node].link # NoNode THEN t[active_node].link ELSE Root
          /\ active_edge' = Edge
          /\ UNCHANGED active_length
  /\ UNCHANGED <<Text, pos>>

NewLeaf ==
  /\ adding /\ Edge \notin DOMAIN Kids
  /\ new_node' = new_node + 1
  /\ \E t \in {add_sl((new_node' :> Leaf(pos, suffix))
                        @@ [node EXCEPT ![active_node].kids = (Edge :> new_node') @@ @],
                      active_node)} :
       node' = t /\ AfterLeaf(t)
  /\ last_added_sl' = active_node

WalkDown ==
  /\ adding /\ Edge \in DOMAIN Kids /\ active_length >= edge_length(Below)
  /\ active_node' = Below
  /\ active_length' = active_length - edge_length(Below)
  /\ active_edge' = At(pos - active_length')
  /\ UNCHANGED <<Text, pos, remainder, node, new_node, suffix, last_added_sl, adding>>

AlreadyThere ==
  /\ adding /\ Edge \in DOMAIN Kids /\ active_length < edge_length(Below)
  /\ At(node[Below].start + active_length) = At(pos)
  /\ active_length' = active_length + 1 /\ active_edge' = Edge
  /\ node' = add_sl(node, active_node) /\ last_added_sl' = active_node
  /\ adding' = FALSE
  /\ UNCHANGED <<Text, pos, remainder, new_node, suffix, active_node>>

SplitEdge ==
  /\ adding /\ Edge \in DOMAIN Kids /\ active_length < edge_length(Below)
  /\ At(node[Below].start + active_length) # At(pos)
  /\ new_node' = new_node + 2
  /\ LET mid == node[Below].start + active_length
         split == new_node + 1
     IN  \E t \in {add_sl((split :> Inner(node[Below].start, mid, (At(mid) :> Below) @@ (At(pos) :> new_node')))
                            @@ (new_node' :> Leaf(pos, suffix))
                            @@ [node EXCEPT ![active_node].kids = (Edge :> split) @@ @,
                                            ![Below].start = mid], split)} :
           node' = t /\ AfterLeaf(t) /\ last_added_sl' = split

Step == NextChar \/ NewLeaf \/ WalkDown \/ AlreadyThere \/ SplitEdge
Spec == Init /\ [][Step]_vars
Built == ~adding /\ pos + 1 = Len(Text)
=============================================================================
