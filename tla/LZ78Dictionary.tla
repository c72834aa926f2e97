--------------------------- MODULE LZ78Dictionary ---------------------------
(***************************************************************************)
(* What compressors/lz78/LZ78Trie.hpp promises of every implementation of  *)
(* the dictionary, as a state machine: LZ78 (one root) and LZW (a root for *)
(* every character) walk down it and grow it by one leaf at a time.        *)
(***************************************************************************)
EXTENDS PhraseDict

CONSTANTS Sigma,   \* the characters, numbers
          Roots,   \* how many root nodes are added after a clear
          MaxSize  \* bound on the number of nodes

VARIABLES dict,    \* the nodes below the roots, see PhraseDict
          answer   \* the node_t the last call returned

vars == <<dict, answer>>

\* The dictionary after clear() and the calls of add_rootnode.
Init == dict = <<>> /\ answer = [id |-> Roots - 1, new |-> TRUE]

FindOrInsert(parent, c) ==
  IF HasChild(dict, parent, c)
  THEN /\ answer' = [id |-> Child(dict, Roots, parent, c), new |-> FALSE]
       /\ UNCHANGED dict
  ELSE /\ Size(dict, Roots) < MaxSize
       /\ answer' = [id |-> Size(dict, Roots), new |-> TRUE]
       /\ dict' = Insert(dict, parent, c)

\* clear() and the calls of add_rootnode that follow it.
Reset == dict' = <<>> /\ answer' = [id |-> Roots - 1, new |-> TRUE]

Next ==
  \/ \E parent \in 0 .. Size(dict, Roots) - 1, c \in Sigma : FindOrInsert(parent, c)
  \/ Reset

Spec == Init /\ [][Next]_vars
=============================================================================
