----------------------------- MODULE LCPQueues ------------------------------
(***************************************************************************)
(* The two priority queues of lcpcomp over the suffix ranks, keyed by the  *)
(* LCP array (`keys`), which they change when a key is decreased:          *)
(* ds/ArrayMaxHeap.hpp and lcpcomp/MaxLCPSuffixList.hpp.  A heap is the    *)
(* sequence m_heap[0 .. m_size - 1]; its back mapping m_pos is its inverse.*)
(* A list is the sequence of its items from m_first to m_last, with        *)
(* m_lcp_index as a function from keys to items.                           *)
(***************************************************************************)
EXTENDS Integers, Sequences, SequencesExt

NoItem == -1
IndexIn(s, i) == CHOOSE p \in 1 .. Len(s) : s[p] = i

-----------------------------------------------------------------------------
(* ArrayMaxHeap; position p of the code is index p + 1 of the sequence *)

\* insert: the way up from the new position, as long as keys are smaller.
HeapInsert(keys, h, i) ==
  LET Up[p \in 0 .. Len(h)] ==   \* the positions whose items move down
        IF p > 0 /\ keys[i] > keys[h[(p - 1) \div 2 + 1]]
        THEN {p} \cup Up[(p - 1) \div 2] ELSE {}
      moved == Up[Len(h)]
      rest == IF moved = {} THEN Len(h)
              ELSE CHOOSE p \in {(q - 1) \div 2 : q \in moved} : p \notin moved
  IN  [q \in 1 .. Len(h) + 1 |->
         IF q - 1 = rest THEN i
         ELSE IF q - 1 \in moved THEN h[(q - 2) \div 2 + 1] ELSE h[q]]

\* Where perlocate_down goes from p with item k; p itself if it stays.
Downwards(keys, h, p, k) ==
  LET Key(c) == IF c < Len(h) THEN keys[h[c + 1]] ELSE 0
      l == Key(2 * p + 1)
      r == Key(2 * p + 2)
      key == keys[k]
  IN  IF key < l /\ key < r THEN IF l > r THEN 2 * p + 1 ELSE 2 * p + 2
      ELSE IF key < l THEN 2 * p + 1
      ELSE IF key < r THEN 2 * p + 2
      ELSE IF key = l /\ (key = r \/ k > 2 * p + 1) THEN 2 * p + 1
      ELSE IF key = r /\ k > 2 * p + 2 THEN 2 * p + 2
      ELSE p

\* perlocate_down: item k from position p; the items on its way move up.
PercolateDown(keys, h, p, k) ==
  LET Way[q \in 0 .. Len(h)] ==
        LET next == Downwards(keys, h, q, k)
        IN  IF next = q THEN <<q>> ELSE <<q>> \o Way[next]
      way == Way[p]
  IN  [q \in 1 .. Len(h) |->
         IF ~Contains(way, q - 1) THEN h[q]
         ELSE LET s == IndexIn(way, q - 1)
              IN  IF s = Len(way) THEN k ELSE h[way[s + 1] + 1]]

\* remove: the last item goes to the place of i and down from there.
HeapRemove(keys, h, i) ==
  IF ~Contains(h, i) THEN h
  ELSE LET p == IndexIn(h, i) - 1
           k == h[Len(h)]
           shorter == SubSeq(h, 1, Len(h) - 1)
       IN  IF p = Len(h) - 1 THEN shorter ELSE PercolateDown(keys, shorter, p, k)

\* decrease_key, after keys[i] has been lowered.
HeapDecreased(keys, h, i) == PercolateDown(keys, h, IndexIn(h, i) - 1, i)

-----------------------------------------------------------------------------
(* MaxLCPSuffixList *)

\* Mutant: only an item with just that key is found.
LookupExact(index, key) == index[key]

\* lookup_lcp_index: the item of the index with the largest key up to `key`.
Lookup(index, key) ==
  LET L[v \in 0 .. key] == IF v = 0 \/ index[v] # NoItem THEN v ELSE L[v - 1]
  IN  IF L[key] = 0 THEN NoItem ELSE index[L[key]]

\* insert: in front of the item found, or at the end.
ListInsert(keys, l, i) ==
  LET at == Lookup(l.index, keys[i])
  IN  [items |-> IF at = NoItem THEN Append(l.items, i)
                 ELSE InsertAt(l.items, IndexIn(l.items, at), i),
       index |-> [l.index EXCEPT ![keys[i]] = i]]

\* remove: if the index points to i, it moves on to the next equal key.
ListRemove(keys, l, i) ==
  LET p == IndexIn(l.items, i)
      next == IF p < Len(l.items) THEN l.items[p + 1] ELSE NoItem
      heir == IF next # NoItem /\ keys[next] = keys[i] THEN next ELSE NoItem
  IN  [items |-> RemoveAt(l.items, p),
       index |-> IF l.index[keys[i]] # i THEN l.index
                 ELSE [l.index EXCEPT ![keys[i]] = heir]]
=============================================================================
