-------------------------- MODULE LZ78TriesProofs ---------------------------
(***************************************************************************)
(* Proofs about LZ78Tries, for every alphabet, number of roots and bound:  *)
(* every pointer implementation is the dictionary that LZ78Dictionary      *)
(* describes, whatever the order in which the children of its nodes come;  *)
(* the hash table is it under an assumption (RootsApart) and until cleared.*)
(*                                                                         *)
(* A linked trie has, beside its links, the parent `up` of every node, and *)
(* for every slot the letters W whose search comes by it.  A slot is Undef *)
(* exactly if no child of its owner has such a letter (Shape).             *)
(***************************************************************************)
EXTENDS LZ78Tries, FiniteSetTheorems, SequenceTheorems, WellFoundedInduction, TLAPS

\* HashTrie keeps roots and edges in one table, a root under the key of an edge
\* from node 0: it needs letters that are no roots.
RootsApart == "hash" \in Kinds => Sigma \cap 0 .. Roots - 1 = {}

Less == {p \in Nat \X Nat : p[1] < p[2]}

\* Every inhabited set of natural numbers has a least one.
LEMMA LeastNumber ==
  ASSUME NEW S, S \subseteq Nat, S # {}
  PROVE  \E x \in S : \A y \in S : x <= y
<1>1. IsWellFoundedOn(Less, Nat)
  BY NatLessThanWellFounded, Zenon DEF OpToRel, Less
<1>2. PICK x \in S : \A y \in S : ~ (<<y, x>> \in Less)
  BY <1>1, WFMin
<1>3. ASSUME NEW y \in S, y < x PROVE FALSE
  <2>1. <<y, x>> \in Less
    BY <1>3 DEF Less
  <2> QED
    BY <1>2, <2>1
<1> QED
  BY <1>3

\* A loop that gets closer to its end with every step comes to it: it has a
\* result from wherever it starts.
LEMMA LoopEnds ==
  ASSUME NEW S, NEW e \in [S -> BOOLEAN], NEW st, NEW m \in [S -> Nat], NEW N \in Nat,
         \A s \in S : m[s] <= N,
         \A s \in S : ~e[s] => st[s] \in S /\ m[st[s]] < m[s]
  PROVE  \E f : f = [s \in S |-> IF e[s] THEN s ELSE f[st[s]]]
<1> DEFINE Upto(n) == {s \in S : m[s] <= n}
           Solves(f, n) == f = [s \in Upto(n) |-> IF e[s] THEN s ELSE f[st[s]]]
           Bad == {n \in Nat : ~ \E f : Solves(f, n)}
<1>1. ASSUME Bad # {} PROVE FALSE
  <2>1. PICK n \in Bad : \A y \in Bad : n <= y
    BY <1>1, LeastNumber
  <2>2. CASE n = 0
    <3> DEFINE f == [s \in Upto(0) |-> s]
    <3>1. \A s \in Upto(0) : e[s]
      OBVIOUS
    <3>2. f = [s \in Upto(0) |-> IF e[s] THEN s ELSE f[st[s]]]
      BY <3>1
    <3> QED
      BY <2>2, <3>2
  <2>3. CASE n # 0
    <3>1. n - 1 \in Nat /\ n \in Nat /\ n - 1 < n
      BY <2>3
    <3>2. PICK g : Solves(g, n - 1)
      <4> DEFINE m1 == n - 1
      <4> HIDE DEF m1, Solves
      <4>1. m1 \in Nat /\ ~ (n <= m1)
        BY <3>1 DEF m1
      <4>2. \E f : Solves(f, m1)
        BY <2>1, <4>1
      <4> QED
        BY <4>2 DEF m1
    <3> DEFINE f == [s \in Upto(n) |-> IF e[s] THEN s ELSE g[st[s]]]
    <3>3. ASSUME NEW s \in Upto(n), ~e[s] PROVE f[st[s]] = g[st[s]]
      <4>1. st[s] \in Upto(n - 1) /\ st[s] \in Upto(n)
        BY <3>1, <3>3
      <4>2. g[st[s]] = IF e[st[s]] THEN st[s] ELSE g[st[st[s]]]
        BY <3>2, <4>1
      <4> QED
        BY <4>1, <4>2
    <3>4. f = [s \in Upto(n) |-> IF e[s] THEN s ELSE f[st[s]]]
      BY <3>3
    <3> QED
      BY <3>4
  <2> QED
    BY <2>2, <2>3
<1>2. PICK f : Solves(f, N)
  BY <1>1
<1>3. Upto(N) = S
  OBVIOUS
<1> QED
  BY <1>2, <1>3
-----------------------------------------------------------------------------
(***************************************************************************)
(* The linked tries.                                                       *)
(***************************************************************************)
Nodes(N) == 0 .. N - 1
Inner(N) == Roots .. N - 1
Slots(N) == Fields \X Nodes(N)

\* The node whose children are kept behind a slot, and those of them whose
\* search comes by it.
Own(up, t) == IF t[1] = "first" THEN t[2] ELSE up[t[2]]
Kids(N, up, W, t) == {k \in Inner(N) : up[k] = Own(up, t) /\ literal[k] \in W[t]}

\* What a node with the letter x leaves of the letters S to its two slots.
Front(S, x) ==
  IF kind = "ternary" THEN {c \in S : c < x}
  ELSE IF kind = "sorted" THEN {c \in S : c > x} ELSE S \ {x}
Rear(S, x) == IF kind = "ternary" THEN {c \in S : c > x} ELSE {}

\* Two slots by which the search for a letter comes are not both its end.
OneEnd(N, up, W) ==
  \A t, u \in Slots(N) : \A c \in W[t] \cap W[u] :
    Own(up, t) = Own(up, u) /\ Ends(t, c) /\ Ends(u, c) => t = u

LinksOK(N) ==
  /\ N \in Nat /\ N >= Roots
  /\ literal \in [Nodes(N) -> Sigma \cup 0 .. Roots - 1]
  /\ link \in [Fields -> [Nodes(N) -> {Undef} \cup Inner(N)]]

EdgesOK(N, up, lab) ==
  /\ up \in [Inner(N) -> Nodes(N)]
  /\ \A k \in Inner(N) : up[k] < k /\ lab[k] \in Sigma
  /\ \A j, k \in Inner(N) : up[j] = up[k] /\ lab[j] = lab[k] => j = k

LettersOK(N, W) ==
  /\ W \in [Slots(N) -> SUBSET Sigma]
  /\ \A p \in Nodes(N) : W[<<"first", p>>] = Sigma
  /\ \A i \in 0 .. Roots - 1 : W[<<"next", i>>] = {} /\ W[<<"right", i>>] = {}
  /\ \A k \in Inner(N) : /\ W[<<"next", k>>] \subseteq Front(Sigma, literal[k])
                         /\ W[<<"right", k>>] \subseteq Rear(Sigma, literal[k])

\* A slot is empty only if it has no children to keep, and holds one of them
\* otherwise, the first in the sorted list; the others are behind that one.
SlotOK(N, up, W, t) ==
  /\ At(t) = Undef => Kids(N, up, W, t) = {}
  /\ At(t) # Undef =>
       /\ At(t) \in Kids(N, up, W, t)
       /\ W[<<"next", At(t)>>] = Front(W[t], literal[At(t)])
       /\ W[<<"right", At(t)>>] = Rear(W[t], literal[At(t)])
       /\ kind = "sorted" => \A j \in Kids(N, up, W, t) : literal[j] >= literal[At(t)]

Shape(N, up, W) ==
  /\ LinksOK(N) /\ EdgesOK(N, up, literal) /\ LettersOK(N, W)
  /\ OneEnd(N, up, W)
  /\ \A t \in Slots(N) : SlotOK(N, up, W, t)

LEMMA SlotParts ==
  ASSUME NEW N, LinksOK(N), NEW t \in Slots(N)
  PROVE  /\ N \in Nat /\ N >= Roots /\ Roots \in Nat \ {0}
         /\ t[1] \in Fields /\ t[2] \in Nodes(N) /\ t = <<t[1], t[2]>>
         /\ At(t) \in {Undef} \cup Inner(N)
         /\ At(t) # Undef => At(t) \in Nodes(N)
         /\ At(t) # Undef => \A f \in Fields : <<f, At(t)>> \in Slots(N)
         /\ Ids = Nodes(N)
<1>1. N \in Nat /\ N >= Roots /\ Roots \in Nat \ {0} /\ Ids = Nodes(N)
  BY TriesAssumption DEF LinksOK, Ids
<1>2. t[1] \in Fields /\ t[2] \in Nodes(N) /\ t = <<t[1], t[2]>>
  BY DEF Slots
<1>3. At(t) \in {Undef} \cup Inner(N)
  BY <1>2 DEF At, LinksOK
<1>4. At(t) # Undef => At(t) \in Nodes(N)
  BY <1>1, <1>3 DEF Inner, Nodes
<1> QED
  BY <1>1, <1>2, <1>3, <1>4 DEF Slots

\* The letters are numbers.
LEMMA LetterIsNumber ==
  ASSUME NEW N, NEW up, LinksOK(N), EdgesOK(N, up, literal)
  PROVE  /\ Sigma \subseteq Nat
         /\ \A k \in Inner(N) : literal[k] \in Nat /\ literal[k] \in Sigma
BY TriesAssumption DEF EdgesOK

\* The search for c stays among the slots that have the letter, and every step
\* leaves a child behind.
LEMMA StepDown ==
  ASSUME NEW N, NEW up, NEW W, Shape(N, up, W), kind \in {"binary", "sorted", "ternary"},
         NEW c \in Sigma, NEW t \in Slots(N), ~Ends(t, c)
  PROVE  /\ Step(t, c) \in Slots(N)
         /\ Own(up, Step(t, c)) = Own(up, t)
         /\ Kids(N, up, W, Step(t, c)) \subseteq Kids(N, up, W, t) \ {At(t)}
         /\ At(t) \in Kids(N, up, W, t)
         /\ c \in W[t] => c \in W[Step(t, c)]
<1> DEFINE a == At(t)
           n == <<"next", a>>
           r == <<"right", a>>
<1>0. LinksOK(N) /\ EdgesOK(N, up, literal) /\ SlotOK(N, up, W, t) /\ W[t] \subseteq Sigma
  BY DEF Shape, LettersOK
<1>1. a # Undef
  BY DEF Ends, SortedEnds, ListEnds
<1>2. /\ a \in Inner(N) /\ n \in Slots(N) /\ r \in Slots(N)
      /\ a \in Kids(N, up, W, t)
      /\ W[n] = Front(W[t], literal[a]) /\ W[r] = Rear(W[t], literal[a])
  BY <1>0, <1>1, SlotParts DEF SlotOK, Fields
<1>3. Own(up, n) = Own(up, t) /\ Own(up, r) = Own(up, t)
  BY <1>2 DEF Own, Kids
<1>4. Sigma \subseteq Nat /\ literal[a] \in Nat
  BY <1>0, <1>2, LetterIsNumber
<1>5. W[n] \subseteq W[t] \ {literal[a]} /\ W[r] \subseteq W[t] \ {literal[a]}
  BY <1>0, <1>2, <1>4 DEF Front, Rear
<1>6. Kids(N, up, W, n) \subseteq Kids(N, up, W, t) \ {a} /\ Kids(N, up, W, r) \subseteq Kids(N, up, W, t) \ {a}
  BY <1>3, <1>5 DEF Kids
<1>7. CASE kind = "ternary"
  <2>1. literal[a] # c /\ Step(t, c) = IF c < literal[a] THEN n ELSE r
    BY <1>1, <1>7 DEF Ends, ListEnds, Step, TreeStep
  <2>2. c \in W[t] => c \in W[Step(t, c)]
    BY <1>2, <1>4, <1>7, <2>1 DEF Front, Rear
  <2> QED
    BY <1>2, <1>3, <1>6, <2>1, <2>2
<1>8. CASE kind # "ternary"
  <2>1. literal[a] # c /\ Step(t, c) = n /\ (kind = "sorted" => literal[a] < c)
    BY <1>1, <1>4, <1>8 DEF Ends, ListEnds, SortedEnds, Step, ListStep
  <2>2. c \in W[t] => c \in W[n]
    BY <1>2, <1>4, <1>8, <2>1 DEF Front
  <2> QED
    BY <1>2, <1>3, <1>6, <2>1, <2>2
<1> QED
  BY <1>7, <1>8

LEMMA KidsFinite ==
  ASSUME NEW N, NEW up, NEW W, N \in Nat, NEW t
  PROVE  /\ IsFiniteSet(Kids(N, up, W, t)) /\ Cardinality(Kids(N, up, W, t)) \in Nat
         /\ Cardinality(Kids(N, up, W, t)) <= Cardinality(Inner(N))
         /\ Cardinality(Inner(N)) \in Nat
<1>1. IsFiniteSet(Inner(N))
  BY FS_Interval, TriesAssumption DEF Inner
<1>2. Kids(N, up, W, t) \subseteq Inner(N)
  BY DEF Kids
<1> QED
  BY <1>1, <1>2, FS_Subset, FS_CardinalityType

LEMMA Fewer ==
  ASSUME NEW A, NEW B, NEW x \in B, IsFiniteSet(B), A \subseteq B \ {x}
  PROVE  Cardinality(A) < Cardinality(B)
<1>1. A \subseteq B /\ A # B
  OBVIOUS
<1>2. IsFiniteSet(A) /\ Cardinality(A) <= Cardinality(B) /\ Cardinality(A) # Cardinality(B)
  BY <1>1, FS_Subset
<1> QED
  BY <1>2, FS_CardinalityType

\* The search for c below p ends, at a slot of p by which c is searched.
LEMMA SearchEnds ==
  ASSUME NEW N, NEW up, NEW W, Shape(N, up, W), kind \in {"binary", "sorted", "ternary"},
         NEW c \in Sigma, NEW p \in Nodes(N)
  PROVE  /\ Slot(p, c) \in Slots(N) /\ Ends(Slot(p, c), c)
         /\ Own(up, Slot(p, c)) = p /\ c \in W[Slot(p, c)]
<1> DEFINE S == Slots(N)
           e == [t \in S |-> Ends(t, c)]
           m == [t \in S |-> Cardinality(Kids(N, up, W, t))]
           Solves(f) == f = [t \in S |-> IF Ends(t, c) THEN t ELSE f[Step(t, c)]]
           Walk == CHOOSE f : Solves(f)
           st == [t \in S |-> Step(t, c)]
           Good(t) == /\ Walk[t] \in S /\ Ends(Walk[t], c)
                      /\ Own(up, Walk[t]) = Own(up, t)
                      /\ c \in W[t] => c \in W[Walk[t]]
<1>1. N \in Nat /\ LinksOK(N)
  BY DEF Shape, LinksOK
<1>2. ASSUME NEW t \in S, ~Ends(t, c)
      PROVE  Step(t, c) \in S /\ m[Step(t, c)] < m[t]
  <2>1. Step(t, c) \in S
    BY <1>2, StepDown
  <2>2. Cardinality(Kids(N, up, W, Step(t, c))) < Cardinality(Kids(N, up, W, t))
    BY <1>1, <1>2, StepDown, KidsFinite, Fewer
  <2> QED
    BY <2>1, <2>2
<1>3. \E f : Solves(f)
  <2>1. e \in [S -> BOOLEAN]
    BY DEF Ends, SortedEnds, ListEnds
  <2>2. m \in [S -> Nat] /\ Cardinality(Inner(N)) \in Nat
        /\ \A t \in S : m[t] <= Cardinality(Inner(N))
    BY <1>1, KidsFinite
  <2>3. \A t \in S : ~e[t] => st[t] \in S /\ m[st[t]] < m[t]
    BY <1>2
  <2>4. \E f : f = [t \in S |-> IF e[t] THEN t ELSE f[st[t]]]
    <3> HIDE DEF S, e, st, m
    <3> QED
      BY <2>1, <2>2, <2>3, LoopEnds
  <2> QED
    BY <2>4
<1>4. Solves(Walk)
  BY <1>3
<1>5. Ids = Nodes(N) /\ Slots(N) = Fields \X Ids
  BY <1>1 DEF LinksOK, Ids, Slots
<1>6. Slot(p, c) = Walk[<<"first", p>>]
  BY <1>5 DEF Slot
<1> HIDE DEF Walk
<1>7. \A t \in S : Walk[t] = IF Ends(t, c) THEN t ELSE Walk[Step(t, c)]
  BY <1>4
<1> DEFINE Bad == {m[t] : t \in {u \in S : ~Good(u)}}
<1>8. ASSUME Bad # {} PROVE FALSE
  <2>1. Bad \subseteq Nat
    BY <1>1, KidsFinite
  <2>2. PICK t \in S : ~Good(t) /\ \A y \in Bad : m[t] <= y
    BY <1>8, <2>1, LeastNumber
  <2>3. ~Ends(t, c)
    BY <1>7, <2>2
  <2>4. Step(t, c) \in S /\ m[Step(t, c)] < m[t]
    BY <1>2, <2>3
  <2>5. Good(Step(t, c))
    <3>1. m[Step(t, c)] \in Nat /\ m[t] \in Nat
      BY <1>1, <2>4, KidsFinite
    <3>2. m[Step(t, c)] \notin Bad
      BY <2>2, <2>4, <3>1
    <3> QED
      BY <2>4, <3>2
  <2>6. Walk[t] = Walk[Step(t, c)]
    BY <1>7, <2>3
  <2>7. Own(up, Step(t, c)) = Own(up, t) /\ (c \in W[t] => c \in W[Step(t, c)])
    BY <2>3, StepDown
  <2> QED
    BY <2>2, <2>5, <2>6, <2>7
<1>9. Good(<<"first", p>>)
  BY <1>8 DEF Slots, Fields
<1>10. Own(up, <<"first", p>>) = p /\ c \in W[<<"first", p>>]
  BY DEF Own, Shape, LettersOK
<1> QED
  BY <1>6, <1>9, <1>10

\* What is found is the child, if there is one.
IsChild(N, up, lab, p, c, k) == k \in Inner(N) /\ up[k] = p /\ lab[k] = c
Finds(N, up, lab) ==
  \A p \in Nodes(N), c \in Sigma :
    /\ \A k : IsChild(N, up, lab, p, c, k) => Found(p, c) = k
    /\ (\A k : ~IsChild(N, up, lab, p, c, k)) => Found(p, c) = Undef

LEMMA LinkedFinds ==
  ASSUME NEW N, NEW up, NEW W, Shape(N, up, W), kind \in {"binary", "sorted", "ternary"}
  PROVE  Finds(N, up, literal)
<1> SUFFICES ASSUME NEW p \in Nodes(N), NEW c \in Sigma
             PROVE  /\ \A k : IsChild(N, up, literal, p, c, k) => Found(p, c) = k
                    /\ (\A k : ~IsChild(N, up, literal, p, c, k)) => Found(p, c) = Undef
  BY DEF Finds
<1> DEFINE s == Slot(p, c)
<1>1. s \in Slots(N) /\ Ends(s, c) /\ Own(up, s) = p /\ c \in W[s]
  BY SearchEnds
<1>2. Found(p, c) = IF At(s) # Undef /\ literal[At(s)] = c THEN At(s) ELSE Undef
  BY DEF Found, Linked
<1> HIDE DEF s
<1>3. SlotOK(N, up, W, s) /\ LinksOK(N) /\ EdgesOK(N, up, literal)
  BY <1>1 DEF Shape
<1>4. ASSUME NEW k, IsChild(N, up, literal, p, c, k) PROVE Found(p, c) = k
  <2>1. k \in Kids(N, up, W, s)
    BY <1>1, <1>4 DEF IsChild, Kids
  <2>2. At(s) # Undef
    BY <1>3, <2>1 DEF SlotOK
  <2>3. At(s) \in Kids(N, up, W, s)
    BY <1>3, <2>2 DEF SlotOK
  <2>4. literal[At(s)] = c
    <3>1. CASE kind = "sorted"
      <4>1. literal[k] >= literal[At(s)] /\ literal[At(s)] >= c /\ literal[k] = c
        BY <1>1, <1>3, <1>4, <2>1, <2>2, <3>1 DEF SlotOK, Ends, SortedEnds, IsChild
      <4>2. literal[At(s)] \in Nat /\ c \in Nat
        BY <1>3, <2>3, LetterIsNumber DEF Kids
      <4> QED
        BY <4>1, <4>2
    <3>2. CASE kind # "sorted"
      BY <1>1, <2>2, <3>2 DEF Ends, ListEnds
    <3> QED
      BY <3>1, <3>2
  <2>5. At(s) = k
    BY <1>1, <1>3, <1>4, <2>3, <2>4 DEF EdgesOK, Kids, IsChild
  <2> QED
    BY <1>2, <2>2, <2>4, <2>5
<1>5. ASSUME \A k : ~IsChild(N, up, literal, p, c, k) PROVE Found(p, c) = Undef
  <2>1. ASSUME At(s) # Undef, literal[At(s)] = c PROVE FALSE
    <3>1. IsChild(N, up, literal, p, c, At(s))
      BY <1>1, <1>3, <2>1 DEF SlotOK, Kids, IsChild
    <3> QED
      BY <1>5, <3>1
  <2> QED
    BY <1>2, <2>1
<1> QED
  BY <1>4, <1>5

-----------------------------------------------------------------------------
(***************************************************************************)
(* A new leaf N below p with the letter c, put into the slot s.            *)
(***************************************************************************)
UpWith(N, up, p) == [k \in Inner(N + 1) |-> IF k = N THEN p ELSE up[k]]
LettersWith(N, W, s, c) ==
  [t \in Slots(N + 1) |->
     IF t[2] # N THEN W[t]
     ELSE CASE t[1] = "first" -> Sigma
            [] t[1] = "next" -> Front(W[s], c)
            [] OTHER -> Rear(W[s], c)]

\* The slot at which the search for c below p ends without finding it.
Gap(N, up, W, p, c, s) ==
  /\ kind \in {"binary", "sorted", "ternary"}
  /\ p \in Nodes(N) /\ c \in Sigma
  /\ s \in Slots(N) /\ Ends(s, c) /\ Own(up, s) = p /\ c \in W[s]
  /\ \A k : ~IsChild(N, up, literal, p, c, k)
  /\ At(s) # Undef => kind = "sorted" /\ literal[At(s)] > c

\* What Grow does, slot by slot.
Grown(N, c, s) ==
  /\ kind' = kind
  /\ literal' \in [Nodes(N + 1) -> Sigma \cup 0 .. Roots - 1]
  /\ literal'[N] = c /\ \A k \in Nodes(N) : literal'[k] = literal[k]
  /\ link' \in [Fields -> [Nodes(N + 1) -> {Undef} \cup Inner(N + 1)]]
  /\ At(s)' = N
  /\ \A t \in Slots(N) \ {s} : At(t)' = At(t)
  /\ At(<<"first", N>>)' = Undef /\ At(<<"right", N>>)' = Undef
  /\ At(<<"next", N>>)' = At(s)

LEMMA GapFound ==
  ASSUME NEW N, NEW up, NEW W, Shape(N, up, W), kind \in {"binary", "sorted", "ternary"},
         NEW c \in Sigma, NEW p \in Nodes(N), Found(p, c) = Undef
  PROVE  Gap(N, up, W, p, c, Slot(p, c))
<1> DEFINE s == Slot(p, c)
<1>1. s \in Slots(N) /\ Ends(s, c) /\ Own(up, s) = p /\ c \in W[s]
  BY SearchEnds
<1>2. LinksOK(N) /\ EdgesOK(N, up, literal)
  BY DEF Shape
<1>3. \A k : ~IsChild(N, up, literal, p, c, k)
  <2>1. ASSUME NEW k, IsChild(N, up, literal, p, c, k) PROVE FALSE
    <3>1. Undef = k
      BY <2>1, LinkedFinds DEF Finds
    <3> QED
      BY <1>2, <2>1, <3>1, TriesAssumption DEF IsChild, Inner, Undef
  <2> QED
    BY <2>1
<1>4. At(s) # Undef => literal[At(s)] # c
  BY DEF Found, Linked
<1> HIDE DEF s
<1>5. ASSUME At(s) # Undef PROVE kind = "sorted" /\ literal[At(s)] > c
  <2>1. kind = "sorted" /\ literal[At(s)] >= c
    BY <1>1, <1>4, <1>5 DEF Ends, SortedEnds, ListEnds
  <2>2. At(s) \in Inner(N)
    BY <1>1, <1>2, <1>5, SlotParts
  <2>3. literal[At(s)] \in Nat /\ c \in Nat
    BY <1>2, <2>2, LetterIsNumber
  <2> QED
    BY <1>4, <1>5, <2>1, <2>3
<1> QED
  BY <1>1, <1>3, <1>5 DEF Gap, s

LEMMA GrowIsGrown ==
  ASSUME NEW N, NEW up, NEW W, NEW p, NEW c, NEW s, Shape(N, up, W),
         Gap(N, up, W, p, c, s), s = Slot(p, c), Grow(p, c), kind' = kind
  PROVE  Grown(N, c, s)
<1>1. LinksOK(N) /\ s \in Slots(N) /\ c \in Sigma /\ N \in Nat /\ Roots \in Nat \ {0} /\ N >= Roots
  BY TriesAssumption DEF Shape, Gap, LinksOK
<1>2. Cardinality(Ids) = N
  <2>1. Ids = 0 .. N - 1
    BY <1>1, SlotParts DEF Nodes
  <2>2. Cardinality(0 .. N - 1) = IF 0 > N - 1 THEN 0 ELSE (N - 1) - 0 + 1
    BY <1>1, FS_Interval
  <2> QED
    BY <1>1, <2>1, <2>2
<1>3. literal' = [id \in 0 .. N |-> IF id = N THEN c ELSE literal[id]]
  BY <1>2, Zenon DEF Grow
<1>4. link' = [f \in Fields |-> [id \in 0 .. N |->
                   IF <<f, id>> = s THEN N
                   ELSE IF id < N THEN link[f][id]
                   ELSE IF f = "next" THEN At(s) ELSE Undef]]
  BY <1>2, Zenon DEF Grow
<1>5. Nodes(N + 1) = 0 .. N /\ Nodes(N) \subseteq 0 .. N /\ N \in 0 .. N /\ N \notin Nodes(N)
      /\ (\A k \in Nodes(N) : k < N /\ k # N)
      /\ (\A k \in 0 .. N : k # N => k \in Nodes(N) /\ k < N)
  BY <1>1 DEF Nodes
<1>6. Inner(N) \subseteq Inner(N + 1) /\ N \in Inner(N + 1)
  BY <1>1 DEF Inner
<1>7. s = <<s[1], s[2]>> /\ s[1] \in Fields /\ s[2] \in Nodes(N) /\ At(s) \in {Undef} \cup Inner(N)
  BY <1>1, SlotParts
<1>8. /\ literal' \in [Nodes(N + 1) -> Sigma \cup 0 .. Roots - 1]
      /\ literal'[N] = c /\ \A k \in Nodes(N) : literal'[k] = literal[k]
  <2>1. \A k \in Nodes(N) : literal[k] \in Sigma \cup 0 .. Roots - 1
    BY <1>1 DEF LinksOK
  <2>2. \A k \in 0 .. N : (IF k = N THEN c ELSE literal[k]) \in Sigma \cup 0 .. Roots - 1
    <3>1. ASSUME NEW k \in 0 .. N, k # N PROVE k \in Nodes(N)
      BY <1>1, <3>1 DEF Nodes
    <3> QED
      BY <1>1, <2>1, <3>1, Zenon
  <2>3. literal' \in [0 .. N -> Sigma \cup 0 .. Roots - 1]
    BY <1>3, <2>2
  <2>4. \A k \in 0 .. N : literal'[k] = IF k = N THEN c ELSE literal[k]
    BY <1>3
  <2> QED
    BY <1>5, <2>3, <2>4
<1>9. \A f \in Fields, id \in 0 .. N :
        link'[f][id] = IF <<f, id>> = s THEN N
                       ELSE IF id < N THEN link[f][id]
                       ELSE IF f = "next" THEN At(s) ELSE Undef
  BY <1>4
<1>10. link' \in [Fields -> [Nodes(N + 1) -> {Undef} \cup Inner(N + 1)]]
  <2>1. ASSUME NEW f \in Fields, NEW id \in 0 .. N
        PROVE  (IF <<f, id>> = s THEN N
                ELSE IF id < N THEN link[f][id]
                ELSE IF f = "next" THEN At(s) ELSE Undef) \in {Undef} \cup Inner(N + 1)
    <3>1. id < N => id \in Nodes(N)
      BY <1>1 DEF Nodes
    <3>2. id < N => link[f][id] \in {Undef} \cup Inner(N)
      BY <1>1, <3>1 DEF LinksOK
    <3> QED
      BY <1>6, <1>7, <3>2
  <2> QED
    BY <1>4, <1>5, <2>1
<1>11. \A t \in Slots(N) : t = <<t[1], t[2]>> /\ t[1] \in Fields /\ t[2] \in Nodes(N)
  BY DEF Slots
<1>12. \A t : At(t)' = link'[t[1]][t[2]]
  BY DEF At
<1>13. At(s)' = N
  BY <1>5, <1>7, <1>9, <1>12
<1>14. ASSUME NEW t \in Slots(N) \ {s} PROVE At(t)' = At(t)
  <2>1. t = <<t[1], t[2]>> /\ t[1] \in Fields /\ t[2] \in Nodes(N)
    BY <1>11
  <2>2. <<t[1], t[2]>> # s /\ t[2] < N /\ t[2] \in 0 .. N
    BY <1>5, <2>1
  <2> QED
    BY <1>9, <1>12, <2>1, <2>2 DEF At
<1>15. \A f \in Fields : <<f, N>> # s /\ link'[f][N] = IF f = "next" THEN At(s) ELSE Undef
  <2>1. \A f \in Fields : <<f, N>> # s
    BY <1>5, <1>7
  <2> QED
    BY <1>1, <1>5, <1>9, <2>1
<1>16. "first" \in Fields /\ "next" \in Fields /\ "right" \in Fields
  BY DEF Fields
<1>17. At(<<"first", N>>)' = Undef /\ At(<<"right", N>>)' = Undef /\ At(<<"next", N>>)' = At(s)
  BY <1>12, <1>15, <1>16
<1> QED
  BY <1>8, <1>10, <1>13, <1>14, <1>17 DEF Grown

\* Front and Rear, as they are used: the letters they leave.
LEMMA Leaves ==
  ASSUME NEW S, NEW x, S \subseteq Nat, x \in Nat, kind \in {"binary", "sorted", "ternary"}
  PROVE  /\ Front(S, x) \subseteq S \ {x} /\ Rear(S, x) \subseteq S \ {x}
         /\ Front(S, x) \cap Rear(S, x) = {}
         /\ kind # "ternary" => Rear(S, x) = {}
         /\ kind = "sorted" => \A c \in Front(S, x) : c > x
         /\ kind = "sorted" => \A y \in Nat : y > x => Front(Front(S, x), y) = Front(S, y)
         /\ \A T : S \subseteq T => Front(S, x) \subseteq Front(T, x) /\ Rear(S, x) \subseteq Rear(T, x)
<1>1. Front(S, x) \subseteq S \ {x} /\ Rear(S, x) \subseteq S \ {x}
  <2>1. ASSUME NEW d \in Front(S, x) PROVE d \in S /\ d # x
    BY <2>1 DEF Front
  <2>2. ASSUME NEW d \in Rear(S, x) PROVE d \in S /\ d # x
    BY <2>2 DEF Rear
  <2> QED
    BY <2>1, <2>2
<1>2. Front(S, x) \cap Rear(S, x) = {}
  <2>1. ASSUME NEW d \in Front(S, x), NEW e \in Rear(S, x) PROVE d # e
    BY DEF Front, Rear
  <2> QED
    BY <2>1
<1>3. (kind # "ternary" => Rear(S, x) = {}) /\ (kind = "sorted" => \A c \in Front(S, x) : c > x)
  BY DEF Front, Rear
<1>4. ASSUME kind = "sorted", NEW y \in Nat, y > x PROVE Front(Front(S, x), y) = Front(S, y)
  <2>1. Front(Front(S, x), y) = {c \in {d \in S : d > x} : c > y} /\ Front(S, y) = {c \in S : c > y}
    BY <1>4 DEF Front
  <2>2. \A d \in S : d > y => d > x
    BY <1>4
  <2> QED
    BY <2>1, <2>2
<1>5. \A T : S \subseteq T => Front(S, x) \subseteq Front(T, x) /\ Rear(S, x) \subseteq Rear(T, x)
  BY DEF Front, Rear
<1> QED
  BY <1>1, <1>2, <1>3, <1>4, <1>5

LEMMA SameLeaves ==
  ASSUME NEW S, NEW x, kind' = kind
  PROVE  Front(S, x)' = Front(S, x) /\ Rear(S, x)' = Rear(S, x)
BY DEF Front, Rear

\* The parents and the letters of the slots after it.
Enlarged(N, up, W, p, c, s, up2, W2) ==
  /\ N \in Nat /\ N + 1 \in Nat /\ Nodes(N + 1) = Nodes(N) \cup {N} /\ N \notin Nodes(N)
  /\ Inner(N + 1) = Inner(N) \cup {N} /\ N \notin Inner(N) /\ Inner(N) \subseteq Nodes(N)
  /\ Slots(N + 1) = Slots(N) \cup {<<f, N>> : f \in Fields}
  /\ up2 \in [Inner(N + 1) -> Nodes(N + 1)]
  /\ up2[N] = p /\ \A k \in Inner(N) : up2[k] = up[k]
  /\ W2 \in [Slots(N + 1) -> SUBSET Sigma]
  /\ \A t \in Slots(N) : W2[t] = W[t]
  /\ W2[<<"first", N>>] = Sigma
  /\ W2[<<"next", N>>] = Front(W[s], c) /\ W2[<<"right", N>>] = Rear(W[s], c)

LEMMA NewMaps ==
  ASSUME NEW N, NEW up, NEW W, NEW p, NEW c, NEW s, Shape(N, up, W), Gap(N, up, W, p, c, s),
         NEW up2, up2 = UpWith(N, up, p), NEW W2, W2 = LettersWith(N, W, s, c)
  PROVE  Enlarged(N, up, W, p, c, s, up2, W2)
<1>1. N \in Nat /\ N >= Roots /\ Roots \in Nat \ {0} /\ s \in Slots(N) /\ p \in Nodes(N) /\ c \in Sigma
  BY TriesAssumption DEF Shape, Gap, LinksOK
<1>2. /\ N + 1 \in Nat /\ Nodes(N + 1) = Nodes(N) \cup {N} /\ N \notin Nodes(N)
      /\ Inner(N + 1) = Inner(N) \cup {N} /\ N \notin Inner(N) /\ Inner(N) \subseteq Nodes(N)
  BY <1>1 DEF Nodes, Inner
<1>3. Slots(N + 1) = Slots(N) \cup {<<f, N>> : f \in Fields}
  <2>1. ASSUME NEW t PROVE t \in Slots(N + 1) <=> t \in Slots(N) \cup {<<f, N>> : f \in Fields}
    BY <1>2 DEF Slots
  <2> QED
    BY <2>1
<1>4. up \in [Inner(N) -> Nodes(N)] /\ W \in [Slots(N) -> SUBSET Sigma]
  BY DEF Shape, EdgesOK, LettersOK
<1>5. up2 = [k \in Inner(N + 1) |-> IF k = N THEN p ELSE up[k]]
  BY DEF UpWith
<1>6. /\ up2 \in [Inner(N + 1) -> Nodes(N + 1)]
      /\ up2[N] = p /\ \A k \in Inner(N) : up2[k] = up[k]
  BY <1>1, <1>2, <1>4, <1>5
<1>7. W2 = [t \in Slots(N + 1) |->
              IF t[2] # N THEN W[t]
              ELSE CASE t[1] = "first" -> Sigma
                     [] t[1] = "next" -> Front(W[s], c)
                     [] OTHER -> Rear(W[s], c)]
  BY DEF LettersWith
<1>8. W[s] \subseteq Sigma /\ Front(W[s], c) \subseteq Sigma /\ Rear(W[s], c) \subseteq Sigma
  <2>1. W[s] \subseteq Sigma
    BY <1>1, <1>4
  <2>2. Front(W[s], c) \subseteq W[s] /\ Rear(W[s], c) \subseteq W[s]
    BY DEF Front, Rear
  <2> QED
    BY <2>1, <2>2
<1>9. \A t \in Slots(N) : t[2] # N /\ W2[t] = W[t]
  <2>1. ASSUME NEW t \in Slots(N) PROVE t[2] # N /\ t \in Slots(N + 1)
    BY <1>2, <1>3 DEF Slots
  <2> QED
    BY <1>7, <2>1
<1>10. /\ W2[<<"first", N>>] = Sigma
       /\ W2[<<"next", N>>] = Front(W[s], c) /\ W2[<<"right", N>>] = Rear(W[s], c)
  <2>1. <<"first", N>> \in Slots(N + 1) /\ <<"next", N>> \in Slots(N + 1) /\ <<"right", N>> \in Slots(N + 1)
    BY <1>3 DEF Fields
  <2> QED
    BY <1>7, <2>1
<1>11. W2 \in [Slots(N + 1) -> SUBSET Sigma]
  <2>1. ASSUME NEW t \in Slots(N + 1) PROVE W2[t] \in SUBSET Sigma
    <3>1. CASE t \in Slots(N)
      BY <1>4, <1>9, <3>1
    <3>2. CASE \E f \in Fields : t = <<f, N>>
      BY <1>8, <1>10, <3>2 DEF Fields
    <3> QED
      BY <1>3, <2>1, <3>1, <3>2
  <2> QED
    BY <1>7, <2>1
<1> QED
  BY <1>1, <1>2, <1>3, <1>6, <1>9, <1>10, <1>11 DEF Enlarged

\* The letters of the slots after it are again right ...
LEMMA LettersStay ==
  ASSUME NEW N, NEW up, NEW W, NEW p, NEW c, NEW s, Shape(N, up, W), Gap(N, up, W, p, c, s),
         NEW up2, up2 = UpWith(N, up, p), NEW W2, W2 = LettersWith(N, W, s, c), Grown(N, c, s)
  PROVE  (EdgesOK(N + 1, up2, literal) /\ LettersOK(N + 1, W2))'
<1>1. EdgesOK(N, up, literal) /\ LettersOK(N, W) /\ LinksOK(N)
  BY DEF Shape
<1>a. Enlarged(N, up, W, p, c, s, up2, W2)
  BY NewMaps
<1>2. /\ N \in Nat /\ N + 1 \in Nat /\ Nodes(N + 1) = Nodes(N) \cup {N} /\ N \notin Nodes(N)
      /\ Inner(N + 1) = Inner(N) \cup {N} /\ N \notin Inner(N) /\ Inner(N) \subseteq Nodes(N)
      /\ Slots(N + 1) = Slots(N) \cup {<<f, N>> : f \in Fields}
      /\ up2 \in [Inner(N + 1) -> Nodes(N + 1)]
      /\ up2[N] = p /\ \A k \in Inner(N) : up2[k] = up[k]
      /\ W2 \in [Slots(N + 1) -> SUBSET Sigma]
      /\ \A t \in Slots(N) : W2[t] = W[t]
      /\ W2[<<"first", N>>] = Sigma
      /\ W2[<<"next", N>>] = Front(W[s], c) /\ W2[<<"right", N>>] = Rear(W[s], c)
  BY <1>a DEF Enlarged
<1>4. /\ p \in Nodes(N) /\ c \in Sigma /\ \A k \in Inner(N) : ~(up[k] = p /\ literal[k] = c)
      /\ kind' = kind /\ literal'[N] = c /\ \A k \in Nodes(N) : literal'[k] = literal[k]
  BY DEF Gap, Grown, IsChild
<1>5. \A k \in Inner(N) : literal'[k] = literal[k]
  BY <1>2, <1>4
<1>6. EdgesOK(N + 1, up2, literal)'
  <2>1. ASSUME NEW k \in Inner(N + 1) PROVE up2[k] < k /\ literal'[k] \in Sigma
    <3>1. CASE k = N
      <4>1. p < N
        BY <1>2, <1>4 DEF Nodes
      <4> QED
        BY <1>2, <1>4, <3>1, <4>1
    <3>2. CASE k \in Inner(N)
      BY <1>1, <1>2, <1>5, <3>2 DEF EdgesOK
    <3> QED
      BY <1>2, <3>1, <3>2
  <2>2. ASSUME NEW j \in Inner(N + 1), NEW k \in Inner(N + 1),
               up2[j] = up2[k], literal'[j] = literal'[k]
        PROVE  j = k
    <3>1. CASE j = N
      BY <1>2, <1>4, <1>5, <2>2, <3>1, Zenon
    <3>2. CASE k = N
      BY <1>2, <1>4, <1>5, <2>2, <3>2, Zenon
    <3>3. CASE j \in Inner(N) /\ k \in Inner(N)
      BY <1>1, <1>2, <1>5, <2>2, <3>3 DEF EdgesOK
    <3>4. (j = N \/ j \in Inner(N)) /\ (k = N \/ k \in Inner(N))
      BY <1>2
    <3> QED
      BY <3>1, <3>2, <3>3, <3>4
  <2> QED
    BY <1>2, <2>1, <2>2 DEF EdgesOK
<1>7. LettersOK(N + 1, W2)'
  <2>1. ASSUME NEW q \in Nodes(N + 1) PROVE W2[<<"first", q>>] = Sigma
    <3>1. CASE q \in Nodes(N)
      <4>1. <<"first", q>> \in Slots(N)
        BY <3>1 DEF Slots, Fields
      <4> QED
        BY <1>1, <1>2, <3>1, <4>1 DEF LettersOK
    <3> QED
      BY <1>2, <2>1, <3>1
  <2>2. ASSUME NEW i \in 0 .. Roots - 1
        PROVE  W2[<<"next", i>>] = {} /\ W2[<<"right", i>>] = {}
    <3>1. i \in Nodes(N)
      BY <1>1, TriesAssumption DEF LinksOK, Nodes
    <3>2. <<"next", i>> \in Slots(N) /\ <<"right", i>> \in Slots(N)
      BY <3>1 DEF Slots, Fields
    <3> QED
      BY <1>1, <1>2, <2>2, <3>2 DEF LettersOK
  <2>3. ASSUME NEW k \in Inner(N + 1)
        PROVE  /\ W2[<<"next", k>>] \subseteq Front(Sigma, literal'[k])
               /\ W2[<<"right", k>>] \subseteq Rear(Sigma, literal'[k])
    <3>1. CASE k = N
      <4>1. W[s] \subseteq Sigma
        BY <1>1 DEF LettersOK, Gap
      <4>2. Front(W[s], c) \subseteq Front(Sigma, c) /\ Rear(W[s], c) \subseteq Rear(Sigma, c)
        BY <4>1 DEF Front, Rear
      <4> QED
        BY <1>2, <1>4, <3>1, <4>2
    <3>2. CASE k \in Inner(N)
      <4>1. <<"next", k>> \in Slots(N) /\ <<"right", k>> \in Slots(N)
        BY <1>2, <3>2 DEF Slots, Fields
      <4> QED
        BY <1>1, <1>2, <1>5, <3>2, <4>1 DEF LettersOK
    <3> QED
      BY <1>2, <2>3, <3>1, <3>2
  <2>4. \A x : Front(Sigma, x)' = Front(Sigma, x) /\ Rear(Sigma, x)' = Rear(Sigma, x)
    BY <1>4 DEF Front, Rear
  <2> HIDE DEF LettersOK
  <2> QED
    BY <1>2, <2>1, <2>2, <2>3, <1>4 DEF LettersOK, Front, Rear
<1> QED
  BY <1>6, <1>7

\* ... a slot stays where it was ...
LEMMA OwnerStays ==
  ASSUME NEW N, NEW up, NEW W, NEW p, NEW c, NEW s, Shape(N, up, W), Gap(N, up, W, p, c, s),
         NEW up2, up2 = UpWith(N, up, p), NEW W2, W2 = LettersWith(N, W, s, c), Grown(N, c, s),
         NEW t \in Slots(N), W[t] # {}
  PROVE  Own(up2, t) = Own(up, t) /\ Own(up, t) \in Nodes(N)
<1>1. LettersOK(N, W) /\ LinksOK(N) /\ EdgesOK(N, up, literal)
  BY DEF Shape
<1>a. Enlarged(N, up, W, p, c, s, up2, W2)
  BY NewMaps
<1>2. /\ up2[N] = p /\ \A k \in Inner(N) : up2[k] = up[k]
      /\ N \in Nat /\ Roots \in Nat
  BY <1>1, <1>a, TriesAssumption DEF Enlarged, LinksOK
<1>3. t[1] \in Fields /\ t[2] \in Nodes(N) /\ t = <<t[1], t[2]>>
  BY <1>1, SlotParts
<1>4. CASE t[1] = "first"
  BY <1>3, <1>4 DEF Own
<1>5. CASE t[1] # "first"
  <2>1. t[1] \in {"next", "right"}
    BY <1>3, <1>5 DEF Fields
  <2>2. ~(t[2] \in 0 .. Roots - 1)
    BY <1>1, <1>3, <2>1 DEF LettersOK
  <2>3. t[2] \in Inner(N)
    BY <1>2, <1>3, <2>2 DEF Nodes, Inner
  <2> QED
    BY <1>1, <1>2, <1>5, <2>3 DEF Own, EdgesOK
<1> QED
  BY <1>4, <1>5

\* ... and a search that ends in the new leaf's slots would have ended in s.
LEMMA EndBefore ==
  ASSUME NEW N, NEW up, NEW W, NEW p, NEW c, NEW s, Shape(N, up, W), Gap(N, up, W, p, c, s),
         NEW up2, up2 = UpWith(N, up, p), NEW W2, W2 = LettersWith(N, W, s, c), Grown(N, c, s),
         NEW t \in Slots(N + 1), t # <<"first", N>>, NEW d \in W2[t], Ends(t, d)'
  PROVE  \E b \in Slots(N) : /\ Ends(b, d) /\ d \in W[b] /\ Own(up, b) = Own(up2, t)
                             /\ Own(up2, t) \in Nodes(N)
                             /\ t = b \/ (b = s /\ t \in {<<"next", N>>, <<"right", N>>})
                             /\ b = s /\ t = s => IF kind = "sorted" THEN d <= c ELSE d = c
<1>0. /\ LinksOK(N) /\ LettersOK(N, W) /\ EdgesOK(N, up, literal) /\ SlotOK(N, up, W, s)
      /\ c \in Nat /\ c \in Sigma /\ Sigma \subseteq Nat /\ s \in Slots(N)
  BY TriesAssumption DEF Shape, Gap
<1>a. Enlarged(N, up, W, p, c, s, up2, W2)
  BY NewMaps
<1>1. /\ N \in Nat /\ N + 1 \in Nat /\ Nodes(N + 1) = Nodes(N) \cup {N} /\ N \notin Nodes(N)
      /\ Inner(N + 1) = Inner(N) \cup {N} /\ N \notin Inner(N) /\ Inner(N) \subseteq Nodes(N)
      /\ Slots(N + 1) = Slots(N) \cup {<<f, N>> : f \in Fields}
      /\ up2[N] = p /\ W2 \in [Slots(N + 1) -> SUBSET Sigma]
      /\ \A q \in Slots(N) : W2[q] = W[q]
      /\ W2[<<"next", N>>] = Front(W[s], c) /\ W2[<<"right", N>>] = Rear(W[s], c)
  BY <1>a DEF Enlarged
<1>2. /\ kind' = kind /\ literal'[N] = c /\ \A k \in Nodes(N) : literal'[k] = literal[k]
      /\ At(s)' = N /\ At(<<"right", N>>)' = Undef /\ At(<<"next", N>>)' = At(s)
      /\ \A q \in Slots(N) \ {s} : At(q)' = At(q)
  BY DEF Grown
<1>3. /\ kind \in {"binary", "sorted", "ternary"} /\ p \in Nodes(N)
      /\ Ends(s, c) /\ Own(up, s) = p /\ c \in W[s]
      /\ At(s) # Undef => kind = "sorted" /\ literal[At(s)] > c
  BY DEF Gap
<1>4. d \in Sigma /\ d \in Nat
  BY <1>0, <1>1
<1>5. N # Undef
  BY <1>1 DEF Undef
<1>6. CASE t \in Slots(N) \ {s}
  <2>1. At(t) \in {Undef} \cup Inner(N)
    BY <1>0, <1>6, SlotParts
  <2>2. At(t)' = At(t) /\ (At(t) # Undef => literal'[At(t)] = literal[At(t)])
    BY <1>1, <1>2, <1>6, <2>1
  <2>3. Ends(t, d)
    BY <1>2, <2>2 DEF Ends, SortedEnds, ListEnds
  <2>4. Own(up2, t) = Own(up, t) /\ Own(up, t) \in Nodes(N) /\ d \in W[t]
    BY <1>1, <1>6, OwnerStays
  <2> QED
    BY <1>6, <2>3, <2>4
<1>7. CASE t = s
  <2>1. IF kind = "sorted" THEN d <= c ELSE d = c
    BY <1>2, <1>4, <1>0, <1>5, <1>7 DEF Ends, SortedEnds, ListEnds
  <2>2. Ends(s, d)
    <3>1. CASE kind = "sorted"
      <4>1. ASSUME At(s) # Undef PROVE literal[At(s)] >= d
        <5>1. At(s) \in Inner(N)
          BY <1>0, <4>1, SlotParts
        <5>2. literal[At(s)] \in Nat
          BY <1>0, <5>1, LetterIsNumber
        <5> QED
          BY <1>0, <1>3, <1>4, <2>1, <3>1, <4>1, <5>2
      <4> QED
        BY <3>1, <4>1 DEF Ends, SortedEnds
    <3>2. CASE kind # "sorted"
      BY <1>3, <2>1, <3>2
    <3> QED
      BY <3>1, <3>2
  <2>3. Own(up2, s) = p /\ d \in W[s]
    BY <1>0, <1>1, <1>3, <1>7, OwnerStays
  <2> QED
    BY <1>0, <1>3, <1>7, <2>1, <2>2, <2>3
<1>8. CASE t = <<"next", N>> \/ t = <<"right", N>>
  <2>1. W[s] \subseteq Nat
    BY <1>0 DEF LettersOK
  <2>2. d \in W[s]
    BY <1>0, <1>1, <1>3, <1>8, <2>1, Leaves
  <2>3. Own(up2, t) = p
    BY <1>1, <1>8 DEF Own
  <2>4. t # s
    BY <1>0, <1>1, <1>8 DEF Slots
  <2>5. Ends(s, d)
    <3>1. CASE At(s) = Undef
      BY <3>1 DEF Ends, SortedEnds, ListEnds
    <3>2. CASE At(s) # Undef
      <4>1. kind = "sorted" /\ t = <<"next", N>>
        <5>1. W2[<<"right", N>>] = {} \/ kind = "ternary"
          BY <1>1 DEF Rear
        <5> QED
          BY <1>3, <1>8, <3>2, <5>1
      <4>2. At(t)' = At(s) /\ At(s) \in Inner(N)
        BY <1>0, <1>2, <3>2, <4>1, SlotParts
      <4>3. literal'[At(s)] = literal[At(s)]
        BY <1>1, <1>2, <4>2
      <4>4. literal[At(s)] >= d
        BY <1>2, <3>2, <4>1, <4>2, <4>3 DEF Ends, SortedEnds
      <4> QED
        BY <4>1, <4>4 DEF Ends, SortedEnds
    <3> QED
      BY <3>1, <3>2
  <2> QED
    BY <1>0, <1>3, <1>8, <2>2, <2>3, <2>4, <2>5
<1>9. t \in Slots(N) \/ t = <<"next", N>> \/ t = <<"right", N>>
  BY <1>1 DEF Fields
<1> QED
  BY <1>6, <1>7, <1>8, <1>9

\* The search for a letter ends at one slot only.
LEMMA OneEndStays ==
  ASSUME NEW N, NEW up, NEW W, NEW p, NEW c, NEW s, Shape(N, up, W), Gap(N, up, W, p, c, s),
         NEW up2, up2 = UpWith(N, up, p), NEW W2, W2 = LettersWith(N, W, s, c), Grown(N, c, s)
  PROVE  OneEnd(N + 1, up2, W2)'
<1>a. Enlarged(N, up, W, p, c, s, up2, W2)
  BY NewMaps
<1>1. /\ Slots(N + 1) = Slots(N) \cup {<<f, N>> : f \in Fields}
      /\ N \notin Nodes(N) /\ W2 \in [Slots(N + 1) -> SUBSET Sigma]
      /\ W2[<<"next", N>>] = Front(W[s], c) /\ W2[<<"right", N>>] = Rear(W[s], c)
  BY <1>a DEF Enlarged
<1>2. /\ OneEnd(N, up, W) /\ W[s] \subseteq Nat /\ c \in Nat
      /\ kind \in {"binary", "sorted", "ternary"} /\ s \in Slots(N)
  BY TriesAssumption DEF Shape, LettersOK, Gap
<1> DEFINE F == <<"first", N>>
           n == <<"next", N>>
           r == <<"right", N>>
<1>3. Own(up2, F) = N
  BY DEF Own
<1>4. s # n /\ s # r
  BY <1>1, <1>2 DEF Slots
<1>5. SUFFICES ASSUME NEW t \in Slots(N + 1), NEW u \in Slots(N + 1), NEW d \in W2[t] \cap W2[u],
                      Own(up2, t) = Own(up2, u), Ends(t, d)', Ends(u, d)'
               PROVE  t = u
  BY DEF OneEnd
<1>6. CASE t = F
  <2>1. ASSUME u # F PROVE FALSE
    <3>1. Own(up2, u) \in Nodes(N)
      BY <1>5, <2>1, EndBefore
    <3> QED
      BY <1>1, <1>3, <1>5, <1>6, <3>1, Zenon
  <2> QED
    BY <1>6, <2>1
<1>7. CASE t # F /\ u = F
  <2>1. Own(up2, t) \in Nodes(N)
    BY <1>5, <1>7, EndBefore
  <2> QED
    BY <1>1, <1>3, <1>5, <1>7, <2>1
<1>8. CASE t # F /\ u # F
  <2>1. PICK b \in Slots(N) :
          /\ Ends(b, d) /\ d \in W[b] /\ Own(up, b) = Own(up2, t)
          /\ t = b \/ (b = s /\ t \in {n, r})
          /\ b = s /\ t = s => IF kind = "sorted" THEN d <= c ELSE d = c
    BY <1>5, <1>8, EndBefore
  <2>2. PICK e \in Slots(N) :
          /\ Ends(e, d) /\ d \in W[e] /\ Own(up, e) = Own(up2, u)
          /\ u = e \/ (e = s /\ u \in {n, r})
          /\ e = s /\ u = s => IF kind = "sorted" THEN d <= c ELSE d = c
    BY <1>5, <1>8, EndBefore
  <2>3. b = e
    BY <1>2, <1>5, <2>1, <2>2 DEF OneEnd
  <2>4. CASE b # s
    BY <2>1, <2>2, <2>3, <2>4
  <2>5. CASE b = s
    <3>1. d \in W2[t] /\ d \in W2[u] /\ d \in Nat
      BY <1>2, <2>1, <2>5
    <3>2. t \in {s, n, r} /\ u \in {s, n, r}
      BY <2>1, <2>2, <2>3, <2>5
    <3>3. d \in W2[n] \cup W2[r] => ~(IF kind = "sorted" THEN d <= c ELSE d = c)
      BY <1>1, <1>2, <3>1 DEF Front, Rear
    <3>4. ~(d \in W2[n] /\ d \in W2[r])
      BY <1>1, <1>2, Leaves
    <3>5. t = s => IF kind = "sorted" THEN d <= c ELSE d = c
      BY <2>1, <2>5
    <3>6. u = s => IF kind = "sorted" THEN d <= c ELSE d = c
      BY <2>2, <2>3, <2>5
    <3> HIDE DEF n, r
    <3> QED
      BY <3>1, <3>2, <3>3, <3>4, <3>5, <3>6
  <2> QED
    BY <2>4, <2>5
<1> QED
  BY <1>6, <1>7, <1>8

\* The children kept behind an old slot: those from before, and the new leaf
\* if it was searched there.
LEMMA KidsAfter ==
  ASSUME NEW N, NEW up, NEW W, NEW p, NEW c, NEW s, Shape(N, up, W), Gap(N, up, W, p, c, s),
         NEW up2, up2 = UpWith(N, up, p), NEW W2, W2 = LettersWith(N, W, s, c), Grown(N, c, s),
         NEW t \in Slots(N)
  PROVE  /\ Kids(N, up, W, t) \subseteq Kids(N + 1, up2, W2, t)'
         /\ Kids(N + 1, up2, W2, t)' \subseteq Kids(N, up, W, t) \cup {N}
         /\ N \in Kids(N + 1, up2, W2, t)' => Own(up, t) = p /\ c \in W[t]
         /\ \A k \in Kids(N, up, W, t) : literal'[k] = literal[k] /\ k \in Inner(N)
         /\ Own(up, t) = p /\ c \in W[t] => N \in Kids(N + 1, up2, W2, t)'
<1>a. Enlarged(N, up, W, p, c, s, up2, W2)
  BY NewMaps
<1>1. /\ Inner(N + 1) = Inner(N) \cup {N} /\ N \notin Inner(N) /\ Inner(N) \subseteq Nodes(N)
      /\ up2[N] = p /\ \A k \in Inner(N) : up2[k] = up[k]
      /\ W2[t] = W[t]
  BY <1>a DEF Enlarged
<1>2. literal'[N] = c /\ \A k \in Nodes(N) : literal'[k] = literal[k]
  BY DEF Grown
<1>3. W[t] # {} => Own(up2, t) = Own(up, t)
  BY OwnerStays
<1>4. Kids(N + 1, up2, W2, t)' = {k \in Inner(N + 1) : up2[k] = Own(up2, t) /\ literal'[k] \in W2[t]}
  BY DEF Kids
<1>5. Kids(N, up, W, t) = {k \in Inner(N) : up[k] = Own(up, t) /\ literal[k] \in W[t]}
  BY DEF Kids
<1> QED
  BY <1>1, <1>2, <1>3, <1>4, <1>5

\* A slot that did not change ...
LEMMA OldSlotStays ==
  ASSUME NEW N, NEW up, NEW W, NEW p, NEW c, NEW s, Shape(N, up, W), Gap(N, up, W, p, c, s),
         NEW up2, up2 = UpWith(N, up, p), NEW W2, W2 = LettersWith(N, W, s, c), Grown(N, c, s),
         NEW t \in Slots(N) \ {s}
  PROVE  SlotOK(N + 1, up2, W2, t)'
<1>a. Enlarged(N, up, W, p, c, s, up2, W2)
  BY NewMaps
<1>1. /\ LinksOK(N) /\ EdgesOK(N, up, literal) /\ SlotOK(N, up, W, t) /\ OneEnd(N, up, W)
      /\ Sigma \subseteq Nat /\ c \in Nat
  BY TriesAssumption DEF Shape, Gap
<1>2. /\ W2[t] = W[t] /\ Inner(N) \subseteq Nodes(N)
      /\ \A q \in Slots(N) : W2[q] = W[q]
  BY <1>a DEF Enlarged
<1>3. /\ kind' = kind /\ literal'[N] = c /\ \A k \in Nodes(N) : literal'[k] = literal[k]
      /\ At(t)' = At(t)
  BY DEF Grown
<1>4. s \in Slots(N) /\ Ends(s, c) /\ Own(up, s) = p /\ c \in W[s]
  BY DEF Gap
<1>5. ASSUME N \in Kids(N + 1, up2, W2, t)' PROVE ~Ends(t, c) /\ At(t) # Undef
  <2>1. Own(up, t) = p /\ c \in W[t]
    BY <1>5, KidsAfter
  <2>2. ~Ends(t, c)
    BY <1>1, <1>4, <2>1 DEF OneEnd
  <2> QED
    BY <2>2 DEF Ends, SortedEnds, ListEnds
<1>6. /\ Kids(N, up, W, t) \subseteq Kids(N + 1, up2, W2, t)'
      /\ Kids(N + 1, up2, W2, t)' \subseteq Kids(N, up, W, t) \cup {N}
      /\ \A k \in Kids(N, up, W, t) : literal'[k] = literal[k]
  BY KidsAfter
<1>7. CASE At(t) = Undef
  BY <1>1, <1>3, <1>5, <1>6, <1>7 DEF SlotOK
<1>8. CASE At(t) # Undef
  <2>1. /\ At(t) \in Inner(N) /\ <<"next", At(t)>> \in Slots(N) /\ <<"right", At(t)>> \in Slots(N)
    BY <1>1, <1>8, SlotParts DEF Fields
  <2>2. /\ At(t) \in Kids(N, up, W, t)
        /\ W[<<"next", At(t)>>] = Front(W[t], literal[At(t)])
        /\ W[<<"right", At(t)>>] = Rear(W[t], literal[At(t)])
    BY <1>1, <1>8 DEF SlotOK
  <2>3. literal'[At(t)] = literal[At(t)] /\ literal[At(t)] \in Nat
    BY <1>1, <1>6, <2>1, <2>2, LetterIsNumber
  <2>4. ASSUME kind = "sorted", NEW j \in Kids(N + 1, up2, W2, t)'
        PROVE  literal'[j] >= literal[At(t)]
    <3>1. CASE j \in Kids(N, up, W, t)
      BY <1>1, <1>6, <1>8, <2>4, <3>1 DEF SlotOK
    <3>2. CASE j = N
      BY <1>1, <1>3, <1>5, <2>3, <2>4, <3>2 DEF Ends, SortedEnds
    <3> QED
      BY <1>6, <2>4, <3>1, <3>2
  <2>5. Front(W[t], literal[At(t)])' = Front(W[t], literal[At(t)])
        /\ Rear(W[t], literal[At(t)])' = Rear(W[t], literal[At(t)])
    BY <1>3, <2>3 DEF Front, Rear
  <2>6. W2[<<"next", At(t)>>] = Front(W2[t], literal[At(t)])'
        /\ W2[<<"right", At(t)>>] = Rear(W2[t], literal[At(t)])'
    BY <1>2, <2>1, <2>2, <2>5
  <2>7. At(t)' \in Kids(N + 1, up2, W2, t)'
    BY <1>3, <1>6, <2>2
  <2>8. SlotOK(N + 1, up2, W2, t)' <=>
          /\ At(t)' = Undef => Kids(N + 1, up2, W2, t)' = {}
          /\ At(t)' # Undef =>
               /\ At(t)' \in Kids(N + 1, up2, W2, t)'
               /\ W2[<<"next", At(t)'>>] = Front(W2[t], literal[At(t)])'
               /\ W2[<<"right", At(t)'>>] = Rear(W2[t], literal[At(t)])'
               /\ kind' = "sorted" => \A j \in Kids(N + 1, up2, W2, t)' : literal'[j] >= literal'[At(t)']
    BY Zenon DEF SlotOK
  <2> QED
    BY <1>3, <1>8, <2>3, <2>4, <2>6, <2>7, <2>8
<1> QED
  BY <1>7, <1>8

\* ... the slot s itself ...
LEMMA GapStays ==
  ASSUME NEW N, NEW up, NEW W, NEW p, NEW c, NEW s, Shape(N, up, W), Gap(N, up, W, p, c, s),
         NEW up2, up2 = UpWith(N, up, p), NEW W2, W2 = LettersWith(N, W, s, c), Grown(N, c, s)
  PROVE  SlotOK(N + 1, up2, W2, s)'
<1>a. Enlarged(N, up, W, p, c, s, up2, W2)
  BY NewMaps
<1>1. /\ LinksOK(N) /\ EdgesOK(N, up, literal) /\ SlotOK(N, up, W, s)
      /\ Sigma \subseteq Nat /\ c \in Nat /\ N \in Nat
  BY TriesAssumption DEF Shape, Gap, LinksOK
<1>2. /\ W2[s] = W[s] /\ W2[<<"next", N>>] = Front(W[s], c) /\ W2[<<"right", N>>] = Rear(W[s], c)
  BY <1>a DEF Enlarged, Gap
<1>3. kind' = kind /\ literal'[N] = c /\ At(s)' = N
  BY DEF Grown
<1>4. s \in Slots(N) /\ Ends(s, c) /\ Own(up, s) = p /\ c \in W[s]
  BY DEF Gap
<1>5. /\ N \in Kids(N + 1, up2, W2, s)'
      /\ Kids(N + 1, up2, W2, s)' \subseteq Kids(N, up, W, s) \cup {N}
      /\ \A k \in Kids(N, up, W, s) : literal'[k] = literal[k] /\ k \in Inner(N)
  BY <1>4, KidsAfter
<1>6. ASSUME kind = "sorted", NEW j \in Kids(N + 1, up2, W2, s)' PROVE literal'[j] >= c
  <2>1. CASE j \in Kids(N, up, W, s)
    <3>1. At(s) # Undef
      BY <1>1, <2>1 DEF SlotOK
    <3>2. At(s) \in Inner(N) /\ j \in Inner(N)
      BY <1>1, <1>4, <1>5, <2>1, <3>1, SlotParts
    <3>3. literal[At(s)] \in Nat /\ literal[j] \in Nat
      BY <1>1, <3>2, LetterIsNumber
    <3>4. literal[j] >= literal[At(s)] /\ literal[At(s)] >= c
      BY <1>1, <1>4, <1>6, <2>1, <3>1 DEF SlotOK, Ends, SortedEnds
    <3> QED
      BY <1>1, <1>5, <2>1, <3>3, <3>4
  <2>2. CASE j = N
    BY <1>1, <1>3, <2>2
  <2> QED
    BY <1>5, <1>6, <2>1, <2>2
<1>7. Front(W[s], c)' = Front(W[s], c) /\ Rear(W[s], c)' = Rear(W[s], c)
  BY <1>3 DEF Front, Rear
<1>8. N # Undef
  BY <1>1 DEF Undef
<1>9. SlotOK(N + 1, up2, W2, s)' <=>
        /\ At(s)' = Undef => Kids(N + 1, up2, W2, s)' = {}
        /\ At(s)' # Undef =>
             /\ At(s)' \in Kids(N + 1, up2, W2, s)'
             /\ W2[<<"next", At(s)'>>] = Front(W2[s], literal[At(s)])'
             /\ W2[<<"right", At(s)'>>] = Rear(W2[s], literal[At(s)])'
             /\ kind' = "sorted" => \A j \in Kids(N + 1, up2, W2, s)' : literal'[j] >= literal'[At(s)']
  BY Zenon DEF SlotOK
<1>10. Front(W2[s], literal[At(s)])' = Front(W[s], c)' /\ Rear(W2[s], literal[At(s)])' = Rear(W[s], c)'
  BY <1>2, <1>3 DEF Front, Rear
<1> QED
  BY <1>2, <1>3, <1>5, <1>6, <1>7, <1>8, <1>9, <1>10

\* ... and those of the new leaf, which share the other children of s.
Splits(N, up, W, s, up2, W2, q) ==
  /\ Kids(N + 1, up2, W2, q)' = {k \in Kids(N, up, W, s) : literal[k] \in W2[q]}
  /\ \A k \in Kids(N, up, W, s) : literal'[k] = literal[k]

LEMMA NewKids ==
  ASSUME NEW N, NEW up, NEW W, NEW p, NEW c, NEW s, Shape(N, up, W), Gap(N, up, W, p, c, s),
         NEW up2, up2 = UpWith(N, up, p), NEW W2, W2 = LettersWith(N, W, s, c), Grown(N, c, s),
         NEW q \in {<<"next", N>>, <<"right", N>>}
  PROVE  Splits(N, up, W, s, up2, W2, q)
<1>a. Enlarged(N, up, W, p, c, s, up2, W2)
  BY NewMaps
<1>1. /\ Inner(N + 1) = Inner(N) \cup {N} /\ N \notin Inner(N) /\ Inner(N) \subseteq Nodes(N)
      /\ up2[N] = p /\ \A k \in Inner(N) : up2[k] = up[k]
      /\ W2[<<"next", N>>] = Front(W[s], c) /\ W2[<<"right", N>>] = Rear(W[s], c)
  BY <1>a DEF Enlarged
<1>2. literal'[N] = c /\ \A k \in Nodes(N) : literal'[k] = literal[k]
  BY DEF Grown
<1>3. Own(up, s) = p /\ kind \in {"binary", "sorted", "ternary"} /\ c \in Nat /\ W[s] \subseteq Nat
  BY TriesAssumption DEF Gap, Shape, LettersOK
<1>4. W2[q] \subseteq W[s] \ {c}
  BY <1>1, <1>3, Leaves
<1>5. Own(up2, q) = p
  BY <1>1 DEF Own
<1>6. Kids(N + 1, up2, W2, q)' = {k \in Inner(N + 1) : up2[k] = p /\ literal'[k] \in W2[q]}
  BY <1>5 DEF Kids
<1>7. Kids(N, up, W, s) = {k \in Inner(N) : up[k] = p /\ literal[k] \in W[s]}
  BY <1>3 DEF Kids
<1> QED
  BY <1>1, <1>2, <1>4, <1>6, <1>7 DEF Splits

LEMMA NewSlotsOK ==
  ASSUME NEW N, NEW up, NEW W, NEW p, NEW c, NEW s, Shape(N, up, W), Gap(N, up, W, p, c, s),
         NEW up2, up2 = UpWith(N, up, p), NEW W2, W2 = LettersWith(N, W, s, c), Grown(N, c, s),
         NEW f \in Fields
  PROVE  SlotOK(N + 1, up2, W2, <<f, N>>)'
<1> DEFINE q == <<f, N>>
<1>a. Enlarged(N, up, W, p, c, s, up2, W2)
  BY NewMaps
<1>1. /\ LinksOK(N) /\ EdgesOK(N, up, literal) /\ SlotOK(N, up, W, s) /\ W[s] \subseteq Nat
      /\ Sigma \subseteq Nat /\ c \in Nat /\ N \in Nat /\ s \in Slots(N)
  BY TriesAssumption DEF Shape, Gap, LinksOK, LettersOK
<1>2. /\ Inner(N + 1) = Inner(N) \cup {N} /\ N \notin Inner(N) /\ Inner(N) \subseteq Nodes(N)
      /\ up2[N] = p /\ \A k \in Inner(N) : up2[k] = up[k]
      /\ W2[<<"next", N>>] = Front(W[s], c) /\ W2[<<"right", N>>] = Rear(W[s], c)
      /\ \A t \in Slots(N) : W2[t] = W[t]
  BY <1>a DEF Enlarged
<1>3. /\ kind' = kind /\ \A k \in Nodes(N) : literal'[k] = literal[k]
      /\ At(<<"first", N>>)' = Undef /\ At(<<"right", N>>)' = Undef /\ At(<<"next", N>>)' = At(s)
  BY DEF Grown
<1>4. /\ At(s) # Undef => kind = "sorted" /\ literal[At(s)] > c
      /\ p \in Nodes(N) /\ kind \in {"binary", "sorted", "ternary"}
  BY DEF Gap
<1>b. ASSUME NEW r \in {<<"next", N>>, <<"right", N>>}
      PROVE  Splits(N, up, W, s, up2, W2, r)
  BY NewKids
<1>5. CASE f = "first"
  <2>1. Own(up2, q) = N
    BY <1>5 DEF Own
  <2>2. \A k \in Inner(N + 1) : up2[k] # N
    BY <1>1, <1>2, <1>4 DEF EdgesOK, Nodes
  <2>3. Kids(N + 1, up2, W2, q)' = {}
    BY <2>1, <2>2 DEF Kids
  <2> QED
    BY <1>3, <1>5, <2>3 DEF SlotOK
<1>6. CASE f \in {"next", "right"} /\ At(q)' = Undef
  <2>1. Kids(N + 1, up2, W2, q)' = {k \in Kids(N, up, W, s) : literal[k] \in W2[q]}
    BY <1>b, <1>6 DEF Splits
  <2>2. Kids(N + 1, up2, W2, q)' = {}
    <3>1. CASE At(s) = Undef
      BY <1>1, <2>1, <3>1 DEF SlotOK
    <3>2. CASE At(s) # Undef
      <4>1. W2[q] = {}
        BY <1>2, <1>3, <1>4, <1>6, <3>2 DEF Rear
      <4> QED
        BY <2>1, <4>1
    <3> QED
      BY <3>1, <3>2
  <2> QED
    BY <1>6, <2>2 DEF SlotOK
<1>7. CASE f = "next" /\ At(s) # Undef
  <2> DEFINE a == At(s)
  <2>1. kind = "sorted" /\ literal[a] > c /\ a \in Inner(N)
        /\ <<"next", a>> \in Slots(N) /\ <<"right", a>> \in Slots(N)
    BY <1>1, <1>4, <1>7, SlotParts DEF Fields
  <2>2. /\ a \in Kids(N, up, W, s)
        /\ W[<<"next", a>>] = Front(W[s], literal[a])
        /\ W[<<"right", a>>] = Rear(W[s], literal[a])
        /\ \A j \in Kids(N, up, W, s) : literal[j] >= literal[a]
    BY <1>1, <1>7, <2>1 DEF SlotOK
  <2>3. literal[a] \in Nat /\ literal'[a] = literal[a]
    BY <1>1, <1>2, <1>3, <2>1, LetterIsNumber
  <2>4. /\ Kids(N + 1, up2, W2, q)' = {k \in Kids(N, up, W, s) : literal[k] \in W2[q]}
        /\ \A k \in Kids(N, up, W, s) : literal'[k] = literal[k]
    BY <1>b, <1>7 DEF Splits
  <2>5. literal[a] \in W[s]
    BY <2>2 DEF Kids
  <2>6. W2[q] = Front(W[s], c)
    BY <1>2, <1>7
  <2>7. a \in Kids(N + 1, up2, W2, q)'
    BY <1>1, <2>1, <2>2, <2>4, <2>5, <2>6 DEF Front
  <2>8. Front(W2[q], literal[a]) = Front(W[s], literal[a]) /\ Rear(W2[q], literal[a]) = Rear(W[s], literal[a])
    <3>1. Front(Front(W[s], c), literal[a]) = Front(W[s], literal[a])
      BY <1>1, <1>4, <2>1, <2>3, Leaves
    <3>2. Rear(W2[q], literal[a]) = {} /\ Rear(W[s], literal[a]) = {}
      BY <2>1 DEF Rear
    <3> QED
      BY <2>6, <3>1, <3>2
  <2>9. At(q)' = a
    BY <1>3, <1>7
  <2>10. W2[<<"next", a>>] = Front(W2[q], literal[a]) /\ W2[<<"right", a>>] = Rear(W2[q], literal[a])
    BY <1>2, <2>1, <2>2, <2>8
  <2>11. Front(W2[q], literal[At(q)])' = Front(W2[q], literal[a]) /\ Rear(W2[q], literal[At(q)])' = Rear(W2[q], literal[a])
    <3>1. literal'[At(q)'] = literal[a]
      BY <2>3, <2>9
    <3> QED
      BY <1>3, <3>1 DEF Front, Rear
  <2>12. SlotOK(N + 1, up2, W2, q)' <=>
        /\ At(q)' = Undef => Kids(N + 1, up2, W2, q)' = {}
        /\ At(q)' # Undef =>
             /\ At(q)' \in Kids(N + 1, up2, W2, q)'
             /\ W2[<<"next", At(q)'>>] = Front(W2[q], literal[At(q)])'
             /\ W2[<<"right", At(q)'>>] = Rear(W2[q], literal[At(q)])'
             /\ kind' = "sorted" => \A j \in Kids(N + 1, up2, W2, q)' : literal'[j] >= literal'[At(q)']
    BY Zenon DEF SlotOK
  <2>13. \A j \in Kids(N + 1, up2, W2, q)' : literal'[j] >= literal'[a]
    BY <2>2, <2>3, <2>4
  <2>14. a # Undef
    BY <1>7
  <2>15. SlotOK(N + 1, up2, W2, q)'
    <3> HIDE DEF q, a
    <3> QED
      BY <2>3, <2>7, <2>9, <2>10, <2>11, <2>12, <2>13, <2>14
  <2> QED
    BY <2>15
<1> QED
  BY <1>3, <1>5, <1>6, <1>7 DEF Fields

\* find_or_insert adds a leaf where it belongs: the dictionary has one child
\* more.
LEMMA GrowKeepsShape ==
  ASSUME NEW N, NEW up, NEW W, Shape(N, up, W), kind \in {"binary", "sorted", "ternary"},
         NEW p \in Nodes(N), NEW c \in Sigma, Found(p, c) = Undef, Grow(p, c), kind' = kind
  PROVE  \E W2 : Shape(N + 1, UpWith(N, up, p), W2)'
<1>1. PICK s : s = Slot(p, c)
  OBVIOUS
<1>2. Gap(N, up, W, p, c, s)
  BY <1>1, GapFound
<1>3. Grown(N, c, s)
  BY <1>1, <1>2, GrowIsGrown
<1>4. PICK W2 : W2 = LettersWith(N, W, s, c)
  OBVIOUS
<1>5. PICK up2 : up2 = UpWith(N, up, p)
  OBVIOUS
<1>6. Enlarged(N, up, W, p, c, s, up2, W2)
  BY <1>2, <1>4, <1>5, NewMaps
<1>7. (EdgesOK(N + 1, up2, literal) /\ LettersOK(N + 1, W2))'
  BY <1>2, <1>3, <1>4, <1>5, LettersStay
<1>8. OneEnd(N + 1, up2, W2)'
  BY <1>2, <1>3, <1>4, <1>5, OneEndStays
<1>9. ASSUME NEW t \in Slots(N + 1) PROVE SlotOK(N + 1, up2, W2, t)'
  <2>1. CASE t \in Slots(N) \ {s}
    BY <1>2, <1>3, <1>4, <1>5, <2>1, OldSlotStays
  <2>2. CASE t = s
    BY <1>2, <1>3, <1>4, <1>5, <2>2, GapStays
  <2>3. CASE \E f \in Fields : t = <<f, N>>
    BY <1>2, <1>3, <1>4, <1>5, <2>3, NewSlotsOK
  <2>4. t \in Slots(N) \/ \E f \in Fields : t = <<f, N>>
    BY <1>6 DEF Enlarged
  <2> QED
    BY <2>1, <2>2, <2>3, <2>4
<1>10. LinksOK(N + 1)'
  <2>1. N + 1 \in Nat /\ N + 1 >= Roots
    BY TriesAssumption DEF Shape, LinksOK
  <2> QED
    BY <1>3, <2>1 DEF LinksOK, Grown
<1>11. Shape(N + 1, up2, W2)'
  BY <1>7, <1>8, <1>9, <1>10 DEF Shape
<1> QED
  BY <1>5, <1>11

\* clear() and add_rootnode leave the roots.
LEMMA RootsHaveShape ==
  ASSUME kind \in {"binary", "sorted", "ternary"}, link = LinkedRoots.link, literal = LinkedRoots.literal
  PROVE  \E up, W : Shape(Roots, up, W)
<1>1. Roots \in Nat \ {0} /\ Inner(Roots) = {} /\ Nodes(Roots) = 0 .. Roots - 1
  BY TriesAssumption DEF Inner, Nodes
<1>2. PICK up : up = [k \in Inner(Roots) |-> 0]
  OBVIOUS
<1>3. PICK W : W = [t \in Slots(Roots) |-> IF t[1] = "first" THEN Sigma ELSE {}]
  OBVIOUS
<1>4. \A t \in Slots(Roots) : t = <<t[1], t[2]>> /\ t[1] \in Fields /\ t[2] \in Nodes(Roots) /\ At(t) = Undef
  BY <1>1 DEF Slots, At, LinkedRoots
<1>5. LinksOK(Roots)
  <2>1. literal = [i \in Nodes(Roots) |-> i] /\ link = [f \in Fields |-> [i \in Nodes(Roots) |-> Undef]]
    BY <1>1 DEF LinkedRoots
  <2> QED
    BY <1>1, <2>1 DEF LinksOK
<1>6. EdgesOK(Roots, up, literal)
  BY <1>1, <1>2 DEF EdgesOK
<1>7. LettersOK(Roots, W)
  <2>1. \A p \in Nodes(Roots), f \in Fields : <<f, p>> \in Slots(Roots)
    BY DEF Slots
  <2>2. "first" \in Fields /\ "next" \in Fields /\ "right" \in Fields
    BY DEF Fields
  <2> QED
    BY <1>1, <1>3, <2>1, <2>2 DEF LettersOK
<1>8. OneEnd(Roots, up, W)
  <2>1. ASSUME NEW t \in Slots(Roots), NEW u \in Slots(Roots), NEW c \in W[t] \cap W[u],
               Own(up, t) = Own(up, u)
        PROVE  t = u
    <3>1. t[1] = "first" /\ u[1] = "first"
      BY <1>3, <2>1
    <3> QED
      BY <1>4, <2>1, <3>1 DEF Own
  <2> QED
    BY <2>1 DEF OneEnd
<1>9. \A t \in Slots(Roots) : SlotOK(Roots, up, W, t)
  BY <1>1, <1>4 DEF SlotOK, Kids
<1> QED
  BY <1>5, <1>6, <1>7, <1>8, <1>9 DEF Shape

-----------------------------------------------------------------------------
(***************************************************************************)
(* The order of the siblings: the nodes that links lead to from a slot are *)
(* the children kept behind it.                                            *)
(***************************************************************************)
LEMMA KidsSplit ==
  ASSUME NEW N, NEW up, NEW W, Shape(N, up, W), kind \in {"binary", "sorted", "ternary"},
         NEW t \in Slots(N), At(t) # Undef
  PROVE  /\ <<"next", At(t)>> \in Slots(N) /\ <<"right", At(t)>> \in Slots(N)
         /\ At(t) \in Kids(N, up, W, t)
         /\ At(t) \notin Kids(N, up, W, <<"next", At(t)>>)
         /\ At(t) \notin Kids(N, up, W, <<"right", At(t)>>)
         /\ Kids(N, up, W, t) = {At(t)} \cup Kids(N, up, W, <<"next", At(t)>>)
                                        \cup Kids(N, up, W, <<"right", At(t)>>)
<1> DEFINE a == At(t)
           n == <<"next", a>>
           r == <<"right", a>>
<1>1. /\ LinksOK(N) /\ EdgesOK(N, up, literal) /\ SlotOK(N, up, W, t)
      /\ Sigma \subseteq Nat /\ W[t] \subseteq Nat
  BY TriesAssumption DEF Shape, LettersOK
<1>2. a \in Inner(N) /\ n \in Slots(N) /\ r \in Slots(N)
  BY <1>1, SlotParts DEF Fields
<1>3. /\ a \in Kids(N, up, W, t)
      /\ W[n] = Front(W[t], literal[a]) /\ W[r] = Rear(W[t], literal[a])
      /\ kind = "sorted" => \A j \in Kids(N, up, W, t) : literal[j] >= literal[a]
  BY <1>1 DEF SlotOK
<1>4. literal[a] \in Nat /\ up[a] = Own(up, t)
  BY <1>1, <1>2, <1>3, LetterIsNumber DEF Kids
<1>5. Own(up, n) = Own(up, t) /\ Own(up, r) = Own(up, t)
  BY <1>4 DEF Own
<1>6. W[n] \subseteq W[t] \ {literal[a]} /\ W[r] \subseteq W[t] \ {literal[a]}
  BY <1>1, <1>3, <1>4, Leaves
<1>7. a \notin Kids(N, up, W, n) /\ a \notin Kids(N, up, W, r)
  BY <1>6 DEF Kids
<1>8. Kids(N, up, W, n) \subseteq Kids(N, up, W, t) /\ Kids(N, up, W, r) \subseteq Kids(N, up, W, t)
  BY <1>5, <1>6 DEF Kids
<1>9. ASSUME NEW k \in Kids(N, up, W, t), k # a
      PROVE  k \in Kids(N, up, W, n) \cup Kids(N, up, W, r)
  <2>1. k \in Inner(N) /\ up[k] = Own(up, t) /\ literal[k] \in W[t] /\ literal[k] \in Nat
    BY <1>1, <1>9 DEF Kids
  <2>2. literal[k] # literal[a]
    BY <1>1, <1>2, <1>4, <1>9, <2>1 DEF EdgesOK
  <2>3. kind = "sorted" => literal[k] > literal[a]
    BY <1>3, <1>4, <1>9, <2>1, <2>2
  <2>4. literal[k] \in W[n] \cup W[r]
    BY <1>3, <1>4, <2>1, <2>2, <2>3 DEF Front, Rear
  <2> QED
    BY <1>5, <2>1, <2>4 DEF Kids
<1> QED
  BY <1>2, <1>3, <1>7, <1>8, <1>9

LEMMA BelowIsKids ==
  ASSUME NEW N, NEW up, NEW W, Shape(N, up, W), kind \in {"binary", "sorted", "ternary"},
         NEW t \in Slots(N)
  PROVE  Below(t) \subseteq Kids(N, up, W, t)
<1> DEFINE S == Slots(N)
           K(u) == Kids(N, up, W, u)
           Solves(f) == f = [u \in S |-> IF At(u) = Undef THEN {}
                                         ELSE {At(u)} \cup f[<<"next", At(u)>>] \cup f[<<"right", At(u)>>]]
           B == CHOOSE f : Solves(f)
<1>1. N \in Nat /\ LinksOK(N) /\ Ids = Nodes(N) /\ S = Fields \X Ids
  BY DEF Shape, LinksOK, Ids, Slots
<1>2. \E f : Solves(f)
  <2> DEFINE f == [u \in S |-> K(u)]
  <2>1. ASSUME NEW u \in S
        PROVE  K(u) = IF At(u) = Undef THEN {}
                      ELSE {At(u)} \cup f[<<"next", At(u)>>] \cup f[<<"right", At(u)>>]
    <3>1. CASE At(u) = Undef
      BY <3>1 DEF Shape, SlotOK
    <3>2. CASE At(u) # Undef
      <4>1. /\ <<"next", At(u)>> \in S /\ <<"right", At(u)>> \in S
            /\ K(u) = {At(u)} \cup K(<<"next", At(u)>>) \cup K(<<"right", At(u)>>)
        BY <3>2, KidsSplit
      <4>2. f[<<"next", At(u)>>] = K(<<"next", At(u)>>) /\ f[<<"right", At(u)>>] = K(<<"right", At(u)>>)
        BY <4>1
      <4> HIDE DEF f, K
      <4> QED
        BY <3>2, <4>1, <4>2
    <3> QED
      BY <3>1, <3>2
  <2>2. Solves(f)
    BY <2>1
  <2> QED
    BY <2>2
<1>3. Solves(B)
  BY <1>2
<1>4. Below(t) = B[t]
  BY <1>1 DEF Below
<1> HIDE DEF B
<1> DEFINE m(u) == Cardinality(K(u))
           Bad == {m(u) : u \in {v \in S : ~(B[v] \subseteq K(v))}}
<1>5. ASSUME Bad # {} PROVE FALSE
  <2>1. Bad \subseteq Nat /\ \A u \in S : m(u) \in Nat /\ IsFiniteSet(K(u))
    BY <1>1, KidsFinite
  <2>2. PICK u \in S : ~(B[u] \subseteq K(u)) /\ \A y \in Bad : m(u) <= y
    BY <1>5, <2>1, LeastNumber
  <2>3. At(u) # Undef
    BY <1>3, <2>2
  <2> DEFINE n == <<"next", At(u)>>
             r == <<"right", At(u)>>
  <2>4. /\ n \in S /\ r \in S /\ At(u) \in K(u) /\ At(u) \notin K(n) /\ At(u) \notin K(r)
        /\ K(u) = {At(u)} \cup K(n) \cup K(r)
    BY <2>3, KidsSplit
  <2>5. m(n) < m(u) /\ m(r) < m(u)
    <3>1. K(n) \subseteq K(u) \ {At(u)} /\ K(r) \subseteq K(u) \ {At(u)}
      BY <2>4
    <3>2. IsFiniteSet(K(u)) /\ At(u) \in K(u)
      BY <2>1, <2>4
    <3> HIDE DEF K
    <3> QED
      BY <3>1, <3>2, Fewer
  <2>6. B[n] \subseteq K(n) /\ B[r] \subseteq K(r)
    <3>1. m(n) \notin Bad /\ m(r) \notin Bad
      <4>1. m(n) \in Nat /\ m(r) \in Nat /\ m(u) \in Nat
        BY <2>1, <2>4
      <4> HIDE DEF m, Bad, n, r
      <4> QED
        BY <2>2, <2>5, <4>1
    <3> QED
      BY <2>4, <3>1
  <2>7. B[u] = {At(u)} \cup B[n] \cup B[r]
    BY <1>3, <2>3
  <2> QED
    BY <2>2, <2>4, <2>6, <2>7
<1> QED
  BY <1>4, <1>5

LEMMA OrderFollows ==
  ASSUME NEW N, NEW up, NEW W, Shape(N, up, W), kind \in {"binary", "sorted", "ternary"}
  PROVE  SiblingsOrdered
<1>1. /\ LinksOK(N) /\ EdgesOK(N, up, literal) /\ LettersOK(N, W) /\ N \in Nat /\ N >= Roots
      /\ Ids = Nodes(N) /\ Sigma \subseteq Nat /\ Roots \in Nat
  BY TriesAssumption DEF Shape, LinksOK, Ids
<1>2. ASSUME NEW id \in Ids
      PROVE  /\ kind = "sorted" => \A o \in Below(<<"next", id>>) : literal[o] > literal[id]
             /\ kind = "ternary" =>
                  /\ \A o \in Below(<<"next", id>>) : literal[o] < literal[id]
                  /\ \A o \in Below(<<"right", id>>) : literal[o] > literal[id]
  <2> DEFINE n == <<"next", id>>
             r == <<"right", id>>
  <2>1. n \in Slots(N) /\ r \in Slots(N)
    BY <1>1 DEF Slots, Fields
  <2>2. Below(n) \subseteq Kids(N, up, W, n) /\ Below(r) \subseteq Kids(N, up, W, r)
    BY <2>1, BelowIsKids
  <2>3. (\A o \in Below(n) : literal[o] \in W[n]) /\ (\A o \in Below(r) : literal[o] \in W[r])
    BY <2>2 DEF Kids
  <2>4. CASE id \in Inner(N)
    <3>1. W[n] \subseteq Front(Sigma, literal[id]) /\ W[r] \subseteq Rear(Sigma, literal[id])
      BY <1>1, <2>4 DEF LettersOK
    <3> QED
      BY <2>3, <3>1 DEF Front, Rear
  <2>5. CASE id \in 0 .. Roots - 1
    BY <1>1, <2>3, <2>5 DEF LettersOK
  <2> QED
    BY <1>1, <2>4, <2>5 DEF Nodes, Inner
<1> QED
  BY <1>2 DEF SiblingsOrdered

-----------------------------------------------------------------------------
(***************************************************************************)
(* The hash trie: a key for every root and for every edge.                 *)
(***************************************************************************)
RootKeys == {<<0, i>> : i \in 0 .. Roots - 1}
EdgeKeys(N, up, lab) == {<<up[k], lab[k]>> : k \in Inner(N)}

HashShape(N, up, lab) ==
  /\ N \in Nat /\ N >= Roots
  /\ EdgesOK(N, up, lab)
  /\ table \in [RootKeys \cup EdgeKeys(N, up, lab) -> Nodes(N)]
  /\ \A i \in 0 .. Roots - 1 : table[<<0, i>>] = i
  /\ \A k \in Inner(N) : table[<<up[k], lab[k]>>] = k
  /\ IsFiniteSet(DOMAIN table) /\ Cardinality(DOMAIN table) = N

LEMMA HashFinds ==
  ASSUME NEW N, NEW up, NEW lab, HashShape(N, up, lab), kind = "hash",
         RootsApart, kind \in Kinds
  PROVE  Finds(N, up, lab)
<1> SUFFICES ASSUME NEW p \in Nodes(N), NEW c \in Sigma
             PROVE  /\ \A k : IsChild(N, up, lab, p, c, k) => Found(p, c) = k
                    /\ (\A k : ~IsChild(N, up, lab, p, c, k)) => Found(p, c) = Undef
  BY DEF Finds
<1>1. Found(p, c) = IF <<p, c>> \in DOMAIN table THEN table[<<p, c>>] ELSE Undef
  BY DEF Found, Linked
<1>2. <<p, c>> \notin RootKeys
  BY DEF RootKeys, RootsApart
<1>3. DOMAIN table = RootKeys \cup EdgeKeys(N, up, lab)
      /\ \A k \in Inner(N) : table[<<up[k], lab[k]>>] = k
  BY DEF HashShape
<1>4. ASSUME NEW k, IsChild(N, up, lab, p, c, k) PROVE Found(p, c) = k
  BY <1>1, <1>3, <1>4 DEF IsChild, EdgeKeys
<1>5. ASSUME \A k : ~IsChild(N, up, lab, p, c, k) PROVE Found(p, c) = Undef
  BY <1>1, <1>2, <1>3, <1>5 DEF IsChild, EdgeKeys
<1> QED
  BY <1>4, <1>5

\* A new edge gets the number of the nodes before it.
LabWith(N, lab, c) == [k \in Inner(N + 1) |-> IF k = N THEN c ELSE lab[k]]

LEMMA PutKeepsShape ==
  ASSUME NEW N, NEW up, NEW lab, HashShape(N, up, lab), kind = "hash", kind \in Kinds, RootsApart,
         NEW p \in Nodes(N), NEW c \in Sigma, Found(p, c) = Undef, Put(<<p, c>>)
  PROVE  HashShape(N + 1, UpWith(N, up, p), LabWith(N, lab, c))'
<1>1. /\ N \in Nat /\ N >= Roots /\ Roots \in Nat \ {0} /\ EdgesOK(N, up, lab)
      /\ table \in [RootKeys \cup EdgeKeys(N, up, lab) -> Nodes(N)]
      /\ IsFiniteSet(DOMAIN table) /\ Cardinality(DOMAIN table) = N
      /\ \A i \in 0 .. Roots - 1 : table[<<0, i>>] = i
      /\ \A k \in Inner(N) : table[<<up[k], lab[k]>>] = k
  BY TriesAssumption DEF HashShape
<1>2. /\ N + 1 \in Nat /\ N + 1 >= Roots /\ Nodes(N + 1) = Nodes(N) \cup {N}
      /\ Inner(N + 1) = Inner(N) \cup {N} /\ N \notin Inner(N)
  BY <1>1 DEF Nodes, Inner
<1>3. PICK up2, lab2 : up2 = UpWith(N, up, p) /\ lab2 = LabWith(N, lab, c)
  OBVIOUS
<1>4. /\ up2 \in [Inner(N + 1) -> Nodes(N + 1)] /\ up2[N] = p /\ lab2[N] = c
      /\ \A k \in Inner(N) : up2[k] = up[k] /\ lab2[k] = lab[k]
  BY <1>1, <1>2, <1>3 DEF UpWith, LabWith, EdgesOK
<1>5. <<p, c>> \notin DOMAIN table
  <2>1. Undef \notin Nodes(N)
    BY <1>1 DEF Nodes, Undef
  <2>2. <<p, c>> \in DOMAIN table => table[<<p, c>>] \in Nodes(N)
    BY <1>1
  <2> QED
    BY <2>1, <2>2 DEF Found, Linked
<1>6. DOMAIN table = RootKeys \cup EdgeKeys(N, up, lab)
  BY <1>1
<1>7. EdgeKeys(N + 1, up2, lab2) = EdgeKeys(N, up, lab) \cup {<<p, c>>}
  BY <1>2, <1>4 DEF EdgeKeys
<1>8. table' = [k \in DOMAIN table \cup {<<p, c>>} |-> IF k = <<p, c>> THEN N ELSE table[k]]
  BY <1>1 DEF Put, Size, Linked
<1>9. table' \in [RootKeys \cup EdgeKeys(N + 1, up2, lab2) -> Nodes(N + 1)]
  BY <1>1, <1>2, <1>6, <1>7, <1>8
<1>10. \A i \in 0 .. Roots - 1 : table'[<<0, i>>] = i
  <2>1. \A i \in 0 .. Roots - 1 : <<0, i>> \in DOMAIN table
    BY <1>6 DEF RootKeys
  <2> QED
    BY <1>1, <1>5, <1>8, <2>1
<1>11. \A k \in Inner(N + 1) : table'[<<up2[k], lab2[k]>>] = k
  <2>1. ASSUME NEW k \in Inner(N) PROVE table'[<<up2[k], lab2[k]>>] = k
    <3>1. <<up[k], lab[k]>> \in DOMAIN table
      BY <1>6 DEF EdgeKeys
    <3>2. table[<<up[k], lab[k]>>] = k
      BY <1>1
    <3> QED
      BY <1>4, <1>5, <1>8, <3>1, <3>2
  <2>2. table'[<<up2[N], lab2[N]>>] = N
    BY <1>4, <1>8
  <2> QED
    BY <1>2, <2>1, <2>2
<1>12. EdgesOK(N + 1, up2, lab2)
  <2>1. p < N
    BY <1>1 DEF Nodes
  <2>2. \A k \in Inner(N) : ~(up[k] = p /\ lab[k] = c)
    BY <1>5, <1>6 DEF EdgeKeys
  <2>3. \A k \in Inner(N + 1) : up2[k] < k /\ lab2[k] \in Sigma
    BY <1>1, <1>2, <1>4, <2>1 DEF EdgesOK
  <2>4. ASSUME NEW j \in Inner(N + 1), NEW k \in Inner(N + 1), up2[j] = up2[k], lab2[j] = lab2[k]
        PROVE  j = k
    BY <1>1, <1>2, <1>4, <2>2, <2>4 DEF EdgesOK
  <2> QED
    BY <1>4, <2>3, <2>4 DEF EdgesOK
<1>13. IsFiniteSet(DOMAIN table') /\ Cardinality(DOMAIN table') = N + 1
  BY <1>1, <1>5, <1>8, FS_AddElement
<1>14. HashShape(N + 1, up2, lab2)'
  <2>1. EdgesOK(N + 1, up2, lab2)'
    BY <1>12 DEF EdgesOK
  <2> QED
    BY <1>2, <1>9, <1>10, <1>11, <1>13, <2>1 DEF HashShape
<1> QED
  BY <1>3, <1>14

LEMMA RootTable ==
  ASSUME table = RootsIn(<<>>)
  PROVE  \E up, lab : HashShape(Roots, up, lab)
<1>1. Roots \in Nat \ {0} /\ Inner(Roots) = {} /\ Nodes(Roots) = 0 .. Roots - 1
  BY TriesAssumption DEF Inner, Nodes
<1>2. PICK up : up = [k \in Inner(Roots) |-> 0]
  OBVIOUS
<1>3. DOMAIN <<>> = {}
  OBVIOUS
<1>4. table = [k \in RootKeys |-> k[2]]
  BY <1>3 DEF RootsIn, RootKeys
<1>5. EdgeKeys(Roots, up, up) = {} /\ EdgesOK(Roots, up, up)
  BY <1>1, <1>2 DEF EdgeKeys, EdgesOK
<1>6. table \in [RootKeys \cup EdgeKeys(Roots, up, up) -> Nodes(Roots)]
      /\ \A i \in 0 .. Roots - 1 : table[<<0, i>>] = i
  BY <1>1, <1>4, <1>5 DEF RootKeys
<1>7. IsFiniteSet(RootKeys) /\ Cardinality(RootKeys) = Roots
  <2> DEFINE f == [i \in 0 .. Roots - 1 |-> <<0, i>>]
  <2>1. f \in Bijection(0 .. Roots - 1, RootKeys)
    BY DEF RootKeys, Bijection, Injection, Surjection, IsInjective
  <2>2. IsFiniteSet(0 .. Roots - 1) /\ Cardinality(0 .. Roots - 1) = Roots
    BY <1>1, FS_Interval
  <2>3. ExistsBijection(0 .. Roots - 1, RootKeys)
    BY <2>1 DEF ExistsBijection
  <2> QED
    BY <2>2, <2>3, FS_Bijection
<1> QED
  BY <1>1, <1>4, <1>5, <1>6, <1>7 DEF HashShape

-----------------------------------------------------------------------------
(***************************************************************************)
(* What both kinds of trie stand for.                                      *)
(***************************************************************************)
Stands(N, up, lab) ==
  /\ N \in Nat /\ N >= Roots /\ Size = N
  /\ EdgesOK(N, up, lab) /\ Finds(N, up, lab)

Entry(p, c) == [parent |-> p, c |-> c]
Dict(N, up, lab) == [i \in 1 .. N - Roots |-> Entry(up[Roots + i - 1], lab[Roots + i - 1])]

LEMMA LinkedStands ==
  ASSUME NEW N, NEW up, NEW W, Shape(N, up, W), kind \in {"binary", "sorted", "ternary"}
  PROVE  Stands(N, up, literal)
<1>1. N \in Nat /\ N >= Roots /\ LinksOK(N) /\ EdgesOK(N, up, literal)
  BY DEF Shape, LinksOK
<1>2. Ids = 0 .. N - 1
  BY <1>1 DEF LinksOK, Ids, Nodes
<1>3. Cardinality(0 .. N - 1) = IF 0 > N - 1 THEN 0 ELSE (N - 1) - 0 + 1
  BY <1>1, FS_Interval
<1>4. Size = N
  BY <1>1, <1>2, <1>3 DEF Size, Linked
<1> QED
  BY <1>1, <1>4, LinkedFinds DEF Stands

LEMMA HashStands ==
  ASSUME NEW N, NEW up, NEW lab, HashShape(N, up, lab), kind = "hash",
         RootsApart, kind \in Kinds
  PROVE  Stands(N, up, lab)
<1>1. N \in Nat /\ N >= Roots /\ EdgesOK(N, up, lab) /\ Size = N
  BY DEF HashShape, Size, Linked
<1> QED
  BY <1>1, HashFinds DEF Stands

\* Exactly one edge leads to a node.
LEMMA OneEdge ==
  ASSUME NEW N, NEW up, NEW lab, Stands(N, up, lab), NEW k \in Inner(N),
         NEW p \in Nodes(N), NEW c \in Sigma
  PROVE  Found(p, c) = k <=> p = up[k] /\ c = lab[k]
<1>1. N \in Nat /\ EdgesOK(N, up, lab) /\ Finds(N, up, lab) /\ Roots \in Nat
  BY TriesAssumption DEF Stands
<1>2. ASSUME p = up[k], c = lab[k] PROVE Found(p, c) = k
  <2>1. IsChild(N, up, lab, p, c, k)
    BY <1>2 DEF IsChild
  <2> QED
    BY <1>1, <2>1 DEF Finds
<1>3. ASSUME Found(p, c) = k PROVE p = up[k] /\ c = lab[k]
  <2>1. k # Undef
    BY <1>1 DEF Inner, Undef
  <2>2. PICK j : IsChild(N, up, lab, p, c, j)
    BY <1>1, <1>3, <2>1 DEF Finds
  <2>3. j = k
    BY <1>1, <1>3, <2>2 DEF Finds
  <2> QED
    BY <2>2, <2>3 DEF IsChild
<1> QED
  BY <1>2, <1>3

LEMMA StandsFor ==
  ASSUME NEW N, NEW up, NEW lab, Stands(N, up, lab)
  PROVE  Dictionary = Dict(N, up, lab)
<1> DEFINE Edges == {[parent |-> p, c |-> x, id |-> Found(p, x)] : p \in 0 .. Size - 1, x \in Sigma}
           To(id) == {e \in Edges : e.id = id}
           EdgeTo(id) == CHOOSE e \in To(id) : TRUE
           Node(i) == IF To(Roots + i - 1) = {} THEN [parent |-> Undef, c |-> Undef]
                      ELSE [parent |-> EdgeTo(Roots + i - 1).parent, c |-> EdgeTo(Roots + i - 1).c]
<1>1. N \in Nat /\ N >= Roots /\ Size = N /\ EdgesOK(N, up, lab) /\ Roots \in Nat \ {0}
  BY TriesAssumption DEF Stands
<1>2. Dictionary = [i \in 1 .. Size - Roots |-> Node(i)]
  BY DEF Dictionary
<1>3. ASSUME NEW i \in 1 .. N - Roots
      PROVE  Node(i) = Entry(up[Roots + i - 1], lab[Roots + i - 1])
  <2> DEFINE k == Roots + i - 1
  <2>1. k \in Inner(N)
    BY <1>1 DEF Inner
  <2> HIDE DEF k
  <2>2. up[k] \in Nodes(N) /\ lab[k] \in Sigma
    BY <1>1, <2>1 DEF EdgesOK
  <2>3. [parent |-> up[k], c |-> lab[k], id |-> k] \in To(k)
    <3>1. Found(up[k], lab[k]) = k
      BY <2>1, <2>2, OneEdge
    <3>2. up[k] \in 0 .. Size - 1
      BY <1>1, <2>2 DEF Nodes
    <3> QED
      BY <2>2, <3>1, <3>2
  <2>4. ASSUME NEW e \in To(k) PROVE e.parent = up[k] /\ e.c = lab[k]
    <3>1. PICK p \in 0 .. Size - 1, x \in Sigma : e = [parent |-> p, c |-> x, id |-> Found(p, x)]
      BY <2>4
    <3>2. Found(p, x) = k /\ p \in Nodes(N)
      BY <1>1, <2>4, <3>1 DEF Nodes
    <3>3. p = up[k] /\ x = lab[k]
      BY <2>1, <3>2, OneEdge
    <3> QED
      BY <3>1, <3>3
  <2>5. EdgeTo(k) \in To(k) /\ To(k) # {}
    <3>1. \E e : e \in To(k)
      <4> HIDE DEF To
      <4> QED
        BY <2>3
    <3> HIDE DEF To
    <3> QED
      BY <3>1
  <2>6. Node(i) = [parent |-> EdgeTo(k).parent, c |-> EdgeTo(k).c]
    BY <2>5 DEF k
  <2> HIDE DEF EdgeTo, To, Node
  <2>7. Node(i) = Entry(up[k], lab[k])
    BY <2>4, <2>5, <2>6 DEF Entry
  <2> QED
    BY <2>7 DEF k
<1> HIDE DEF Node
<1> QED
  BY <1>1, <1>2, <1>3 DEF Dict

LEMMA ReachedOnce ==
  ASSUME NEW N, NEW up, NEW lab, Stands(N, up, lab)
  PROVE  \A id \in Roots .. Size - 1 :
           Cardinality({e \in [parent : 0 .. Size - 1, c : Sigma] : Found(e.parent, e.c) = id}) = 1
<1>1. Size = N /\ EdgesOK(N, up, lab)
  BY DEF Stands
<1>2. ASSUME NEW id \in Inner(N)
      PROVE  Cardinality({e \in [parent : Nodes(N), c : Sigma] : Found(e.parent, e.c) = id}) = 1
  <2>1. up[id] \in Nodes(N) /\ lab[id] \in Sigma
    BY <1>1 DEF EdgesOK
  <2>2. \A e \in [parent : Nodes(N), c : Sigma] :
          Found(e.parent, e.c) = id <=> e.parent = up[id] /\ e.c = lab[id]
    BY OneEdge
  <2>3. {e \in [parent : Nodes(N), c : Sigma] : Found(e.parent, e.c) = id} = {Entry(up[id], lab[id])}
    BY <2>1, <2>2 DEF Entry
  <2> QED
    BY <2>3, FS_Singleton
<1> QED
  BY <1>1, <1>2 DEF Nodes, Inner

\* The dictionary's own operators, on what the tries stand for.
OpsMean(N, up, lab) ==
  /\ Len(Dict(N, up, lab)) = N - Roots
  /\ Dict(N, up, lab) \in Seq([parent : Nodes(N), c : Sigma])
  /\ D!Size(Dict(N, up, lab), Roots) = N
  /\ \A p, c : D!HasChild(Dict(N, up, lab), p, c) <=> \E k : IsChild(N, up, lab, p, c, k)
  /\ \A p, c, k : IsChild(N, up, lab, p, c, k) => D!Child(Dict(N, up, lab), Roots, p, c) = k

LEMMA DictOps ==
  ASSUME NEW N, NEW up, NEW lab, N \in Nat, N >= Roots, EdgesOK(N, up, lab)
  PROVE  OpsMean(N, up, lab)
<1> DEFINE d == Dict(N, up, lab)
<1>1. Roots \in Nat \ {0} /\ N - Roots \in Nat
  BY TriesAssumption
<1>2. d = [i \in 1 .. N - Roots |-> Entry(up[Roots + i - 1], lab[Roots + i - 1])]
  BY DEF Dict
<1>3. \A i \in 1 .. N - Roots : Roots + i - 1 \in Inner(N)
  BY <1>1 DEF Inner
<1>4. \A k \in Inner(N) : up[k] \in Nodes(N) /\ lab[k] \in Sigma
  BY DEF EdgesOK
<1>5. d \in Seq([parent : Nodes(N), c : Sigma]) /\ Len(d) = N - Roots
  <2>1. \A i \in 1 .. N - Roots :
          Entry(up[Roots + i - 1], lab[Roots + i - 1]) \in [parent : Nodes(N), c : Sigma]
    BY <1>3, <1>4 DEF Entry
  <2>2. d \in [1 .. N - Roots -> [parent : Nodes(N), c : Sigma]]
    BY <1>2, <2>1
  <2> DEFINE m == N - Roots
             S == [parent : Nodes(N), c : Sigma]
  <2> HIDE DEF d, m, S
  <2>3. d \in [1 .. m -> S] /\ m \in Nat
    BY <1>1, <2>2 DEF m, S
  <2>4. d \in Seq(S)
    BY <2>3, SeqDef
  <2>5. DOMAIN d = 1 .. m /\ DOMAIN d = 1 .. Len(d) /\ Len(d) \in Nat
    BY <2>3, <2>4
  <2>6. Len(d) = m
    BY <2>3, <2>5
  <2> QED
    BY <2>4, <2>6 DEF m, S
<1>6. D!Size(d, Roots) = N
  BY <1>1, <1>5 DEF D!Size
<1>7. \A i \in 1 .. N - Roots : d[i].parent = up[Roots + i - 1] /\ d[i].c = lab[Roots + i - 1]
  BY <1>2 DEF Entry
<1> HIDE DEF d
<1>8. \A p, c : D!HasChild(d, p, c) <=> \E i \in 1 .. N - Roots : IsChild(N, up, lab, p, c, Roots + i - 1)
  BY <1>3, <1>5, <1>7 DEF D!HasChild, IsChild
<1>9. \A p, c, k : IsChild(N, up, lab, p, c, k) => k - Roots + 1 \in 1 .. N - Roots /\ Roots + (k - Roots + 1) - 1 = k
  BY <1>1 DEF IsChild, Inner
<1>10. ASSUME NEW p, NEW c PROVE D!HasChild(d, p, c) <=> \E k : IsChild(N, up, lab, p, c, k)
  <2>1. ASSUME NEW k, IsChild(N, up, lab, p, c, k) PROVE D!HasChild(d, p, c)
    BY <1>8, <1>9, <2>1
  <2> QED
    BY <1>8, <2>1
<1>11. ASSUME NEW p, NEW c, NEW k, IsChild(N, up, lab, p, c, k) PROVE D!Child(d, Roots, p, c) = k
  <2> DEFINE Is(i) == i \in 1 .. Len(d) /\ d[i].parent = p /\ d[i].c = c
             i0 == k - Roots + 1
             ch == CHOOSE i \in 1 .. Len(d) : d[i].parent = p /\ d[i].c = c
  <2>1. i0 \in 1 .. N - Roots /\ Roots + i0 - 1 = k /\ k \in Int
    BY <1>1, <1>9, <1>11 DEF IsChild, Inner
  <2>2. Is(i0)
    <3> HIDE DEF i0
    <3> QED
      BY <1>5, <1>7, <1>11, <2>1 DEF IsChild
  <2>3. ASSUME NEW i, Is(i) PROVE Roots + i - 1 = k
    <3>1. i \in 1 .. N - Roots /\ Roots + i - 1 \in Inner(N)
      BY <1>3, <1>5, <2>3
    <3>2. IsChild(N, up, lab, p, c, Roots + i - 1)
      BY <1>7, <2>3, <3>1 DEF IsChild
    <3> QED
      BY <1>11, <3>2 DEF IsChild, EdgesOK
  <2>4. Is(ch)
    BY <2>2
  <2>5. D!Child(d, Roots, p, c) = Roots - 1 + ch
    BY DEF D!Child
  <2>6. Roots + ch - 1 = k
    <3> HIDE DEF Is, ch
    <3> QED
      BY <2>3, <2>4
  <2>7. ch \in Int
    BY <1>5, <2>4
  <2> HIDE DEF ch
  <2> QED
    BY <1>1, <2>5, <2>6, <2>7
<1> QED
  BY <1>5, <1>6, <1>10, <1>11 DEF d, OpsMean

LEMMA DictGrows ==
  ASSUME NEW N, NEW up, NEW lab, N \in Nat, N >= Roots, EdgesOK(N, up, lab),
         NEW p \in Nodes(N), NEW c \in Sigma,
         NEW lab2, lab2[N] = c, \A k \in Inner(N) : lab2[k] = lab[k]
  PROVE  Dict(N + 1, UpWith(N, up, p), lab2) = D!Insert(Dict(N, up, lab), p, c)
<1> DEFINE up2 == UpWith(N, up, p)
           d == Dict(N, up, lab)
           m == N - Roots
<1>1. Roots \in Nat \ {0} /\ m \in Nat /\ (N + 1) - Roots = m + 1 /\ Roots + (m + 1) - 1 = N
  BY TriesAssumption
<1>2. up2[N] = p /\ \A k \in Inner(N) : up2[k] = up[k]
  BY <1>1 DEF UpWith, Inner
<1>3. Dict(N + 1, up2, lab2) = [i \in 1 .. m + 1 |-> Entry(up2[Roots + i - 1], lab2[Roots + i - 1])]
  BY <1>1 DEF Dict
<1>4. d = [i \in 1 .. m |-> Entry(up[Roots + i - 1], lab[Roots + i - 1])]
  BY DEF Dict
<1>5. Len(d) = m /\ d \in Seq([parent : Nodes(N), c : Sigma])
  BY DictOps DEF OpsMean
<1>6. D!Insert(d, p, c) = Append(d, Entry(p, c))
  BY DEF D!Insert, Entry
<1>7. Append(d, Entry(p, c)) = [i \in 1 .. m + 1 |-> IF i = m + 1 THEN Entry(p, c) ELSE d[i]]
  <2> DEFINE S == [parent : Nodes(N), c : Sigma]
             a == Append(d, Entry(p, c))
  <2>1. Entry(p, c) \in S
    BY DEF Entry
  <2> HIDE DEF d, m, S
  <2>2. /\ a \in Seq(S) /\ Len(a) = m + 1 /\ a[m + 1] = Entry(p, c)
        /\ \A i \in 1 .. m : a[i] = d[i]
    BY <1>5, <2>1, AppendProperties DEF S
  <2>3. DOMAIN a = 1 .. m + 1 /\ a = [i \in DOMAIN a |-> a[i]]
    <3> HIDE DEF a
    <3>1. DOMAIN a = 1 .. Len(a) /\ a \in [1 .. Len(a) -> S]
      BY <2>2
    <3> QED
      BY <2>2, <3>1
  <2>4. \A i \in 1 .. m + 1 : i # m + 1 => i \in 1 .. m
    BY <1>1
  <2> HIDE DEF a
  <2> QED
    BY <2>2, <2>3, <2>4 DEF a
<1>8. ASSUME NEW i \in 1 .. m + 1
      PROVE  Entry(up2[Roots + i - 1], lab2[Roots + i - 1]) = IF i = m + 1 THEN Entry(p, c) ELSE d[i]
  <2>1. CASE i = m + 1
    BY <1>1, <1>2, <2>1
  <2>2. CASE i # m + 1
    <3>1. i \in 1 .. m /\ Roots + i - 1 \in Inner(N)
      BY <1>1, <2>2 DEF Inner
    <3>2. up2[Roots + i - 1] = up[Roots + i - 1] /\ lab2[Roots + i - 1] = lab[Roots + i - 1]
      BY <1>2, <3>1
    <3> HIDE DEF up2, d, m
    <3> QED
      BY <1>1, <1>4, <2>2, <3>1, <3>2
  <2> QED
    BY <2>1, <2>2
<1> HIDE DEF up2, d, m
<1>9. Dict(N + 1, up2, lab2) = D!Insert(d, p, c)
  BY <1>3, <1>6, <1>7, <1>8
<1> QED
  BY <1>9 DEF up2, d

-----------------------------------------------------------------------------
(***************************************************************************)
(* The invariant, and what it says about each step.                        *)
(***************************************************************************)
TrieInv ==
  /\ kind \in Kinds
  /\ answer \in [id : Nat, new : BOOLEAN]
  /\ Linked => table = <<>> /\ \E N, up, W : Shape(N, up, W)
  /\ ~Linked => \E N, up, lab : HashShape(N, up, lab)

\* The lemmas above as state predicates: they hold after a step as before it.
ShapeStands == Linked /\ kind \in Kinds => \A N, up, W : Shape(N, up, W) => Stands(N, up, literal)
TableStands == ~Linked /\ kind \in Kinds => \A N, up, lab : HashShape(N, up, lab) => Stands(N, up, lab)
StandsForDict == \A N, up, lab : Stands(N, up, lab) => Dictionary = Dict(N, up, lab)
RootsStand ==
  Linked /\ kind \in Kinds /\ link = LinkedRoots.link /\ literal = LinkedRoots.literal =>
    \E up, W : Shape(Roots, up, W)

LEMMA KindIs ==
  ASSUME kind \in Kinds
  PROVE  /\ Linked <=> kind \in {"binary", "sorted", "ternary"}
         /\ ~Linked <=> kind = "hash"
BY TriesAssumption DEF Linked

LEMMA Lifted ==
  ASSUME RootsApart
  PROVE  ShapeStands /\ TableStands /\ StandsForDict /\ RootsStand
<1>1. ShapeStands
  BY KindIs, LinkedStands DEF ShapeStands
<1>2. TableStands
  BY KindIs, HashStands DEF TableStands
<1>3. StandsForDict
  BY StandsFor DEF StandsForDict
<1>4. RootsStand
  BY KindIs, RootsHaveShape DEF RootsStand
<1> QED
  BY <1>1, <1>2, <1>3, <1>4

LEMMA LiftedNext ==
  ASSUME RootsApart
  PROVE  (ShapeStands /\ TableStands /\ StandsForDict /\ RootsStand)'
BY Lifted, PTL

LEMMA InitInv ==
  ASSUME RootsApart, Init
  PROVE  TrieInv /\ D!Init
<1>1. Roots \in Nat \ {0} /\ kind \in Kinds /\ answer = [id |-> Roots - 1, new |-> TRUE]
  BY TriesAssumption DEF Init
<1>2. answer \in [id : Nat, new : BOOLEAN]
  BY <1>1
<1>3. ShapeStands /\ TableStands /\ StandsForDict /\ RootsStand
  BY Lifted
<1>4. \E up, lab : Stands(Roots, up, lab) /\ TrieInv
  <2>1. CASE Linked
    <3>1. link = LinkedRoots.link /\ literal = LinkedRoots.literal /\ table = <<>>
      BY <2>1 DEF Init
    <3>2. PICK up, W : Shape(Roots, up, W)
      BY <1>1, <1>3, <2>1, <3>1 DEF RootsStand
    <3>3. Stands(Roots, up, literal)
      BY <1>1, <1>3, <2>1, <3>2 DEF ShapeStands
    <3> QED
      BY <1>1, <1>2, <2>1, <3>1, <3>2, <3>3 DEF TrieInv
  <2>2. CASE ~Linked
    <3>1. table = RootsIn(<<>>)
      BY <2>2 DEF Init
    <3>2. PICK up, lab : HashShape(Roots, up, lab)
      BY <3>1, RootTable
    <3>3. Stands(Roots, up, lab)
      BY <1>1, <1>3, <2>2, <3>2 DEF TableStands
    <3> QED
      BY <1>1, <1>2, <2>2, <3>2, <3>3 DEF TrieInv
  <2> QED
    BY <2>1, <2>2
<1>5. \A up, lab : Dict(Roots, up, lab) = <<>>
  <2>1. 1 .. Roots - Roots = {}
    BY <1>1
  <2> QED
    BY <2>1 DEF Dict
<1>6. Dictionary = <<>>
  BY <1>3, <1>4, <1>5 DEF StandsForDict
<1> QED
  BY <1>1, <1>4, <1>6 DEF D!Init

\* What the two searches and the two insertions do to the dictionary.
LEMMA FindIsFind ==
  ASSUME RootsApart, NEW N, NEW up, NEW lab, Stands(N, up, lab),
         NEW p \in 0 .. Size - 1, NEW c \in Sigma, Find(p, c), Dictionary' = Dictionary
  PROVE  /\ D!FindOrInsert(p, c) /\ p \in 0 .. D!Size(Dictionary, Roots) - 1
         /\ answer' \in [id : Nat, new : BOOLEAN]
<1>1. N \in Nat /\ N >= Roots /\ Size = N /\ EdgesOK(N, up, lab) /\ Finds(N, up, lab) /\ Roots \in Nat
  BY TriesAssumption DEF Stands
<1>2. Found(p, c) # Undef /\ answer' = [id |-> Found(p, c), new |-> FALSE]
  BY DEF Find
<1>3. p \in Nodes(N)
  BY <1>1 DEF Nodes
<1>4. PICK k : IsChild(N, up, lab, p, c, k)
  BY <1>1, <1>2, <1>3 DEF Finds
<1>5. Found(p, c) = k
  BY <1>1, <1>3, <1>4 DEF Finds
<1>6. Dictionary = Dict(N, up, lab)
  BY StandsFor
<1>7. /\ D!HasChild(Dictionary, p, c) /\ D!Child(Dictionary, Roots, p, c) = k
      /\ D!Size(Dictionary, Roots) = N
  <2>1. OpsMean(N, up, lab)
    BY <1>1, DictOps
  <2> QED
    BY <1>4, <1>6, <2>1 DEF OpsMean
<1>9. k \in Nat
  BY <1>1, <1>4 DEF IsChild, Inner
<1> QED
  BY <1>1, <1>2, <1>5, <1>7, <1>9 DEF D!FindOrInsert

LEMMA InsertIsInsert ==
  ASSUME RootsApart, NEW N, NEW up, NEW lab, Stands(N, up, lab),
         NEW p \in 0 .. Size - 1, NEW c \in Sigma, Found(p, c) = Undef, Size < MaxSize,
         answer' = [id |-> Size, new |-> TRUE],
         NEW lab2, lab2[N] = c, \A k \in Inner(N) : lab2[k] = lab[k],
         Dictionary' = Dict(N + 1, UpWith(N, up, p), lab2)
  PROVE  /\ D!FindOrInsert(p, c) /\ p \in 0 .. D!Size(Dictionary, Roots) - 1
         /\ answer' \in [id : Nat, new : BOOLEAN]
<1>1. N \in Nat /\ N >= Roots /\ Size = N /\ EdgesOK(N, up, lab) /\ Finds(N, up, lab) /\ Roots \in Nat
  BY TriesAssumption DEF Stands
<1>2. p \in Nodes(N)
  BY <1>1 DEF Nodes
<1>3. ~\E k : IsChild(N, up, lab, p, c, k)
  <2>1. ASSUME NEW k, IsChild(N, up, lab, p, c, k) PROVE FALSE
    <3>1. Undef = k
      BY <1>1, <1>2, <2>1 DEF Finds
    <3> QED
      BY <1>1, <2>1, <3>1 DEF IsChild, Inner, Undef
  <2> QED
    BY <2>1
<1>4. Dictionary = Dict(N, up, lab)
  BY StandsFor
<1>5. ~D!HasChild(Dictionary, p, c) /\ D!Size(Dictionary, Roots) = N
  <2>1. OpsMean(N, up, lab)
    BY <1>1, DictOps
  <2> QED
    BY <1>3, <1>4, <2>1 DEF OpsMean
<1>6. Dictionary' = D!Insert(Dictionary, p, c)
  BY <1>1, <1>2, <1>4, DictGrows
<1> QED
  BY <1>1, <1>5, <1>6 DEF D!FindOrInsert

\* Nothing but the answer changes.
LEMMA SameShape ==
  ASSUME NEW N, NEW up, NEW W, Shape(N, up, W), kind' = kind, link' = link, literal' = literal
  PROVE  Shape(N, up, W)'
<1>1. LinksOK(N) /\ EdgesOK(N, up, literal) /\ LettersOK(N, W) /\ OneEnd(N, up, W)
      /\ \A t \in Slots(N) : SlotOK(N, up, W, t)
  BY DEF Shape
<1>2. \A t : At(t)' = At(t)
  BY DEF At
<1>3. \A t, c : Ends(t, c)' <=> Ends(t, c)
  BY <1>2 DEF Ends, SortedEnds, ListEnds
<1>4. \A S, x : Front(S, x)' = Front(S, x) /\ Rear(S, x)' = Rear(S, x)
  BY DEF Front, Rear
<1>5. \A t : Kids(N, up, W, t)' = Kids(N, up, W, t)
  BY DEF Kids
<1>6. LinksOK(N)'
  BY <1>1 DEF LinksOK
<1>7. EdgesOK(N, up, literal)'
  BY <1>1 DEF EdgesOK
<1>8. LettersOK(N, W)'
  BY <1>1 DEF LettersOK, Front, Rear
<1>9. OneEnd(N, up, W)'
  BY <1>1, <1>3 DEF OneEnd
<1>10. ASSUME NEW t \in Slots(N) PROVE SlotOK(N, up, W, t)'
  BY <1>1, <1>2, <1>5 DEF SlotOK, Front, Rear
<1> QED
  BY <1>6, <1>7, <1>8, <1>9, <1>10 DEF Shape

LEMMA SameTable ==
  ASSUME NEW N, NEW up, NEW lab, HashShape(N, up, lab), table' = table
  PROVE  HashShape(N, up, lab)'
BY DEF HashShape, EdgesOK

LEMMA StepLinked ==
  ASSUME RootsApart, TrieInv, Linked, Next
  PROVE  TrieInv' /\ D!Next
<1>1. PICK N, up, W : Shape(N, up, W)
  BY DEF TrieInv
<1>2. kind \in Kinds /\ table = <<>> /\ kind \in {"binary", "sorted", "ternary"}
  BY KindIs DEF TrieInv
<1>3. Stands(N, up, literal)
  BY <1>1, <1>2, Lifted DEF ShapeStands
<1>4. N \in Nat /\ Size = N /\ N >= Roots /\ Roots \in Nat \ {0} /\ Nodes(N) = 0 .. Size - 1
  BY <1>3, TriesAssumption DEF Stands, Nodes
<1>5. (ShapeStands /\ StandsForDict /\ RootsStand)'
  BY LiftedNext
<1>6. ASSUME kind' = kind, NEW M, NEW up2, NEW W2, Shape(M, up2, W2)'
      PROVE  Dictionary' = Dict(M, up2, literal')
  <2>1. Stands(M, up2, literal)'
    BY <1>2, <1>5, <1>6 DEF ShapeStands, Linked
  <2> QED
    BY <1>5, <2>1 DEF StandsForDict
<1>7. ASSUME kind' = kind, table' = table, answer' \in [id : Nat, new : BOOLEAN],
             NEW M, NEW up2, NEW W2, Shape(M, up2, W2)'
      PROVE  TrieInv'
  <2>1. (\E n, u, w : Shape(n, u, w))'
    BY <1>7
  <2> QED
    BY <1>2, <1>7, <2>1 DEF TrieInv, Linked
<1>8. ASSUME NEW p \in 0 .. Size - 1, NEW c \in Sigma, Find(p, c)
      PROVE  TrieInv' /\ D!Next
  <2>1. kind' = kind /\ link' = link /\ literal' = literal /\ table' = table
    BY <1>8 DEF Find
  <2>2. Shape(N, up, W)'
    BY <1>1, <2>1, SameShape
  <2>3. Dictionary' = Dictionary
    <3>1. Dictionary = Dict(N, up, literal)
      BY <1>3, StandsFor
    <3> QED
      BY <1>6, <2>1, <2>2, <3>1
  <2>4. /\ D!FindOrInsert(p, c) /\ p \in 0 .. D!Size(Dictionary, Roots) - 1
        /\ answer' \in [id : Nat, new : BOOLEAN]
    BY <1>3, <1>8, <2>3, FindIsFind
  <2> QED
    BY <1>7, <2>1, <2>2, <2>4 DEF D!Next
<1>9. ASSUME NEW p \in 0 .. Size - 1, NEW c \in Sigma, InsertLinked(p, c)
      PROVE  TrieInv' /\ D!Next
  <2>1. /\ kind' = kind /\ table' = table /\ Found(p, c) = Undef /\ Grow(p, c)
        /\ Size < MaxSize /\ answer' = [id |-> Size, new |-> TRUE] /\ p \in Nodes(N)
    BY <1>4, <1>9 DEF InsertLinked
  <2>2. PICK up2 : up2 = UpWith(N, up, p)
    OBVIOUS
  <2>3. PICK W2 : Shape(N + 1, up2, W2)'
    BY <1>1, <1>2, <2>1, <2>2, GrowKeepsShape
  <2>4. Dictionary' = Dict(N + 1, up2, literal')
    BY <1>6, <2>1, <2>3
  <2>5. literal'[N] = c /\ \A k \in Inner(N) : literal'[k] = literal[k]
    <3>1. Cardinality(Ids) = N
      BY <1>4 DEF Size
    <3>2. literal' = [id \in 0 .. N |-> IF id = N THEN c ELSE literal[id]]
      BY <2>1, <3>1, Zenon DEF Grow
    <3>3. N \in 0 .. N /\ \A k \in Inner(N) : k \in 0 .. N /\ k # N
      BY <1>4 DEF Inner
    <3> QED
      BY <3>2, <3>3
  <2>6. PICK lab2 : lab2 = literal'
    OBVIOUS
  <2>7. /\ D!FindOrInsert(p, c) /\ p \in 0 .. D!Size(Dictionary, Roots) - 1
        /\ answer' \in [id : Nat, new : BOOLEAN]
    BY <1>3, <2>1, <2>2, <2>4, <2>5, <2>6, InsertIsInsert
  <2> QED
    BY <1>7, <2>1, <2>3, <2>7 DEF D!Next
<1>10. ASSUME ResetLinked PROVE TrieInv' /\ D!Next
  <2>1. /\ link' = LinkedRoots.link /\ literal' = LinkedRoots.literal
        /\ answer' = [id |-> Roots - 1, new |-> TRUE] /\ kind' = kind /\ table' = table
    BY <1>10 DEF ResetLinked
  <2>2. \E u, w : Shape(Roots, u, w)'
    BY <1>2, <1>5, <2>1 DEF RootsStand, LinkedRoots, Linked
  <2>3. PICK up2, W2 : Shape(Roots, up2, W2)'
    BY <2>2
  <2>4. Dictionary' = <<>>
    <3>1. 1 .. Roots - Roots = {}
      BY <1>4
    <3>2. Dict(Roots, up2, literal') = <<>>
      BY <3>1 DEF Dict
    <3> QED
      BY <1>6, <2>1, <2>3, <3>2
  <2>5. answer' \in [id : Nat, new : BOOLEAN]
    BY <1>4, <2>1
  <2> QED
    BY <1>7, <2>1, <2>3, <2>4, <2>5 DEF D!Next, D!Reset
<1> QED
  BY <1>8, <1>9, <1>10 DEF Next, InsertHashed, ResetHashed

LEMMA StepHashed ==
  ASSUME RootsApart, TrieInv, ~Linked, Next
  PROVE  TrieInv' /\ (D!Next \/ ResetHashed)
<1>1. PICK N, up, lab : HashShape(N, up, lab)
  BY DEF TrieInv
<1>2. kind \in Kinds /\ kind = "hash"
  BY KindIs DEF TrieInv
<1>3. Stands(N, up, lab)
  BY <1>1, <1>2, Lifted DEF TableStands
<1>4. N \in Nat /\ Size = N /\ N >= Roots /\ Roots \in Nat \ {0} /\ Nodes(N) = 0 .. Size - 1
  BY <1>3, TriesAssumption DEF Stands, Nodes
<1>5. (TableStands /\ StandsForDict)'
  BY LiftedNext
<1>6. ASSUME kind' = kind, NEW M, NEW up2, NEW lab2, HashShape(M, up2, lab2)'
      PROVE  Dictionary' = Dict(M, up2, lab2)
  <2>1. Stands(M, up2, lab2)'
    BY <1>2, <1>5, <1>6 DEF TableStands, Linked
  <2> QED
    BY <1>5, <2>1 DEF StandsForDict
<1>7. ASSUME kind' = kind, answer' \in [id : Nat, new : BOOLEAN],
             NEW M, NEW up2, NEW lab2, HashShape(M, up2, lab2)'
      PROVE  TrieInv'
  <2>1. (\E n, u, l : HashShape(n, u, l))'
    BY <1>7
  <2> QED
    BY <1>2, <1>7, <2>1 DEF TrieInv, Linked
<1>8. ASSUME NEW p \in 0 .. Size - 1, NEW c \in Sigma, Find(p, c)
      PROVE  TrieInv' /\ D!Next
  <2>1. kind' = kind /\ table' = table
    BY <1>8 DEF Find
  <2>2. HashShape(N, up, lab)'
    BY <1>1, <2>1, SameTable
  <2>3. Dictionary' = Dictionary
    <3>1. Dictionary = Dict(N, up, lab)
      BY <1>3, StandsFor
    <3> QED
      BY <1>6, <2>1, <2>2, <3>1
  <2>4. /\ D!FindOrInsert(p, c) /\ p \in 0 .. D!Size(Dictionary, Roots) - 1
        /\ answer' \in [id : Nat, new : BOOLEAN]
    BY <1>3, <1>8, <2>3, FindIsFind
  <2> QED
    BY <1>7, <2>1, <2>2, <2>4 DEF D!Next
<1>9. ASSUME NEW p \in 0 .. Size - 1, NEW c \in Sigma, InsertHashed(p, c)
      PROVE  TrieInv' /\ D!Next
  <2>1. /\ kind' = kind /\ Found(p, c) = Undef /\ Put(<<p, c>>)
        /\ Size < MaxSize /\ answer' = [id |-> Size, new |-> TRUE] /\ p \in Nodes(N)
    BY <1>4, <1>9 DEF InsertHashed
  <2>2. PICK up2, lab2 : up2 = UpWith(N, up, p) /\ lab2 = LabWith(N, lab, c)
    OBVIOUS
  <2>3. HashShape(N + 1, up2, lab2)'
    BY <1>1, <1>2, <2>1, <2>2, PutKeepsShape
  <2>4. Dictionary' = Dict(N + 1, up2, lab2)
    BY <1>6, <2>1, <2>3
  <2>5. lab2[N] = c /\ \A k \in Inner(N) : lab2[k] = lab[k]
    BY <1>4, <2>2 DEF LabWith, Inner
  <2>6. /\ D!FindOrInsert(p, c) /\ p \in 0 .. D!Size(Dictionary, Roots) - 1
        /\ answer' \in [id : Nat, new : BOOLEAN]
    BY <1>3, <2>1, <2>2, <2>4, <2>5, InsertIsInsert
  <2> QED
    BY <1>7, <2>1, <2>3, <2>6 DEF D!Next
<1>10. ASSUME ResetHashed PROVE TrieInv'
  <2>1. /\ DOMAIN table = RootKeys \cup EdgeKeys(N, up, lab)
        /\ table = [k \in DOMAIN table |-> table[k]] /\ Cardinality(DOMAIN table) = N
    BY <1>1 DEF HashShape
  <2>2. RootsIn(table) = table
    <3>1. DOMAIN table \cup {<<0, i>> : i \in 0 .. Roots - 1} = DOMAIN table
      BY <2>1 DEF RootKeys
    <3> QED
      BY <2>1, <3>1 DEF RootsIn
  <2>3. kind' = kind /\ table' = table /\ answer' = [id |-> N - 1, new |-> TRUE]
    BY <1>10, <2>1, <2>2 DEF ResetHashed
  <2>4. answer' \in [id : Nat, new : BOOLEAN]
    BY <1>4, <2>3
  <2>5. HashShape(N, up, lab)'
    BY <1>1, <2>3, SameTable
  <2> QED
    BY <1>7, <2>3, <2>4, <2>5
<1> QED
  BY <1>8, <1>9, <1>10 DEF Next, InsertLinked, ResetLinked

LEMMA Stutters ==
  ASSUME RootsApart, TrieInv, UNCHANGED vars
  PROVE  TrieInv' /\ UNCHANGED <<Dictionary, answer>>
<1>1. /\ kind' = kind /\ link' = link /\ literal' = literal /\ table' = table /\ answer' = answer
      /\ kind \in Kinds /\ answer' \in [id : Nat, new : BOOLEAN]
  BY DEF vars, TrieInv
<1>2. ShapeStands /\ TableStands /\ StandsForDict /\ (ShapeStands /\ TableStands /\ StandsForDict)'
  BY Lifted, LiftedNext
<1>3. CASE Linked
  <2>1. PICK N, up, W : Shape(N, up, W)
    BY <1>3 DEF TrieInv
  <2>2. Shape(N, up, W)'
    BY <1>1, <2>1, SameShape
  <2>3. Stands(N, up, literal) /\ Stands(N, up, literal)'
    BY <1>1, <1>2, <1>3, <2>1, <2>2 DEF ShapeStands, Linked
  <2>4. Dictionary' = Dictionary
    BY <1>1, <1>2, <2>3 DEF StandsForDict
  <2>5. (\E n, u, w : Shape(n, u, w))'
    BY <2>2
  <2> QED
    BY <1>1, <1>3, <2>4, <2>5 DEF TrieInv, Linked
<1>4. CASE ~Linked
  <2>1. PICK N, up, lab : HashShape(N, up, lab)
    BY <1>4 DEF TrieInv
  <2>2. HashShape(N, up, lab)'
    BY <1>1, <2>1, SameTable
  <2>3. Stands(N, up, lab) /\ Stands(N, up, lab)'
    BY <1>1, <1>2, <1>4, <2>1, <2>2 DEF TableStands, Linked
  <2>4. Dictionary' = Dictionary
    BY <1>1, <1>2, <2>3 DEF StandsForDict
  <2>5. (\E n, u, l : HashShape(n, u, l))'
    BY <2>2
  <2> QED
    BY <1>1, <1>4, <2>4, <2>5 DEF TrieInv, Linked
<1> QED
  BY <1>3, <1>4

LEMMA InvNext ==
  ASSUME RootsApart, TrieInv, [Next]_vars
  PROVE  TrieInv' /\ [D!Next \/ ResetHashed]_<<Dictionary, answer>>
<1>1. CASE Next /\ Linked
  BY <1>1, StepLinked
<1>2. CASE Next /\ ~Linked
  BY <1>2, StepHashed
<1>3. CASE UNCHANGED vars
  BY <1>3, Stutters
<1> QED
  BY <1>1, <1>2, <1>3

-----------------------------------------------------------------------------
LEMMA InvSays ==
  ASSUME RootsApart, TrieInv
  PROVE  NodesReachableOnce
<1>1. kind \in Kinds /\ answer \in [id : Nat, new : BOOLEAN]
  BY DEF TrieInv
<1>2. CASE Linked
  <2>1. PICK N, up, W : Shape(N, up, W)
    BY <1>2 DEF TrieInv
  <2>2. kind \in {"binary", "sorted", "ternary"} /\ table = <<>>
    BY <1>1, <1>2, KindIs DEF TrieInv
  <2>3. Stands(N, up, literal)
    BY <2>1, <2>2, LinkedStands
  <2>4. N \in Nat /\ Size = N /\ LinksOK(N) /\ Roots \in Nat
    BY <2>1, <2>3, TriesAssumption DEF Stands, Shape
  <2>5. /\ literal \in [0 .. Size - 1 -> Sigma \cup 0 .. Roots - 1]
        /\ link \in [Fields -> [0 .. Size - 1 -> {Undef} \cup 0 .. Size - 1]]
    <3>1. /\ literal \in [Nodes(N) -> Sigma \cup 0 .. Roots - 1]
          /\ link \in [Fields -> [Nodes(N) -> {Undef} \cup Inner(N)]]
      BY <2>4 DEF LinksOK
    <3>2. Nodes(N) = 0 .. Size - 1 /\ Inner(N) \subseteq 0 .. Size - 1
      BY <2>4 DEF Nodes, Inner
    <3> QED
      BY <3>1, <3>2
  <2>6. TypeOK
    BY <1>1, <1>2, <2>2, <2>5 DEF TypeOK
  <2>7. SiblingsOrdered
    BY <2>1, <2>2, OrderFollows
  <2> QED
    BY <2>3, <2>6, <2>7, ReachedOnce DEF NodesReachableOnce
<1>3. CASE ~Linked
  <2>1. PICK N, up, lab : HashShape(N, up, lab)
    BY <1>3 DEF TrieInv
  <2>2. kind = "hash"
    BY <1>1, <1>3, KindIs
  <2>3. Stands(N, up, lab)
    BY <1>1, <2>1, <2>2, HashStands
  <2>4. \A k \in DOMAIN table : table[k] \in 0 .. Size - 1
    BY <2>1, <2>3 DEF HashShape, Stands, Nodes
  <2>5. TypeOK /\ SiblingsOrdered
    BY <1>1, <1>3, <2>4 DEF TypeOK, SiblingsOrdered
  <2> QED
    BY <2>3, <2>5, ReachedOnce DEF NodesReachableOnce
<1> QED
  BY <1>2, <1>3

\* In every implementation no node is lost and none is shared, whatever the
\* order in which the children of the nodes came: every node but the roots is
\* found from exactly one older node by exactly one letter, and the siblings
\* are in the order at which the searches of the sorted list and of the search
\* tree stop.  The assumption is about HashTrie only, in whose table roots must
\* not look like edges.
THEOREM TriesReachNodesOnce ==
  ASSUME RootsApart
  PROVE  Spec => []NodesReachableOnce
<1>1. Init => TrieInv
  BY InitInv
<1>2. TrieInv /\ [Next]_vars => TrieInv'
  BY InvNext
<1>3. TrieInv => NodesReachableOnce
  BY InvSays
<1> QED
  BY <1>1, <1>2, <1>3, PTL DEF Spec

\* Every pointer implementation is the dictionary of LZ78Dictionary.tla, for any
\* roots and characters: it finds a child exactly if it was inserted since the
\* last clear, under its number, and otherwise adds one leaf.
THEOREM PointerTriesAreDictionaries ==
  ASSUME "hash" \notin Kinds
  PROVE  Spec => D!Spec
<1>0. RootsApart
  BY DEF RootsApart
<1>1. Init => TrieInv /\ D!Init
  BY <1>0, InitInv
<1>2. TrieInv /\ [Next]_vars => TrieInv' /\ [D!Next]_D!vars
  <2> SUFFICES ASSUME TrieInv, [Next]_vars
               PROVE  TrieInv' /\ [D!Next]_D!vars
    OBVIOUS
  <2>1. TrieInv' /\ [D!Next \/ ResetHashed]_<<Dictionary, answer>>
    BY <1>0, InvNext
  <2>2. ~ResetHashed
    <3>1. kind \in Kinds
      BY DEF TrieInv
    <3> QED
      BY <3>1, KindIs DEF ResetHashed
  <2> QED
    BY <2>1, <2>2 DEF D!vars
<1> QED
  BY <1>1, <1>2, PTL DEF Spec, D!Spec

\* HashTrie is it, too, as long as nothing is cleared and no character is a
\* root: with one root (LZ78) that leaves byte 0 out, and with a root for every
\* byte (LZW) it leaves nothing.
THEOREM HashTrieIsDictionary ==
  ASSUME RootsApart
  PROVE  Spec => LookupSpec
<1>1. Init => TrieInv /\ D!Init
  BY InitInv
<1>2. TrieInv /\ [Next]_vars => TrieInv' /\ [D!Next \/ ResetHashed]_<<Dictionary, answer>>
  BY InvNext
<1> QED
  BY <1>1, <1>2, PTL DEF Spec, LookupSpec
=============================================================================
