------------------------------ MODULE MCCoders ------------------------------
(* Instances of Coders for TLC. *)
EXTENDS Coders
\* A bit, ranges that start above 0, the full range of the type, and one that
\* takes more than five bits.
MCRanges == {[min |-> 0, max |-> MaxValue], [min |-> 3, max |-> 7], [min |-> 5, max |-> 5],
             [min |-> 1, max |-> 40]}

Of(kind, k) == [kind |-> kind, k |-> k]
Upto(n, S) == UNION {[1 .. m -> S] : m \in 0 .. n}

\* Every code with every value, and another integer behind it.
Single == UNION {{[code |-> c, v |-> v] : v \in Encodable(c) \cap 0 .. 15} : c \in Codes}
Behind == {[code |-> c, v |-> 6] : c \in {<<"gamma">>, <<"ternary">>, <<"compressed", 1>>, <<"unary">>}}
Integers2 == {<<i>> : i \in Single} \cup {<<i, j>> : i \in Single, j \in Behind} \cup {<<>>}

\* Texts over three literals with integers between them.
Mixed(n, ints) == Upto(n, {LiteralItem(c) : c \in 0 .. 2} \cup ints)
Wide == [min |-> 1, max |-> 40]
AnInt == [code |-> <<"range", [min |-> 3, max |-> 7]>>, v |-> 4]
MinInts == {[code |-> <<"min", Wide>>, v |-> v] : v \in {1, 8, 9, 16, 17, 32, 33, 40}}

\* Each of n literals, the first ones most often, and integers of all classes.
Iota(n) == [i \in 1 .. n |-> LiteralItem(i - 1)] \o [i \in 1 .. n \div 2 |-> LiteralItem(i - 1)]
Classes == Upto(2, MinInts)

\* The arithmetic coder: texts without literal LitMax, with a literal that is
\* not 0, and with 0 not rarer than all others (it miscounts the others).
Occ(t, c) == Cardinality({i \in DOMAIN t : t[i].v = c})
Counted(t) ==
  /\ \E i \in DOMAIN t : t[i].v # 0
  /\ Occ(t, 0) = 0 \/ \E c \in 1 .. 2 : 0 < Occ(t, c) /\ Occ(t, c) <= Occ(t, 0)
Fibonacci == <<0, 1, 1, 2, 2, 2, 3, 3, 3, 3, 3, 4, 4, 4, 4, 4, 4, 4, 4>>

MCTexts ==
  {Of("plain", 0)} \X Integers2
  \cup {Of("huffman", 0)} \X (Mixed(5, {AnInt}) \cup {Iota(9), Iota(20)}
                              \cup {[i \in DOMAIN Fibonacci |-> LiteralItem(Fibonacci[i])]})
  \cup {Of("arithmetic", 0)} \X {t \in Mixed(6, {}) : Counted(t)}
  \cup {Of("sle", k) : k \in {1, 2, 3}}
         \X (Mixed(5, {AnInt}) \cup Classes \cup {Iota(n) : n \in {9, 17, 33, 65}})
=============================================================================
