----------------------------- MODULE TextIndex ------------------------------
(***************************************************************************)
(* The index arrays of ds/ that the factorizing compressors use, as the    *)
(* functions the providers compute.  A text is a sequence that ends with   *)
(* its only 0; positions, ranks and array entries count from 0.            *)
(***************************************************************************)
EXTENDS RangeCoder, SequencesExt

Positions(text) == 0 .. Len(text) - 1

\* How many symbols the suffixes i and j have in common; they differ before
\* the end, where one of them has the only 0.
CommonPrefix(text, i, j) ==
  LET L[l \in Nat] == IF text[i + l + 1] = text[j + l + 1] THEN L[l + 1] ELSE l
  IN  L[0]

\* The order of the suffixes.
SuffixLess(text, i, j) ==
  i # j /\ LET l == CommonPrefix(text, i, j) IN text[i + l + 1] < text[j + l + 1]

\* SADivSufSort: divsufsort, as what it returns: the suffixes in order, that is each
\* behind as many as are less.
SuffixArray(text) ==
  LET Before(i) == {j \in Positions(text) : SuffixLess(text, j, i)}
      ranked == {<<Cardinality(Before(i)), i>> : i \in Positions(text)}
  IN  [r \in Positions(text) |-> CHOOSE i \in Positions(text) : <<r, i>> \in ranked]

\* ISAFromSA
ISAFromSA(sa) == [i \in DOMAIN sa |-> CHOOSE r \in DOMAIN sa : sa[r] = i]

\* PhiFromSA: the suffix before suffix i in the order; the first one wraps.
PhiFromSA(sa) ==
  LET n == Cardinality(DOMAIN sa)
  IN  [i \in DOMAIN sa |->
         LET r == CHOOSE r \in DOMAIN sa : sa[r] = i IN sa[(r + n - 1) % n]]

\* PLCPFromPhi, which works in place on Phi: the match of suffix i with its
\* predecessor is at least that of suffix i - 1 less one.  The entry of the
\* last position is never written and still holds Phi, of which compress(),
\* in the default mode of TextDS, keeps as many bits as the largest match has.
PLCPFromPhi(text, phi) ==
  LET n == Len(text)
      Extend(i, l) ==
        LET E[k \in Nat] == IF text[i + k + 1] = text[phi[i] + k + 1] THEN E[k + 1] ELSE k
        IN  E[l]
      P[i \in -1 .. n - 2] ==
        IF i = -1 THEN <<>>
        ELSE LET q == P[i - 1]
             IN  Append(q, Extend(i, IF i = 0 \/ q[i] = 0 THEN 0 ELSE q[i] - 1))
      matches == P[n - 2]
      max == CHOOSE m \in {0} \cup ToSet(matches) : \A l \in ToSet(matches) : l <= m
      last == phi[n - 1] % 2 ^ BitsFor(max)
  IN  [i \in DOMAIN phi |-> IF i = n - 1 THEN last ELSE matches[i + 1]]

\* LCPFromPLCP
LCPFromPLCP(sa, plcp) == [r \in DOMAIN sa |-> IF r = 0 THEN 0 ELSE plcp[sa[r]]]

\* max_lcp()
MaxLCP(lcp) == CHOOSE m \in {lcp[r] : r \in DOMAIN lcp} : \A r \in DOMAIN lcp : lcp[r] <= m
=============================================================================
