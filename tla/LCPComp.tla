------------------------------ MODULE LCPComp -------------------------------
(***************************************************************************)
(* compressors/LCPCompressor.hpp and LZSSLCPCompressor.hpp: a text is      *)
(* replaced, one factor at a time, by references to other places with the  *)
(* same substring; then the factors are sorted, flattened and coded, and a *)
(* decoder resolves the references, which may point forwards, to the text. *)
(*                                                                         *)
(* strategy                          decoder                               *)
(*   arrays    ArraysComp              scan      ScanDec, EagerScanDec     *)
(*   heap      MaxHeapStrategy         compact   CompactDec                *)
(*   max_lcp   MaxLCPStrategy          queue     DecodeForwardQueueList... *)
(*   bheap     BoostHeap               multimap  MultimapBuffer            *)
(*   naive     NaiveStrategy                                               *)
(*   plcppeaks PLCPPeaksStrategy                                           *)
(*   plcp      PLCPStrategy                                                *)
(*   bulldozer BulldozerStrategy                                           *)
(*   lzss_lcp  LZSSLCPCompressor       back      DecodeBackBuffer          *)
(***************************************************************************)
EXTENDS TextIndex, LCPQueues, LZSSFactors

CONSTANTS Sigma,       \* the symbols of a text but the final 0
          TextsOf(_),  \* the texts for a strategy, without the final 0
          MaxLen,      \* bound on their lengths
          Thresholds,  \* the values of the option threshold
          Strategies,  \* the strategies to run
          Decoders,    \* the decoders to run, but the one of lzss_lcp
          Scans        \* bound on the options scans of ScanDec, lazy of MultimapBuffer

ASSUME LCPCompAssumption ==
  /\ Sigma \subseteq Nat \ {0} /\ Thresholds \subseteq Nat \ {0}
  /\ MaxLen \in Nat /\ Scans \in Nat
  /\ \A s \in Strategies : \A t \in TextsOf(s) : t \in Seq(Sigma) /\ Len(t) <= MaxLen

VARIABLES
  text, strategy, threshold,  \* the input and the options
  sa, isa, plcp, lcp,         \* the index; lcp is changed by the strategies
  queue,     \* heap, max_lcp, bheap: the candidates; arrays, plcp: see below
  marked,    \* naive: the positions marked
  i,         \* naive, plcppeaks, plcp, lzss_lcp: the text position
  factors,
  wire,      \* what the encoder has written
  decoder, phase,
  ranges,    \* decode_text: the ranges read and the position in the stream
  buffer, known, cursor,  \* m_buffer, m_decoded, m_cursor
  stored,    \* scan, multimap: the factors kept for later
  fwd,       \* positions waiting for a position
  blank,     \* EagerScanDec: m_bv
  wild,      \* a slot of m_fwd was used before it was initialised
  round      \* counts scans, then stored factors

index == <<sa, isa, plcp>>
comp == <<lcp, queue, marked, i, factors>>
dec == <<ranges, buffer, known, cursor, stored, fwd, blank, wild, round>>
vars == <<text, strategy, threshold, index, comp, wire, decoder, phase, dec>>

n == Len(text)
Ranks == 0 .. n - 1
Queued == strategy \in {"heap", "max_lcp", "bheap"}

Factor(pos, src, len) == [pos |-> pos, src |-> src, len |-> len]
\* The factor of rank m: the suffix refers to its predecessor.
FactorOf(m) == Factor(sa[m], sa[m - 1], lcp[m])

-----------------------------------------------------------------------------
(* The queues: insert, remove, decrease_key, get_max, contains *)

Inserted(keys, q, m) ==
  CASE strategy = "heap" -> [q EXCEPT !.items = HeapInsert(keys, q.items, m)]
    [] strategy = "max_lcp" -> ListInsert(keys, q, m)
    [] OTHER -> [q EXCEPT !.items = Append(q.items, m)]

Removed(keys, q, m) ==
  IF ~Contains(q.items, m) THEN q
  ELSE CASE strategy = "heap" -> [q EXCEPT !.items = HeapRemove(keys, q.items, m)]
         [] strategy = "max_lcp" -> ListRemove(keys, q, m)
         [] OTHER -> [q EXCEPT !.items = RemoveAt(q.items, IndexIn(q.items, m))]

\* The keys change between the two steps of the list's decrease_key.
Decreased(keys, q, m, value) ==
  LET lower == [keys EXCEPT ![m] = value]
  IN  [keys |-> lower,
       q |-> CASE strategy = "heap" -> [q EXCEPT !.items = HeapDecreased(lower, q.items, m)]
               [] strategy = "max_lcp" -> ListInsert(lower, ListRemove(keys, q, m), m)
               [] OTHER -> q]

\* The pairing heap of Boost (external) orders by key, then by position.
Top(keys, q) ==
  IF strategy # "bheap" THEN q.items[1]
  ELSE CHOOSE m \in Ranks : /\ Contains(q.items, m)
                            /\ \A o \in Ranks : Contains(q.items, o) =>
                                 \/ keys[o] < keys[m]
                                 \/ keys[o] = keys[m] /\ sa[o] >= sa[m]

EmptyQueue(keys) == [items |-> <<>>, index |-> [v \in 1 .. MaxLCP(keys) |-> NoItem]]

QueueOf(keys) ==
  LET Q[m \in Ranks] ==
        IF m = 0 THEN EmptyQueue(keys)
        ELSE LET q == Q[m - 1]
             IN  IF keys[m] >= threshold THEN Inserted(keys, q, m) ELSE q
  IN  Q[n - 1]

\* An entry becomes a candidate for its key, unless that is too low.
Pushed(cand, m, key) == IF key < threshold THEN cand ELSE [cand EXCEPT ![key] = Append(@, m)]

\* ArraysComp: the candidates by key, the key that is worked on and the next
\* candidate of that key.
ArraysOf(keys) ==
  LET C[m \in Ranks] ==
        IF m = 0 THEN [v \in 1 .. MaxLCP(keys) |-> <<>>]
        ELSE Pushed(C[m - 1], m, keys[m])
  IN  [cand |-> C[n - 1], level |-> MaxLCP(keys), next |-> 1]

\* PLCPStrategy: the peaks by their numbers, and the last one found.  What is
\* left of a peak that was replaced or erased is 0.
Peak(pos, len) == [pos |-> pos, len |-> len]
NoPeaks == [peaks |-> <<>>, last |-> Peak(0, 0)]
Alive(peaks) == {k \in DOMAIN peaks : peaks[k].len > 0}

-----------------------------------------------------------------------------
Init ==
  /\ strategy \in Strategies /\ threshold \in Thresholds
  /\ text \in {Append(t, 0) : t \in TextsOf(strategy)}
  /\ sa = SuffixArray(text) /\ isa = ISAFromSA(sa)
  /\ plcp = PLCPFromPhi(text, PhiFromSA(sa))
  /\ lcp = LCPFromPLCP(sa, plcp)
  /\ queue = CASE strategy = "arrays" -> ArraysOf(lcp)
               [] strategy = "plcp" -> NoPeaks
               [] Queued -> QueueOf(lcp)
               [] OTHER -> <<>>
  /\ marked = {} /\ i = 0 /\ factors = <<>>
  /\ wire = <<>> /\ decoder = "none" /\ phase = "factorize"
  /\ ranges = <<>> /\ buffer = <<>> /\ known = {} /\ cursor = 0 /\ stored = <<>>
  /\ fwd = <<>> /\ blank = {} /\ wild = FALSE /\ round = 0

\* Mutant: the entries in front of a factor are not corrected.
CorrectNone(keys, q, f) ==
  LET R[k \in 0 .. f.len] ==
        IF k = 0 THEN q ELSE LET p == R[k - 1] IN Removed(keys, p, isa[f.pos + k - 1])
  IN  [keys |-> keys, q |-> R[f.len]]

\* The loops of heap, max_lcp and bheap behind emplace_back: remove the
\* overlapped entries, then shorten or remove those that reach into the factor.
Correct(keys, q, f) ==
  LET R[k \in 0 .. f.len] ==
        IF k = 0 THEN q ELSE LET p == R[k - 1] IN Removed(keys, p, isa[f.pos + k - 1])
      C[k \in 0 .. f.len] ==
        IF k = 0 THEN [keys |-> keys, q |-> R[f.len]]
        ELSE LET p == C[k - 1]
                 s == f.pos - k
             IN  IF s < 0 \/ ~Contains(p.q.items, isa[s]) THEN p
                 ELSE IF p.keys[isa[s]] <= k THEN p
                 ELSE IF k >= threshold THEN Decreased(p.keys, p.q, isa[s], k)
                 ELSE [p EXCEPT !.q = Removed(p.keys, p.q, isa[s])]
  IN  C[f.len]

\* One round of the loop of heap, max_lcp or bheap.
TakeMax ==
  /\ phase = "factorize" /\ Queued /\ queue.items # <<>>
  /\ LET f == FactorOf(Top(lcp, queue))
         next == Correct(lcp, queue, f)
     IN  /\ factors' = Append(factors, f)
         /\ lcp' = next.keys
         /\ queue' = next.q
  /\ UNCHANGED <<text, strategy, threshold, index, marked, i, wire, decoder, phase, dec>>

\* One candidate of ArraysComp: pushed down if its key was lowered, dropped if
\* it fell below the threshold, else taken; or on to the next key.
ArraysStep ==
  /\ phase = "factorize" /\ strategy = "arrays" /\ queue.level >= threshold
  /\ IF queue.next > Len(queue.cand[queue.level])
     THEN /\ queue' = [queue EXCEPT !.level = @ - 1, !.next = 1]
          /\ UNCHANGED <<lcp, factors>>
     ELSE LET m == queue.cand[queue.level][queue.next]
              f == FactorOf(m)
          IN  IF lcp[m] < queue.level
              THEN /\ queue' = [queue EXCEPT !.next = @ + 1, !.cand = Pushed(@, m, lcp[m])]
                   /\ UNCHANGED <<lcp, factors>>
              ELSE /\ factors' = Append(factors, f)
                   /\ lcp' = [r \in Ranks |->
                        IF sa[r] \in Span(f) THEN 0
                        ELSE IF f.pos - sa[r] \in 1 .. f.len
                             THEN IF f.pos - sa[r] < lcp[r] THEN f.pos - sa[r] ELSE lcp[r]
                             ELSE lcp[r]]
                   /\ queue' = [queue EXCEPT !.next = @ + 1]
  /\ UNCHANGED <<text, strategy, threshold, index, marked, i, wire, decoder, phase, dec>>

\* One round of NaiveStrategy: a factor, whose source must not be replaced any
\* more, or one position further.
NaiveStep ==
  /\ phase = "factorize" /\ strategy = "naive" /\ i + 1 < n
  /\ LET f == FactorOf(isa[i])
     IN  IF f.len >= threshold /\ Span(f) \cap marked = {}
         THEN /\ factors' = Append(factors, f)
              /\ marked' = marked \cup (f.src .. f.src + f.len - 1)
              /\ i' = i + f.len
         ELSE i' = i + 1 /\ UNCHANGED <<factors, marked>>
  /\ UNCHANGED <<text, strategy, threshold, index, lcp, queue, wire, decoder, phase, dec>>

\* One round of PLCPPeaksStrategy.  `marked` holds last_replacement_pos.
PeaksStep ==
  /\ phase = "factorize" /\ strategy = "plcppeaks" /\ i + 1 < n
  /\ LET last == IF marked = {} THEN 0 ELSE CHOOSE p \in marked : TRUE
         peak == /\ i = last \/ plcp[i] > plcp[i - 1]
                 /\ plcp[i] > plcp[i + 1]
                 /\ plcp[i] >= threshold
     IN  IF peak
         THEN /\ factors' = Append(factors, Factor(i, sa[isa[i] - 1], plcp[i]))
              /\ i' = i + plcp[i]
              /\ marked' = {i + plcp[i] - 1}
         ELSE i' = i + 1 /\ UNCHANGED <<factors, marked>>
  /\ UNCHANGED <<text, strategy, threshold, index, lcp, queue, wire, decoder, phase, dec>>

\* PLCPStrategy.  The text is behind the longest of the peaks, the last one.
Behind == Alive(queue.peaks) # {} /\ i - queue.last.pos >= queue.last.len

\* One position further: a peak is higher than the one before it.  (What has not
\* been replaced at the end of the text, is not: the test for i + 1 = n never
\* holds in the loop.)
PeaksSearch ==
  /\ phase = "factorize" /\ strategy = "plcp" /\ i + 1 < n /\ ~Behind
  /\ queue' = IF plcp[i] >= threshold /\ (Alive(queue.peaks) = {} \/ plcp[i] > queue.last.len)
              THEN [peaks |-> Append(queue.peaks, Peak(i, plcp[i])), last |-> Peak(i, plcp[i])]
              ELSE queue
  /\ i' = i + 1
  /\ UNCHANGED <<text, strategy, threshold, index, lcp, marked, factors, wire, decoder, phase, dec>>

\* The peaks to the right that the factor of peak t reaches are erased; of what
\* is left of them the most becomes a peak behind the factor.
RightErased(peaks, t) ==
  LET end == peaks[t].pos + peaks[t].len
      right == {k \in Alive(peaks) : k > t /\ end < i}
      reached == {k \in right : peaks[k].pos < end}
      left == Max({0} \cup {peaks[k].pos + peaks[k].len - end : k \in reached})
      erased == [k \in DOMAIN peaks |-> IF k \in reached THEN Peak(peaks[k].pos, 0) ELSE peaks[k]]
  IN  IF left < threshold \/ \E k \in right : peaks[k].pos = end THEN erased
      ELSE [erased EXCEPT ![t + 1] = Peak(end, left)]

\* The peaks to the left that reach into the factor at pos are shortened or
\* erased, from right to left up to the first that does not.
LeftShortened(peaks, pos) ==
  LET left == {k \in Alive(peaks) : peaks[k].pos < pos}
      clear == {k \in left : peaks[k].pos + peaks[k].len <= pos}
      rest(k) == pos - peaks[k].pos
  IN  [k \in DOMAIN peaks |->
         IF k \notin left \/ \E c \in clear : c >= k THEN peaks[k]
         ELSE Peak(peaks[k].pos, IF rest(k) < threshold THEN 0 ELSE rest(k))]

\* One round of the inner loop: the longest peak, the leftmost of these.
TakePeak ==
  /\ phase = "factorize" /\ strategy = "plcp" /\ i + 1 < n /\ Behind
  /\ \E t \in Alive(queue.peaks) :
       LET p == queue.peaks[t]
           Below(o) == o.len < p.len \/ (o.len = p.len /\ o.pos >= p.pos)
           erased == [RightErased(queue.peaks, t) EXCEPT ![t].len = 0]
           next == LeftShortened(erased, p.pos)
       IN  /\ \A k \in Alive(queue.peaks) : Below(queue.peaks[k])
           /\ factors' = Append(factors, Factor(p.pos, sa[isa[p.pos] - 1], p.len))
           /\ queue' = [queue EXCEPT !.peaks = IF Alive(next) = {} THEN <<>> ELSE next]
  /\ UNCHANGED <<text, strategy, threshold, index, lcp, marked, i, wire, decoder, phase, dec>>

\* One round of LZSSLCPCompressor: the nearest ranks above and below whose
\* suffixes start earlier in the text, and what they have in common with i.
LZSSStep ==
  /\ phase = "factorize" /\ strategy = "lzss_lcp" /\ i + 1 < n
  /\ LET cur == isa[i]
         Smaller(a, b) == IF a < b THEN a ELSE b
         Up[r \in -1 .. cur - 1] ==   \* psv_pos and psv_lcp, from psv_pos = r
           IF r < 0 \/ sa[r] < i THEN [at |-> r, len |-> n]
           ELSE LET u == Up[r - 1] IN [u EXCEPT !.len = Smaller(lcp[r], @)]
         up == [Up[cur - 1] EXCEPT !.len = Smaller(lcp[cur], @)]
         Down[r \in cur + 1 .. n] ==
           IF r = n THEN [at |-> n, len |-> 0]
           ELSE IF sa[r] < i THEN [at |-> r, len |-> lcp[r]]
           ELSE LET d == Down[r + 1] IN [d EXCEPT !.len = Smaller(lcp[r], @)]
         down == Down[cur + 1]
         best == IF lcp[cur] > 0 /\ up.len >= down.len THEN up ELSE down
     IN  IF best.len >= threshold
         THEN /\ factors' = Append(factors, Factor(i, sa[best.at], best.len))
              /\ i' = i + best.len
         ELSE i' = i + 1 /\ UNCHANGED factors
  /\ UNCHANGED <<text, strategy, threshold, index, lcp, queue, marked, wire, decoder, phase, dec>>

\* BulldozerStrategy: a vector of the same name hides the one its loops go
\* through, which stays empty, so they find nothing.
BulldozerDone == strategy = "bulldozer"

Factorized ==
  /\ phase = "factorize"
  /\ IF Queued THEN queue.items = <<>>
     ELSE IF strategy = "arrays" THEN queue.level < threshold ELSE BulldozerDone \/ i + 1 >= n

Literals == Sigma \cup {0}
Largest == CHOOSE c \in Literals : \A o \in Literals : o <= c

\* compress behind "Factorize": sort, flatten if the option says so, encode.
\* LZSSLCPCompressor finds its factors in order and does not flatten them.
Encode ==
  /\ Factorized
  /\ \E flatten \in IF strategy = "lzss_lcp" THEN {FALSE} ELSE BOOLEAN :
       factors' = IF flatten THEN Flattened(Sorted(factors)) ELSE Sorted(factors)
  /\ wire' = EncodedText(text, factors', Largest, MaxLen + 1)
  /\ phase' = "encoded"
  /\ UNCHANGED <<text, strategy, threshold, index, lcp, queue, marked, i, decoder, dec>>

-----------------------------------------------------------------------------
(* Decoding *)

\* The header is read and the buffer made.
Open ==
  /\ phase = "encoded"
  /\ decoder' \in IF strategy = "lzss_lcp" THEN {"back"} ELSE Decoders
  /\ LET r == DecodedRanges(wire, MaxLen + 1)
     IN  /\ ranges' = r
         /\ buffer' = [p \in 0 .. r.n - 1 |-> 0]
         /\ fwd' = [p \in 0 .. r.n - 1 |-> {}]
  /\ phase' = "decode"
  /\ UNCHANGED <<text, strategy, threshold, index, comp, wire,
                 known, cursor, stored, blank, wild, round>>

Keeping == decoder \in {"scan", "multimap"}  \* factors are kept for later

\* Has position p been decoded?  Two decoders take 0 for "not yet".
Has(buf, kn, p) == IF decoder \in {"scan", "compact"} THEN buf[p] # 0 ELSE p \in kn

\* decode_literal_at: position p and, recursively, all that wait for it.
LiteralAt(st, p, c) ==
  LET Grow[k \in 0 .. Cardinality(DOMAIN st.buf)] ==
        IF k = 0 THEN {p} ELSE LET g == Grow[k - 1] IN g \cup UNION {st.fwd[q] : q \in g}
      all == Grow[Cardinality(DOMAIN st.buf)]
  IN  [st EXCEPT !.buf = [q \in DOMAIN @ |-> IF q \in all THEN c ELSE @[q]],
                 !.known = @ \cup all,
                 !.fwd = [q \in DOMAIN @ |-> IF q \in all THEN {} ELSE @[q]],
                 !.touched = @ \cup all]

\* Mutant: a waiting position replaces the ones that wait already.
WaitAlone(st, src, p) ==
  [st EXCEPT !.fwd[src] = {p}, !.touched = @ \cup {src}]

Wait(st, src, p) ==
  [st EXCEPT !.fwd[src] = @ \cup {p}, !.touched = @ \cup {src}]

\* The eager loop over the characters of a factor: each is decoded if its
\* source is, else it waits for it.
Eagerly(st, dst, src, len) ==
  LET E[k \in 0 .. len] ==
        IF k = 0 THEN st
        ELSE LET e == E[k - 1]
             IN  IF Has(e.buf, e.known, src + k - 1)
                 THEN LiteralAt(e, dst + k - 1, e.buf[src + k - 1])
                 ELSE Wait(e, src + k - 1, dst + k - 1)
  IN  E[len]

\* Plain copying, as DecodeBackBuffer does, and decode_lazy_ with its test.
Copied(st, dst, src, len) ==
  LET E[k \in 0 .. len] ==
        IF k = 0 THEN st
        ELSE LET e == E[k - 1]
             IN  IF decoder = "multimap" /\ src + k - 1 \notin e.known THEN e
                 ELSE [e EXCEPT !.buf[dst + k - 1] = e.buf[src + k - 1],
                                !.known = @ \cup {dst + k - 1}]
  IN  E[len]

State == [buf |-> buffer, known |-> known, fwd |-> fwd, touched |-> {}]

\* decode_factor of scan and multimap: the characters known are copied, and
\* the factor is kept from its first unknown character on.
KeepFactor(st, dst, src, len) ==
  LET E[k \in 0 .. len] ==
        IF k = 0 THEN st
        ELSE LET e == E[k - 1]
             IN  IF Has(e.buf, e.known, src + k - 1)
                 THEN [e EXCEPT !.buf[dst + k - 1] = e.buf[src + k - 1],
                                !.known = @ \cup {dst + k - 1}]
                 ELSE e
      gaps == {k \in 0 .. len - 1 : ~Has(E[k].buf, E[k].known, src + k)}
      first == CHOOSE k \in gaps : \A o \in gaps : k <= o
  IN  [st |-> E[len],
       kept |-> IF gaps = {} THEN <<>>
                ELSE <<Factor(dst + first, src + first, len - first)>>]

\* The literals of a round, at the cursor, and then the factor behind them.
LiteralsAt(st, lits) ==
  LET L[k \in 0 .. Len(lits)] ==
        IF k = 0 THEN st
        ELSE LET l == L[k - 1] IN LiteralAt(l, cursor + k - 1, lits[k])
  IN  L[Len(lits)]

FactorAt(st, at, f) ==
  CASE Keeping -> KeepFactor(st, at, f.src, f.len)
    [] decoder = "back" -> [st |-> Copied(st, at, f.src, f.len), kept |-> <<>>]
    [] OTHER -> [st |-> Eagerly(st, at, f.src, f.len), kept |-> <<>>]

\* One round of the decoding loop: literals, then a factor.
DecodeItem ==
  /\ phase = "decode" /\ ranges.pos < Len(wire)
  /\ \E item \in {DecodedItem(wire, ranges, Largest)} :
       \E st \in {LiteralsAt(State, item.lits)}, at \in {cursor + Len(item.lits)} :
         \E done \in {IF item.factor = <<>> THEN [st |-> st, kept |-> <<>>]
                       ELSE FactorAt(st, at, item.factor[1])} :
           /\ buffer' = done.st.buf /\ known' = done.st.known /\ fwd' = done.st.fwd
           /\ stored' = stored \o done.kept
           /\ cursor' = IF item.factor = <<>> THEN at ELSE at + item.factor[1].len
           /\ ranges' = [ranges EXCEPT !.pos = item.pos]
  /\ UNCHANGED <<text, strategy, threshold, index, comp, wire, decoder, phase, blank, wild, round>>

\* decode_lazy: one scan over the factors kept, as often as the option says.
Scan ==
  /\ phase = "decode" /\ ranges.pos >= Len(wire) /\ Keeping /\ round < Scans
  /\ LET S[j \in 0 .. Len(stored)] ==
           IF j = 0 THEN State
           ELSE LET s == S[j - 1] f == stored[j] IN Copied(s, f.pos, f.src, f.len)
         st == S[Len(stored)]
     IN  buffer' = st.buf /\ known' = st.known
  /\ round' = round + 1
  /\ UNCHANGED <<text, strategy, threshold, index, comp, wire, decoder, phase,
                 ranges, cursor, stored, fwd, blank, wild>>

\* Mutant: the last position is not marked.
StartEagerInner ==
  /\ phase = "decode" /\ ranges.pos >= Len(wire)
  /\ phase' = "eager" /\ round' = 0
  /\ blank' = {p \in DOMAIN buffer : decoder = "scan" /\ buffer[p] = 0 /\ p < n - 1}
  /\ UNCHANGED <<text, strategy, threshold, index, comp, wire, decoder,
                 ranges, buffer, known, cursor, stored, fwd, wild>>

\* The decoding loop is over; EagerScanDec marks what is still unknown.
StartEager ==
  /\ phase = "decode" /\ ranges.pos >= Len(wire)
  /\ phase' = "eager" /\ round' = 0
  /\ blank' = {p \in DOMAIN buffer : decoder = "scan" /\ buffer[p] = 0}
  /\ UNCHANGED <<text, strategy, threshold, index, comp, wire, decoder,
                 ranges, buffer, known, cursor, stored, fwd, wild>>

\* decode_eagerly: one factor.  The slot of the last unknown position is one
\* behind those that the constructor fills.
EagerFactor ==
  /\ phase = "eager" /\ Keeping /\ round < Len(stored)
  /\ LET f == stored[round + 1]
         st == Eagerly(State, f.pos, f.src, f.len)
         lastBlank == {p \in blank : \A q \in blank : q <= p}
     IN  /\ buffer' = st.buf /\ known' = st.known /\ fwd' = st.fwd
         /\ wild' = (wild \/ st.touched \cap lastBlank # {})
  /\ round' = round + 1
  /\ UNCHANGED <<text, strategy, threshold, index, comp, wire, decoder, phase,
                 ranges, cursor, stored, blank>>

\* write_to
Write ==
  /\ phase = "eager" /\ (Keeping => round = Len(stored))
  /\ phase' = "done"
  /\ UNCHANGED <<text, strategy, threshold, index, comp, wire, decoder, dec>>

Done == phase = "done" /\ UNCHANGED vars

Next == \/ TakeMax \/ ArraysStep \/ NaiveStep \/ PeaksStep \/ PeaksSearch \/ TakePeak
        \/ LZSSStep \/ Encode
        \/ Open \/ DecodeItem \/ Scan \/ StartEager \/ EagerFactor \/ Write \/ Done

\* Sequential code that runs to its end.  This is weak fairness of Next: a
\* state that is not done can take a step, or TLC reports it as a deadlock.
Progress == []<>(phase = "done") \/ []<><<Next>>_vars

Spec == Init /\ [][Next]_vars /\ Progress

-----------------------------------------------------------------------------
(* Properties *)

\* Every variable of the search keeps to its range: ranks and positions stay in
\* the text, and keys only fall (LCPCompressor.hpp).
TypeOK ==
  /\ text \in Seq(Literals) /\ threshold \in Thresholds
  /\ DOMAIN lcp = Ranks /\ \A r \in Ranks : lcp[r] \in 0 .. LCPFromPLCP(sa, plcp)[r]
  /\ Queued => ToSet(queue.items) \subseteq Ranks \ {0} /\ IsInjective(queue.items)
  /\ marked \subseteq Ranks /\ i \in Ranks
  /\ phase \in {"factorize", "encoded", "decode", "eager", "done"}

\* So does every variable of the decoders: buffers hold symbols (ScanDec.hpp).
BuffersOK ==
  /\ DOMAIN buffer \in {{}, Ranks} /\ \A p \in DOMAIN buffer : buffer[p] \in Literals
  /\ DOMAIN fwd = DOMAIN buffer /\ \A p \in DOMAIN fwd : fwd[p] \subseteq Ranks
  /\ known \subseteq Ranks /\ cursor \in 0 .. n

\* Which of two positions comes first in the direction references must go:
\* through the text for lzss_lcp, else down the order of the suffixes.
Order(p) == IF strategy = "lzss_lcp" THEN p ELSE isa[p]

\* No two factors overlap: the encoder, which goes through the text once, never
\* has to go back (DCHECK of LZSSCoding.hpp:66).  The heap strategy breaks this,
\* see HeapTexts.
FactorsDisjoint ==
  \A k, o \in 1 .. Len(factors) : k # o => Span(factors[k]) \cap Span(factors[o]) = {}

\* Every factor is long enough, repeats the text of its source and leaves the
\* final 0 alone, and its source comes before it in one fixed order, so that
\* references cannot go round in a circle - whatever strategy found it, before
\* and after flattening (DCHECK of LZSSCoding.hpp:76, LZSSFactors.hpp:79-132).
\* No two overlap, but for those of the heap.
FactorsSound ==
  /\ \A k \in 1 .. Len(factors) :
       LET f == factors[k]
       IN  /\ f.len >= threshold
           /\ f.pos + f.len < n /\ f.src + f.len < n
           /\ \A d \in 0 .. f.len - 1 : text[f.src + d + 1] = text[f.pos + d + 1]
           /\ Order(f.src) < Order(f.pos)
  /\ strategy # "heap" => FactorsDisjoint

Covered == UNION {Span(factors[k]) : k \in 1 .. Len(factors)}

\* What is left of the match of position p with its predecessor suffix.
Remaining(p) ==
  LET free == {l \in 0 .. plcp[p] : (p .. p + l - 1) \cap Covered = {}}
  IN  IF p = n - 1 THEN 0 ELSE CHOOSE l \in free : \A o \in free : o <= l

\* The corrections after each factor keep the candidates exact: what waits
\* in a queue, or in one array of ArraysComp, is every position of which
\* enough is left, with just that key (MaxLCPStrategy.hpp:76-97,
\* BoostHeap.hpp:95-117, ArraysComp.hpp:80-109).  They look one factor length
\* back, which is enough behind a longest factor; the heap may take another.
CandidatesExact ==
  /\ TypeOK
  /\ phase = "factorize" =>
    /\ Queued /\ strategy # "heap" => \A r \in Ranks :
         /\ Contains(queue.items, r) <=> Remaining(sa[r]) >= threshold
         /\ Contains(queue.items, r) => lcp[r] = Remaining(sa[r])
    /\ strategy = "arrays" => \A r \in Ranks :
         /\ lcp[r] = Remaining(sa[r])
         /\ lcp[r] >= threshold =>
              \E v \in lcp[r] .. queue.level :
                \E k \in 1 .. Len(queue.cand[v]) :
                  queue.cand[v][k] = r /\ (v = queue.level => k >= queue.next)

\* The greedy strategies replace the longest match that is left, always, and
\* stop when no match is long enough (ArraysComp.hpp:11-21,
\* MaxLCPSuffixList.hpp:9-13, BoostHeap.hpp:14-22).  The heap of
\* MaxHeapStrategy does not: remove moves the item that fills the gap only
\* down, and it may have to go up (ArrayMaxHeap.hpp:151-168).
Greedy == strategy \in {"max_lcp", "bheap", "arrays"}
LongestLeft(l) == \A p \in Ranks : Remaining(p) <= l
GreedyChoice ==
  [][Greedy /\ phase = "factorize" =>
       /\ Len(factors') > Len(factors) => LongestLeft(factors'[Len(factors')].len)
       /\ phase' = "encoded" => LongestLeft(threshold - 1)]_vars

\* EagerScanDec allocates one slot more than it initialises; the slot is that
\* of the last unknown position, always the final 0, which no factor covers
\* or refers to: it is never used (ScanDec.hpp:50-53, 108-118).
NoWildSlot == BuffersOK /\ ~wild

\* Whatever the strategy, the flattening and the decoder, all loops end and
\* every position of the text is restored, although references may point
\* forwards and be resolved in any number of scans (LCPCompressor.hpp:23-76).
\* With the heap this holds only as long as its factors are disjoint, as they
\* are on short texts.
Restored ==
  <>(phase = "done" /\ DOMAIN buffer = Ranks /\ \A p \in Ranks : buffer[p] = text[p + 1])
-----------------------------------------------------------------------------
(* Values of the constants for TLC *)

\* All short texts; the peaks of plcp have to overlap.
ShortTexts(s) == UNION {[1 .. l -> Sigma] : l \in 0 .. IF s = "plcp" THEN 10 ELSE 8}

\* A text on which the heap hands out a factor that is not the longest; a longer
\* one that starts before it and reaches behind it is then added as well.
HeapTexts(s) ==
  {<<2, 1, 2, 1, 1, 2, 1, 2, 1, 1, 2, 1, 2, 1, 1, 2, 1, 2, 1, 2, 1, 1, 2, 1,
     2, 1, 1, 2, 1, 1, 2, 1, 2, 1, 1, 1, 2, 1, 1, 2>>}
=============================================================================
