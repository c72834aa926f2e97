-------------------------------- MODULE LZW --------------------------------
(***************************************************************************)
(* compressors/LZWCompressor.hpp with lzw/LZWDecoding.hpp: like LZ78, but  *)
(* with a root node for every literal, so that a factor is only a node.    *)
(* The decoder learns the character that completes a dictionary entry one  *)
(* factor later than the encoder knew it, and may have to decode an entry  *)
(* it has not completed.  Both sides reset their dictionaries at dict_size *)
(* entries, each by its own count.                                         *)
(***************************************************************************)
EXTENDS RangeCoder, PhraseDict

CONSTANTS Sigma,    \* ULITERAL_MAX + 1; literals are 0 .. Sigma - 1
          Setups,   \* options: the coder is BitCoder; dict_size, 0: unlimited
          MaxLen,   \* bound on the length of the text
          DmsMax    \* lz78::DMS_MAX, the largest number of a node

ASSUME LZWAssumption ==
  /\ Sigma \in Nat \ {0} /\ MaxLen \in Nat /\ DmsMax \in Nat
  /\ Setups \subseteq [binary : BOOLEAN, limit : Nat]

Literal == 0 .. Sigma - 1

VARIABLES
  setup,   \* the options of this run
  sent,    \* history: the text read by the compressor
  closed,  \* the compressor has finished
  dict, node, factors,             \* compressor; node is Dms before the first read
  wire,    \* the encoded factors
  pos, ddict, prev, counter, failed, \* decompressor; prev is `i`, Dms at the start
  got      \* what it has written

enc == <<dict, node, factors>>
dec == <<pos, ddict, prev, counter, failed, got>>
vars == <<setup, sent, closed, enc, wire, dec>>

Dms == IF setup.limit = 0 THEN DmsMax ELSE setup.limit

Init ==
  /\ setup \in Setups
  /\ sent = <<>> /\ closed = FALSE
  /\ dict = <<>> /\ node = Dms /\ factors = 0
  /\ wire = <<>>
  /\ pos = 0 /\ ddict = <<>> /\ prev = Dms /\ counter = 0 /\ failed = FALSE
  /\ got = <<>>

\* ULITERAL_MAX + 1 is Sigma.
EncodeFactor(id) == Encoded(setup.binary, id, factors + Sigma)

CompressFirst(c) ==
  /\ ~closed /\ sent = <<>> /\ MaxLen > 0
  /\ sent' = <<c>>
  /\ node' = c
  /\ UNCHANGED <<setup, closed, dict, factors, wire, dec>>

\* One iteration of the loop of compress.
CompressChar(c) ==
  /\ ~closed /\ sent # <<>> /\ Len(sent) < MaxLen
  /\ sent' = Append(sent, c)
  /\ IF HasChild(dict, node, c)
     THEN /\ node' = Child(dict, Sigma, node, c)
          /\ UNCHANGED <<dict, factors, wire>>
     ELSE LET reset == Size(dict, Sigma) + 1 = setup.limit
          IN  /\ wire' = wire \o EncodeFactor(node)
              /\ node' = c
              /\ dict' = IF reset THEN <<>> ELSE Insert(dict, node, c)
              /\ factors' = IF reset THEN 0 ELSE factors + 1
  /\ UNCHANGED <<setup, closed, dec>>

\* The end of the text: the current phrase; nothing for the empty text.
Finish ==
  /\ ~closed /\ closed' = TRUE
  /\ wire' = IF sent = <<>> THEN wire ELSE wire \o EncodeFactor(node)
  /\ factors' = IF sent = <<>> THEN factors ELSE factors + 1
  /\ UNCHANGED <<setup, sent, dict, node, dec>>

\* rebuild_string: follow the entries of d until the sentinel.
Rebuild(d, k) ==
  LET S[id \in 0 .. Size(d, Sigma) - 1] ==
        IF id = Dms THEN <<>>
        ELSE IF id < Sigma THEN <<id>>
        ELSE LET e == d[id - Sigma + 1] IN Append(IF e.parent = Dms THEN <<>> ELSE S[e.parent], e.c)
  IN  IF k = Dms THEN <<>> ELSE S[k]

\* front() of a string; of an empty one it is undefined.
Fronts(s) == IF s = <<>> THEN Literal ELSE {s[1]}

\* Mutants: the decoder forgets the previous factor when it resets; it never
\* resets.
CurrentForgets ==
  IF Size(ddict, Sigma) = Dms THEN [d |-> <<>>, counter |-> 0, prev |-> Dms]
                              ELSE [d |-> ddict, counter |-> counter, prev |-> prev]
CurrentEver == [d |-> ddict, counter |-> counter, prev |-> prev]

\* The decoder's state at the top of the loop: a full dictionary is emptied
\* and the callback restarts its counter, but the previous factor stays.
Current ==
  IF Size(ddict, Sigma) = Dms THEN [d |-> <<>>, counter |-> 0, prev |-> prev]
                              ELSE [d |-> ddict, counter |-> counter, prev |-> prev]

\* A code may be the entry that is completed by this very step.
Decodable(k, d) == k <= Size(d, Sigma)

\* One iteration of decode_step with its callback: decode a factor, complete
\* the entry of the previous one, write the phrase.
DecodeStep ==
  /\ closed /\ ~failed /\ pos < Len(wire)
  /\ LET cur == Current
         k == Decoded(setup.binary, wire, pos, cur.counter + Sigma)
         known == k.v < Size(cur.d, Sigma)
     IN  /\ pos' = k.next
         /\ counter' = cur.counter + 1
         /\ prev' = k.v
         /\ failed' = ~Decodable(k.v, cur.d)
         /\ IF ~Decodable(k.v, cur.d) THEN UNCHANGED <<ddict, got>>
            ELSE \E c \in Fronts(Rebuild(cur.d, IF known THEN k.v ELSE cur.prev)) :
                   /\ ddict' = IF known /\ cur.prev = Dms THEN cur.d
                               ELSE Insert(cur.d, cur.prev, c)
                   /\ got' = got \o Rebuild(ddict', k.v)
  /\ UNCHANGED <<setup, sent, closed, enc, wire>>

Next == \/ \E c \in Literal : CompressFirst(c) \/ CompressChar(c)
        \/ Finish \/ DecodeStep
SafeSpec == Init /\ [][Next]_vars
\* A decompressor that was started runs to the end of its input.
Spec == SafeSpec /\ WF_vars(DecodeStep)
-----------------------------------------------------------------------------
(* Properties *)

TypeOK ==
  /\ setup \in Setups
  /\ sent \in Seq(Literal) /\ got \in Seq(Literal)
  /\ closed \in BOOLEAN /\ failed \in BOOLEAN
  /\ IsTrie(dict, Sigma)
  /\ factors \in Nat /\ counter \in Nat
  /\ pos \in 0 .. Len(wire)
  /\ sent # <<>> => node \in 0 .. Size(dict, Sigma) - 1

\* The parse is greedy and complete: no two phrases are equal, and the phrases
\* of the factors, which are those of the inserted nodes' parents, together
\* with the phrase of the current node make up the text; the dictionary grows
\* with every factor (the DCHECK of compress).  (Without resets.)
ParsePartitions ==
  setup.limit = 0 =>
  LET P == Phrases(dict, Sigma, [id \in Literal |-> <<id>>])
      Cat[i \in 0 .. Len(dict)] ==
        IF i = 0 THEN <<>> ELSE Cat[i - 1] \o P[dict[i].parent]
  IN  /\ ~closed => Len(dict) = factors
      /\ sent # <<>> => Cat[Len(dict)] \o P[node] = sent
      /\ \A i, j \in DOMAIN P : P[i] = P[j] => i = j

\* What the decompressor has written is a prefix of the text.
RoundTrip == Len(got) <= Len(sent) /\ got = SubSeq(sent, 1, Len(got))

\* The encoder's parse is greedy and complete; the decoder, whose dictionary
\* lags by an entry and is bounded by dict_size, never meets a code it cannot
\* decode (DecompressFactor, lzw::decode_step).
DecoderKeepsUp ==
  /\ TypeOK
  /\ ParsePartitions
  /\ ~failed
  /\ setup.limit > Sigma => Size(ddict, Sigma) <= setup.limit

\* Compressor and decompressor implement the lossless channel.
Channel == INSTANCE LosslessChannel WITH Symbol <- Literal
ChannelSpec == Channel!Spec
=============================================================================
