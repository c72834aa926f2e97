---------------------------- MODULE StreamProofs ----------------------------
(***************************************************************************)
(* Proofs about the two pairs of streams of io/, each for inputs of any    *)
(* length: EscapeStream, the restricted adapters, for every pool and every *)
(* set of restrictions the pool suffices for, and BitStream, for every set *)
(* of bits the client writes.  What the reader of each delivers is what    *)
(* the writer was given, and each implements the lossless channel.         *)
(***************************************************************************)
EXTENDS EscapeStream, BitStream, DataProofs, SequenceTheorems

Contents == {0} \cup ToSet(Pool) \cup Byte

(***************************************************************************)
(* The inductive invariant, for a text of n bytes read so far, w bytes     *)
(* handed to the compressor and g bytes written at the other end.          *)
(***************************************************************************)
End(n) == Offset(restr, sent, n + 1)

\* All the adapter has pulled: what it has handed out and its two buffers.
Pull == [k \in Nat |-> IF k <= Len(wire) THEN wire[k]
                       ELSE IF k = Len(wire) + 1 THEN in.current ELSE in.charBuf]

\* How far the hand-out is behind the end of what was pulled.
InputInv(n, w) ==
  /\ in.charBuf # Eof => in.current # Eof /\ ~ended /\ ~in.ntDone /\ w + 2 = End(n)
  /\ in.charBuf = Eof /\ in.current # Eof /\ ~in.ntDone => ~ended /\ w + 1 = End(n)
  /\ in.ntDone =>
       /\ restr.null /\ ended /\ opened /\ Pull[End(n) + 1] = 0
       /\ in.current # Eof => w = End(n)
       /\ in.current = Eof => w = End(n) + 1
  /\ in.current = Eof /\ ~in.ntDone => w = End(n) /\ (opened => ended /\ ~restr.null)
  /\ ~opened => ~ended /\ in.current = Eof
  /\ Layout(restr, sent, n, Pull, 1)
  /\ \A i \in 1 .. End(n) : Pull[i] \notin restr.escape

\* c characters are taken from the wire, the last of which may be held back;
\* sawEscape: half of the next one, too.
Taken(n, g, c) ==
  /\ out.sawNull => restr.null /\ c = g + 1 /\ sent[g + 1] = 0
  /\ ~out.sawNull => c = g
  /\ out.sawEscape => c < n /\ sent[c + 1] \in Escaped(restr)
                      /\ taken = Offset(restr, sent, c + 1) + 1
  /\ ~out.sawEscape => taken = Offset(restr, sent, c + 1)

\* The terminator is taken, and held back.
AllTaken(n, g) ==
  in.ntDone /\ g = n /\ taken = End(n) + 1 /\ out.sawNull /\ ~out.sawEscape

OutputInv(n, g) ==
  /\ g <= n /\ Prefix(sent, got, g)
  /\ AllTaken(n, g) \/ \E c \in 0 .. n : Taken(n, g, c)

Good(n, w, g) ==
  /\ n = Len(sent) /\ w = Len(wire) /\ g = Len(got)
  /\ wire \in Seq(Contents) /\ got \in Seq(Byte)
  /\ in \in [charBuf : {Eof} \cup ToSet(Pool), ntDone : BOOLEAN, current : {Eof} \cup Contents]
  /\ TypeOK
  /\ InputInv(n, w) /\ OutputInv(n, g)

StreamInv == Good(Len(sent), Len(wire), Len(got))
-----------------------------------------------------------------------------
(* The input side.                                                         *)

LEMMA ContentsFacts ==
  /\ Byte \subseteq Contents /\ ToSet(Pool) \subseteq Contents /\ 0 \in Contents
  /\ Eof \notin Contents
  /\ \A r \in Restrictions : PoolSuffices(r)
<1>1. ToSet(Pool) \subseteq Nat
  BY PoolAssumption DEF ToSet
<1>2. Byte \subseteq Nat
  BY StreamAssumption
<1> QED
  BY <1>1, <1>2, StreamAssumption DEF Contents, Eof

\* Handing out a character, if there is one: afterwards v characters are
\* handed out, and what was pulled is behind them as it was.
HandedOut(n, v) ==
  /\ v = Len(wire') /\ wire' \in Seq(Contents) /\ opened'
  /\ \A i \in 1 .. v : wire'[i] = Pull[i]
  /\ v >= Len(wire)
  /\ in.charBuf # Eof => opened /\ ~ended /\ ~in.ntDone /\ v + 1 = End(n) /\ Pull[End(n)] = in.charBuf
  /\ in.charBuf = Eof /\ ~in.ntDone => ~ended /\ v = End(n)
  /\ in.ntDone => v = End(n) + 1

LEMMA HandOut ==
  ASSUME NEW n, NEW w, NEW g, Good(n, w, g), OpenInput \/ Uflow
  PROVE  /\ \E v \in Nat : HandedOut(n, v)
         /\ PullEscape(in) /\ UNCHANGED <<restr, taken, out, got>>
<1>0. /\ n \in Nat /\ w \in Nat /\ w = Len(wire) /\ wire \in Seq(Contents)
      /\ InputInv(n, w) /\ opened \in BOOLEAN
      /\ in.current \in {Eof} \cup Contents
  BY DEF Good, TypeOK
<1>1. PICK e \in Nat : e = End(n)
  <2>1. Offset(restr, sent, n + 1) \in Nat
    BY <1>0, OffsetBound
  <2> QED
    BY <2>1 DEF End
<1>2. /\ \A k \in 1 .. w : Pull[k] = wire[k]
      /\ Pull[w + 1] = in.current /\ Pull[w + 2] = in.charBuf
  <2>1. Pull = [k \in Nat |-> IF k <= w THEN wire[k]
                              ELSE IF k = w + 1 THEN in.current ELSE in.charBuf]
    BY <1>0 DEF Pull
  <2> QED
    BY <1>0, <2>1
<1>3. CASE OpenInput
  <2>1. ~opened /\ opened' /\ wire' = wire /\ PullEscape(in)
        /\ UNCHANGED <<restr, taken, out, got>>
    BY <1>3 DEF OpenInput
  <2>2. in.current = Eof /\ ~ended /\ in.charBuf = Eof /\ ~in.ntDone /\ w = e
    BY <1>0, <1>1, <2>1 DEF InputInv
  <2>3. HandedOut(n, w)
    BY <1>0, <1>1, <1>2, <2>1, <2>2 DEF HandedOut
  <2> QED
    BY <1>0, <2>1, <2>3
<1>4. CASE Uflow
  <2>1. opened /\ opened' /\ in.current # Eof /\ wire' = Append(wire, in.current)
        /\ PullEscape(in) /\ UNCHANGED <<restr, taken, out, got>>
    BY <1>4 DEF Uflow
  <2>2. /\ wire' \in Seq(Contents) /\ Len(wire') = w + 1
        /\ \A i \in 1 .. w : wire'[i] = wire[i]
        /\ wire'[w + 1] = in.current
    BY <1>0, <2>1
  <2>3. \A i \in 1 .. w + 1 : wire'[i] = Pull[i]
    <3>1. \A i \in 1 .. w + 1 : i \in 1 .. w \/ i = w + 1
      BY <1>0
    <3> QED
      BY <1>2, <2>2, <3>1
  <2>4. /\ in.charBuf # Eof => ~ended /\ ~in.ntDone /\ w + 2 = e /\ Pull[e] = in.charBuf
        /\ in.charBuf = Eof /\ ~in.ntDone => ~ended /\ w + 1 = e
        /\ in.ntDone => w = e
    BY <1>0, <1>1, <1>2, <2>1 DEF InputInv
  <2>5. w + 1 + 1 = w + 2 /\ w + 1 \in Nat /\ w + 1 >= w
    BY <1>0
  <2>6. HandedOut(n, w + 1)
    BY <1>0, <1>1, <2>1, <2>2, <2>3, <2>4, <2>5 DEF HandedOut
  <2> QED
    BY <2>1, <2>5, <2>6
<1> QED
  BY <1>3, <1>4

LEMMA PullNew ==
  ASSUME NEW n, NEW v \in Nat, HandedOut(n, v)
  PROVE  /\ \A k \in 1 .. v : Pull'[k] = Pull[k]
         /\ Pull'[v + 1] = in'.current /\ Pull'[v + 2] = in'.charBuf
<1>1. Pull' = [k \in Nat |-> IF k <= v THEN wire'[k]
                             ELSE IF k = v + 1 THEN in'.current ELSE in'.charBuf]
  BY DEF Pull, HandedOut
<1>2. \A k \in 1 .. v : wire'[k] = Pull[k]
  BY DEF HandedOut
<1>3. \A k \in 1 .. v : Pull'[k] = wire'[k]
  BY <1>1
<1>4. Pull'[v + 1] = in'.current /\ Pull'[v + 2] = in'.charBuf
  BY <1>1
<1> QED
  BY <1>2, <1>3, <1>4

\* Reading on does not disturb what was written.
LEMMA OutputKept ==
  ASSUME NEW n \in Nat, NEW m \in Nat, NEW g \in Nat, n <= m, OutputInv(n, g),
         \A i \in 1 .. n : sent'[i] = sent[i],
         in.ntDone => in'.ntDone /\ m = n /\ sent' = sent,
         UNCHANGED <<restr, taken, out, got>>
  PROVE  OutputInv(m, g)'
<1>1. g <= n /\ g <= m /\ Prefix(sent', got', g)
  <2>1. \A i \in 1 .. g : i \in 1 .. n
    BY DEF OutputInv
  <2> QED
    BY <2>1 DEF OutputInv, Prefix
<1>2. CASE AllTaken(n, g)
  <2>1. AllTaken(m, g)'
    BY <1>2 DEF AllTaken, End
  <2> QED
    BY <1>1, <2>1 DEF OutputInv
<1>3. ASSUME NEW c \in 0 .. n, Taken(n, g, c)
      PROVE  Taken(m, g, c)'
  <2>1. \A i \in 1 .. c : i \in 1 .. n
    OBVIOUS
  <2>2. Offset(restr, sent', c + 1) = Offset(restr, sent, c + 1)
    <3>1. \A i \in 1 .. c : sent'[i] = sent[i]
      BY <2>1
    <3>2. c \in Nat
      OBVIOUS
    <3> QED
      BY <3>1, <3>2, OffsetSame
  <2>3. c < n => c < m /\ sent'[c + 1] = sent[c + 1]
    <3>1. c < n => c + 1 \in 1 .. n /\ c < m
      OBVIOUS
    <3> QED
      BY <3>1
  <2>4. out.sawNull => sent'[g + 1] = sent[g + 1]
    <3>1. out.sawNull => g + 1 \in 1 .. n
      BY <1>3 DEF Taken
    <3> QED
      BY <3>1
  <2>5. restr' = restr /\ taken' = taken /\ out' = out
    OBVIOUS
  <2> QED
    BY <1>3, <2>2, <2>3, <2>4, <2>5 DEF Taken
<1>4. \A c \in 0 .. n : c \in 0 .. m
  OBVIOUS
<1> QED
  BY <1>1, <1>2, <1>3, <1>4 DEF OutputInv

\* Both buffers of the adapter after a pull.
LEMMA PulledGood ==
  ASSUME NEW n, NEW w, NEW g, NEW m \in Nat, NEW v \in Nat, Good(n, w, g),
         HandedOut(n, v), v = Len(wire'), n <= m, m = Len(sent'), sent' \in Seq(Byte),
         \A i \in 1 .. n : sent'[i] = sent[i],
         in.ntDone => in'.ntDone /\ m = n /\ sent' = sent,
         restr' = restr, taken' = taken, out' = out, got' = got, ended' \in BOOLEAN,
         in' \in [charBuf : {Eof} \cup ToSet(Pool), ntDone : BOOLEAN, current : {Eof} \cup Contents],
         InputInv(m, v)'
  PROVE  Good(m, v, g)'
<1>1. n \in Nat /\ g \in Nat /\ g = Len(got) /\ w = Len(wire) /\ OutputInv(n, g)
      /\ taken \in 0 .. w /\ w \in Nat /\ got \in Seq(Byte)
  BY DEF Good, TypeOK
<1>2. OutputInv(m, g)'
  BY <1>1, OutputKept
<1>3. v >= w /\ wire' \in Seq(Contents) /\ opened' \in BOOLEAN
  BY <1>1 DEF HandedOut
<1>4. taken' \in 0 .. v
  BY <1>1, <1>3
<1>5. in'.charBuf \in {Eof} \cup ToSet(Pool) /\ in'.ntDone \in BOOLEAN
      /\ in'.current \in {Eof, 0} \cup ToSet(Pool) \cup Byte
  BY DEF Contents
<1>6. TypeOK'
  BY <1>3, <1>4, <1>5 DEF Good, TypeOK
<1> QED
  BY <1>1, <1>2, <1>3, <1>6 DEF Good

\* A pull that adds nothing to the text leaves what was pulled as it is.
LEMMA PullKept ==
  ASSUME NEW n \in Nat, NEW w, NEW e \in Nat, e = End(n), InputInv(n, w), sent' = sent, restr' = restr,
         \A k \in 1 .. e : Pull'[k] = Pull[k]
  PROVE  /\ End(n)' = e /\ Layout(restr', sent', n, Pull', 1)
         /\ \A i \in 1 .. e : Pull'[i] \notin restr'.escape
<1>1. Layout(restr, sent, n, Pull, 1) /\ \A i \in 1 .. e : Pull[i] \notin restr.escape
  BY DEF InputInv
<1>2. \A k \in Nat : k > 0 /\ k <= Offset(restr, sent, n + 1) => Pull'[k] = Pull[k]
  BY DEF End
<1>3. Layout(restr, sent, n, Pull', 1)
  BY <1>1, <1>2, LayoutExtends
<1> QED
  BY <1>1, <1>3 DEF End

\* The buffered half of a pair moves up.
LEMMA PullBuffered ==
  ASSUME NEW n, NEW w, NEW g, NEW v \in Nat, Good(n, w, g), HandedOut(n, v),
         UNCHANGED <<restr, taken, out, got, sent, ended>>, in.charBuf # Eof,
         in' = [in EXCEPT !.charBuf = Eof, !.current = in.charBuf]
  PROVE  Good(n, v, g)'
<1>0. n \in Nat /\ InputInv(n, w) /\ n = Len(sent) /\ ended \in BOOLEAN
      /\ sent \in Seq(Byte)
      /\ in \in [charBuf : {Eof} \cup ToSet(Pool), ntDone : BOOLEAN, current : {Eof} \cup Contents]
  BY DEF Good, TypeOK
<1>1. PICK e \in Nat : e = End(n)
  <2>1. Offset(restr, sent, n + 1) \in Nat
    BY <1>0, OffsetBound
  <2> QED
    BY <2>1 DEF End
<1>2. opened' /\ v = Len(wire') /\ ~ended /\ ~in.ntDone /\ v + 1 = e /\ Pull[e] = in.charBuf
  BY <1>1 DEF HandedOut
<1>3. /\ in'.charBuf = Eof /\ in'.current = in.charBuf /\ in'.ntDone = in.ntDone
      /\ in' \in [charBuf : {Eof} \cup ToSet(Pool), ntDone : BOOLEAN, current : {Eof} \cup Contents]
  BY <1>0, ContentsFacts
<1>4. \A k \in 1 .. e : Pull'[k] = Pull[k]
  <2>1. \A k \in 1 .. e : k \in 1 .. v \/ k = v + 1
    BY <1>2
  <2> QED
    BY <1>2, <1>3, <2>1, PullNew
<1>5. /\ End(n)' = e /\ Layout(restr', sent', n, Pull', 1)
      /\ \A i \in 1 .. e : Pull'[i] \notin restr'.escape
  BY <1>0, <1>1, <1>4, PullKept
<1>6. InputInv(n, v)'
  BY <1>2, <1>3, <1>5 DEF InputInv
<1>7. /\ n <= n /\ v = Len(wire') /\ n = Len(sent') /\ sent' \in Seq(Byte)
      /\ \A i \in 1 .. n : sent'[i] = sent[i]
      /\ in.ntDone => in'.ntDone /\ n = n /\ sent' = sent
      /\ restr' = restr /\ taken' = taken /\ out' = out /\ got' = got /\ ended' \in BOOLEAN
  BY <1>0, <1>2, <1>3
<1> QED
  BY <1>0, <1>3, <1>6, <1>7, PulledGood

\* What follows the end of the text: the terminator, once, or nothing.
LEMMA PullEnded ==
  ASSUME NEW n, NEW w, NEW g, NEW v \in Nat, Good(n, w, g), HandedOut(n, v),
         UNCHANGED <<restr, taken, out, got, sent>>, in.charBuf = Eof,
         ended' = TRUE, in' = PullEnd(in)
  PROVE  Good(n, v, g)'
<1>0. n \in Nat /\ InputInv(n, w) /\ n = Len(sent) /\ sent \in Seq(Byte)
      /\ restr.null \in BOOLEAN
      /\ in \in [charBuf : {Eof} \cup ToSet(Pool), ntDone : BOOLEAN, current : {Eof} \cup Contents]
  BY ContentsFacts DEF Good, TypeOK, PoolSuffices
<1>1. PICK e \in Nat : e = End(n)
  <2>1. Offset(restr, sent, n + 1) \in Nat
    BY <1>0, OffsetBound
  <2> QED
    BY <2>1 DEF End
<1>2. /\ opened' /\ v = Len(wire')
      /\ ~in.ntDone => v = e
      /\ in.ntDone => v = e + 1
  BY <1>1 DEF HandedOut
<1>3. \A k \in 1 .. e : Pull'[k] = Pull[k]
  <2>1. \A k \in 1 .. e : k \in 1 .. v
    BY <1>2
  <2> QED
    BY <2>1, PullNew
<1>4. /\ End(n)' = e /\ Layout(restr', sent', n, Pull', 1)
      /\ \A i \in 1 .. e : Pull'[i] \notin restr'.escape
  BY <1>0, <1>1, <1>3, PullKept
<1>7. /\ n <= n /\ v = Len(wire') /\ n = Len(sent') /\ sent' \in Seq(Byte)
      /\ \A i \in 1 .. n : sent'[i] = sent[i]
      /\ restr' = restr /\ taken' = taken /\ out' = out /\ got' = got /\ ended' \in BOOLEAN
  BY <1>0, <1>2
<1>5. CASE restr.null /\ ~in.ntDone
  <2>1. /\ in'.charBuf = Eof /\ in'.current = 0 /\ in'.ntDone
        /\ in' \in [charBuf : {Eof} \cup ToSet(Pool), ntDone : BOOLEAN, current : {Eof} \cup Contents]
    BY <1>0, <1>5, ContentsFacts DEF PullEnd
  <2>2. 0 # Eof
    BY ContentsFacts
  <2>3. Pull'[e + 1] = 0
    BY <1>2, <1>5, <2>1, PullNew
  <2>4. InputInv(n, v)'
    BY <1>2, <1>4, <1>5, <2>1, <2>2, <2>3 DEF InputInv
  <2>5. in.ntDone => in'.ntDone /\ n = n /\ sent' = sent
    BY <1>5, <2>1
  <2> QED
    BY <1>0, <1>7, <2>1, <2>4, <2>5, PulledGood
<1>6. CASE ~(restr.null /\ ~in.ntDone)
  <2>1. /\ in'.charBuf = Eof /\ in'.current = Eof /\ in'.ntDone = in.ntDone
        /\ in' \in [charBuf : {Eof} \cup ToSet(Pool), ntDone : BOOLEAN, current : {Eof} \cup Contents]
    BY <1>0, <1>6 DEF PullEnd
  <2>2. in.ntDone => restr.null /\ Pull[e + 1] = 0
    BY <1>0, <1>1 DEF InputInv
  <2>3. in.ntDone => Pull'[e + 1] = 0
    <3>1. in.ntDone => e + 1 \in 1 .. v
      BY <1>2
    <3> QED
      BY <2>2, <3>1, PullNew
  <2>4. InputInv(n, v)'
    BY <1>2, <1>4, <1>6, <2>1, <2>2, <2>3 DEF InputInv
  <2>5. in.ntDone => in'.ntDone /\ n = n /\ sent' = sent
    BY <2>1
  <2> QED
    BY <1>0, <1>7, <2>1, <2>4, <2>5, PulledGood
<1> QED
  BY <1>5, <1>6

\* The next byte of the text, or the first half of its pair.
LEMMA PullNext ==
  ASSUME NEW n, NEW w, NEW g, NEW v \in Nat, Good(n, w, g), HandedOut(n, v),
         UNCHANGED <<restr, taken, out, got, ended>>, in.charBuf = Eof, ~ended,
         NEW b \in Byte, sent' = Append(sent, b), in' = PullByte(in, b)
  PROVE  Good(n + 1, v, g)'
<1>0. n \in Nat /\ n + 1 \in Nat /\ n <= n + 1 /\ InputInv(n, w) /\ n = Len(sent) /\ sent \in Seq(Byte)
      /\ restr \in Restrictions /\ ended \in BOOLEAN
      /\ in \in [charBuf : {Eof} \cup ToSet(Pool), ntDone : BOOLEAN, current : {Eof} \cup Contents]
  BY DEF Good, TypeOK
<1>1. PICK e \in Nat : e = End(n) /\ e = Offset(restr, sent, n + 1)
  <2>1. Offset(restr, sent, n + 1) \in Nat
    BY <1>0, OffsetBound
  <2> QED
    BY <2>1 DEF End
<1>2. ~in.ntDone
  BY DEF InputInv, Good
<1>3. opened' /\ v = Len(wire') /\ v = e
  BY <1>1, <1>2 DEF HandedOut
<1>4. /\ sent' \in Seq(Byte) /\ Len(sent') = n + 1 /\ sent'[n + 1] = b
      /\ \A i \in 1 .. n : sent'[i] = sent[i]
  BY <1>0
<1>5. /\ \A k \in 1 .. e : Pull'[k] = Pull[k]
      /\ Pull'[e + 1] = in'.current /\ Pull'[e + 2] = in'.charBuf
  BY <1>3, PullNew
<1>6. Offset(restr, sent', n + 1) = e
  BY <1>0, <1>1, <1>4, OffsetSame, ZenonT(40)
<1>7. PoolSuffices(restr) /\ b # Eof /\ b \in Contents
  BY <1>0, ContentsFacts
<1>8. /\ Layout(restr, sent, n, Pull, 1)
      /\ \A i \in 1 .. e : Pull[i] \notin restr.escape
  BY <1>0, <1>1 DEF InputInv
<1>9. Layout(restr, sent', n, Pull', 1)
  <2>1. \A k \in Nat : k > 0 /\ k <= Offset(restr, sent, n + 1) => Pull'[k] = Pull[k]
    BY <1>1, <1>5
  <2>2. n \in Nat /\ (\A i \in 1 .. n : sent'[i] = sent[i]) /\ Layout(restr, sent, n, Pull, 1)
    BY <1>0, <1>4, <1>8
  <2> QED
    BY <2>1, <2>2, LayoutExtends, ZenonT(40)
<1>10. ASSUME Shows(restr, b, Pull', e)
       PROVE  Layout(restr, sent', n + 1, Pull', 1)
  <2>1. \A i \in 1 .. n + 1 : i \in 1 .. n \/ i = n + 1
    BY <1>0
  <2> QED
    BY <1>4, <1>6, <1>9, <1>10, <2>1 DEF Layout
<1>13. /\ v = Len(wire') /\ n + 1 = Len(sent') /\ sent' \in Seq(Byte)
       /\ \A i \in 1 .. n : sent'[i] = sent[i]
       /\ in.ntDone => in'.ntDone /\ n + 1 = n /\ sent' = sent
       /\ restr' = restr /\ taken' = taken /\ out' = out /\ got' = got /\ ended' \in BOOLEAN
  BY <1>0, <1>2, <1>3, <1>4
<1>11. CASE b \in Escaped(restr)
  <2>1. /\ EscapeByte(restr) \in ToSet(Pool) /\ Replacement(restr)[b] \in ToSet(Pool)
        /\ EscapeByte(restr) \notin restr.escape /\ Replacement(restr)[b] \notin restr.escape
        /\ EscapeByte(restr) # Eof /\ Replacement(restr)[b] # Eof
        /\ EscapeByte(restr) \in Contents
    BY <1>7, <1>11, CodeFacts, ContentsFacts
  <2>2. /\ in'.charBuf = Replacement(restr)[b] /\ in'.current = EscapeByte(restr)
        /\ in'.ntDone = in.ntDone
        /\ in' \in [charBuf : {Eof} \cup ToSet(Pool), ntDone : BOOLEAN, current : {Eof} \cup Contents]
    BY <1>0, <1>11, <2>1 DEF PullByte
  <2>3. Shows(restr, b, Pull', e)
    BY <1>5, <1>11, <2>2 DEF Shows
  <2>4. End(n + 1)' = e + 2
    <3>1. n + 1 \in Nat \ {0}
      BY <1>0
    <3>2. Offset(restr, sent', n + 1 + 1) = Offset(restr, sent', n + 1) + 2
      BY <1>4, <1>11, <3>1, OffsetNext
    <3> QED
      BY <1>6, <3>2 DEF End
  <2>5. \A i \in 1 .. e + 2 : Pull'[i] \notin restr.escape
    <3>1. \A i \in 1 .. e + 2 : i \in 1 .. e \/ i = e + 1 \/ i = e + 2
      BY <1>1
    <3> QED
      BY <1>5, <1>8, <2>1, <2>2, <3>1
  <2>6. InputInv(n + 1, v)'
    BY <1>2, <1>3, <1>10, <2>1, <2>2, <2>3, <2>4, <2>5 DEF InputInv
  <2> QED
    BY <1>0, <1>13, <2>2, <2>6, PulledGood
<1>12. CASE b \notin Escaped(restr)
  <2>1. b \notin restr.escape
    BY <1>7, <1>12, PlainFacts
  <2>2. /\ in'.charBuf = Eof /\ in'.current = b
        /\ in'.ntDone = in.ntDone
        /\ in' \in [charBuf : {Eof} \cup ToSet(Pool), ntDone : BOOLEAN, current : {Eof} \cup Contents]
    BY <1>0, <1>7, <1>12 DEF PullByte
  <2>3. Shows(restr, b, Pull', e)
    BY <1>5, <1>12, <2>2 DEF Shows
  <2>4. End(n + 1)' = e + 1
    <3>1. n + 1 \in Nat \ {0}
      BY <1>0
    <3>2. Offset(restr, sent', n + 1 + 1) = Offset(restr, sent', n + 1) + 1
      BY <1>4, <1>12, <3>1, OffsetNext
    <3> QED
      BY <1>6, <3>2 DEF End
  <2>5. \A i \in 1 .. e + 1 : Pull'[i] \notin restr.escape
    <3>1. \A i \in 1 .. e + 1 : i \in 1 .. e \/ i = e + 1
      BY <1>1
    <3> QED
      BY <1>5, <1>8, <2>1, <2>2, <3>1
  <2>6. InputInv(n + 1, v)'
    BY <1>2, <1>3, <1>7, <1>10, <2>1, <2>2, <2>3, <2>4, <2>5 DEF InputInv
  <2> QED
    BY <1>0, <1>13, <2>2, <2>6, PulledGood
<1> QED
  BY <1>11, <1>12

LEMMA PullGood ==
  ASSUME NEW n, NEW w, NEW g, Good(n, w, g), OpenInput \/ Uflow
  PROVE  \E m, v \in Nat : Good(m, v, g)'
<1>1. PICK v \in Nat : HandedOut(n, v)
  BY HandOut
<1>2. PullEscape(in) /\ UNCHANGED <<restr, taken, out, got>>
  BY HandOut
<1>3. n \in Nat /\ n + 1 \in Nat
  BY DEF Good, TypeOK
<1>4. CASE in.charBuf # Eof
  <2>1. in' = [in EXCEPT !.charBuf = Eof, !.current = in.charBuf] /\ UNCHANGED <<sent, ended>>
    BY <1>2, <1>4 DEF PullEscape
  <2> QED
    BY <1>1, <1>2, <1>3, <1>4, <2>1, PullBuffered
<1>5. CASE in.charBuf = Eof
  <2>1. \/ ~ended /\ UNCHANGED ended /\ \E b \in Byte : sent' = Append(sent, b) /\ in' = PullByte(in, b)
        \/ ended' = TRUE /\ in' = PullEnd(in) /\ UNCHANGED sent
    BY <1>2, <1>5 DEF PullEscape
  <2>2. CASE ~ended /\ UNCHANGED ended /\ \E b \in Byte : sent' = Append(sent, b) /\ in' = PullByte(in, b)
    <3>1. PICK b \in Byte : sent' = Append(sent, b) /\ in' = PullByte(in, b)
      BY <2>2
    <3> QED
      BY <1>1, <1>2, <1>3, <1>5, <2>2, <3>1, PullNext
  <2>3. CASE ended' = TRUE /\ in' = PullEnd(in) /\ UNCHANGED sent
    BY <1>1, <1>2, <1>3, <1>5, <2>3, PullEnded
  <2> QED
    BY <2>1, <2>2, <2>3
<1> QED
  BY <1>4, <1>5
-----------------------------------------------------------------------------
(* The output side.                                                        *)

LEMMA PrefixGrows ==
  ASSUME NEW t, NEW s \in Seq(Byte), NEW k \in Nat, k = Len(s), Prefix(t, s, k),
         NEW b \in Byte, t[k + 1] = b
  PROVE  /\ s \o <<b>> \in Seq(Byte) /\ Len(s \o <<b>>) = k + 1
         /\ Prefix(t, s \o <<b>>, k + 1)
<1>1. s \o <<b>> = Append(s, b)
  OBVIOUS
<1>2. /\ Append(s, b) \in Seq(Byte) /\ Len(Append(s, b)) = k + 1
      /\ \A i \in 1 .. k : Append(s, b)[i] = s[i]
      /\ Append(s, b)[k + 1] = b
  OBVIOUS
<1>3. \A i \in 1 .. k + 1 : i \in 1 .. k \/ i = k + 1
  OBVIOUS
<1> QED
  BY <1>1, <1>2, <1>3 DEF Prefix

\* The 0 that is held back is a character of the text.
Held == IF out.sawNull THEN <<0>> ELSE <<>>

LEMMA HeldFacts ==
  ASSUME NEW n, NEW w, NEW g, Good(n, w, g), NEW c \in 0 .. n, Taken(n, g, c)
  PROVE  /\ got \o Held \in Seq(Byte) /\ Len(got \o Held) = c
         /\ Prefix(sent, got \o Held, c)
<1>0. /\ n \in Nat /\ n = Len(sent) /\ sent \in Seq(Byte) /\ g \in Nat /\ g = Len(got)
      /\ got \in Seq(Byte) /\ Prefix(sent, got, g)
  BY DEF Good, TypeOK, OutputInv
<1>1. CASE out.sawNull
  <2>1. c = g + 1 /\ sent[g + 1] = 0
    BY <1>1 DEF Taken
  <2>2. g + 1 \in 1 .. n
    BY <1>0, <2>1
  <2>3. 0 \in Byte
    BY <1>0, <2>1, <2>2
  <2>4. Held = <<0>>
    BY <1>1 DEF Held
  <2> QED
    BY <1>0, <2>1, <2>3, <2>4, PrefixGrows
<1>2. CASE ~out.sawNull
  <2>1. c = g /\ Held = <<>>
    BY <1>2 DEF Taken, Held
  <2>2. got \o <<>> = got
    BY <1>0
  <2> QED
    BY <1>0, <2>1, <2>2
<1> QED
  BY <1>1, <1>2

\* A push leaves the input side alone.
LEMMA PushedGood ==
  ASSUME NEW n, NEW w, NEW g, NEW h, Good(n, w, g), taken < Len(wire), taken' = taken + 1,
         UNCHANGED <<restr, opened, sent, ended, in, wire>>,
         h = Len(got'), got' \in Seq(Byte),
         out' \in [sawEscape : BOOLEAN, sawNull : BOOLEAN],
         OutputInv(n, h)'
  PROVE  Good(n, w, h)'
<1>1. InputInv(n, w)'
  BY DEF Good, InputInv, End, Pull
<1>2. taken' \in 0 .. Len(wire')
  <2>1. Len(wire) \in Nat /\ taken \in 0 .. Len(wire)
    BY DEF Good, TypeOK
  <2> QED
    BY <2>1
<1>3. TypeOK'
  BY <1>2 DEF Good, TypeOK
<1> QED
  BY <1>1, <1>3 DEF Good

Outs == [sawEscape : BOOLEAN, sawNull : BOOLEAN]

LEMMA PushFacts ==
  ASSUME NEW ch, PushUnescape(ch), out \in Outs
  PROVE  /\ out.sawEscape =>
              /\ out' \in Outs /\ ~out'.sawEscape /\ ~out'.sawNull
              /\ got' = (got \o Held) \o <<Unreplace(restr, ch)>>
         /\ ~out.sawEscape /\ HasEscapeRestrictions(restr) /\ ch = EscapeByte(restr) =>
              /\ out' \in Outs /\ out'.sawEscape /\ out'.sawNull = out.sawNull
              /\ got' = got
         /\ ~out.sawEscape /\ ~(HasEscapeRestrictions(restr) /\ ch = EscapeByte(restr)) =>
              /\ out' \in Outs /\ ~out'.sawEscape
              /\ ch = 0 /\ restr.null => out'.sawNull /\ got' = (got \o Held) \o <<>>
              /\ ~(ch = 0 /\ restr.null) => ~out'.sawNull /\ got' = (got \o Held) \o <<ch>>
<1>1. CASE out.sawEscape
  <2>1. /\ out' = [sawEscape |-> FALSE, sawNull |-> FALSE]
        /\ got' = (got \o Held) \o <<Unreplace(restr, ch)>>
    BY <1>1, Zenon DEF PushUnescape, Held
  <2> QED
    BY <1>1, <2>1 DEF Outs
<1>2. CASE ~out.sawEscape /\ HasEscapeRestrictions(restr) /\ ch = EscapeByte(restr)
  <2>1. out' = [out EXCEPT !.sawEscape = TRUE] /\ got' = got
    BY <1>2, Zenon DEF PushUnescape
  <2> QED
    BY <1>2, <2>1 DEF Outs
<1>3. CASE ~out.sawEscape /\ ~(HasEscapeRestrictions(restr) /\ ch = EscapeByte(restr))
  <2>1. /\ out' = [out EXCEPT !.sawNull = (ch = 0 /\ restr.null)]
        /\ got' = (got \o Held) \o (IF ch = 0 /\ restr.null THEN <<>> ELSE <<ch>>)
    BY <1>3, Zenon DEF PushUnescape, Held
  <2>2. out'.sawNull = (ch = 0 /\ restr.null) /\ out'.sawEscape = out.sawEscape /\ out' \in Outs
    BY <2>1 DEF Outs
  <2>3. CASE ch = 0 /\ restr.null
    BY <1>3, <2>1, <2>2, <2>3, Zenon
  <2>4. CASE ~(ch = 0 /\ restr.null)
    BY <1>3, <2>1, <2>2, <2>4, Zenon
  <2> QED
    BY <2>3, <2>4
<1> QED
  BY <1>1, <1>2, <1>3, Zenon

\* How the position of the output side reads: what it takes next is what was
\* pulled there, and it has not passed the text.
LEMMA NextTaken ==
  ASSUME NEW n, NEW w, NEW g, Good(n, w, g), taken < Len(wire)
  PROVE  /\ \E c \in 0 .. n : Taken(n, g, c)
         /\ taken \in Nat /\ taken + 1 \in 1 .. w /\ wire[taken + 1] = Pull[taken + 1]
         /\ taken + 1 <= End(n) \/ (in.ntDone /\ taken = End(n) /\ Pull[taken + 1] = 0)
<1>0. /\ n \in Nat /\ w \in Nat /\ w = Len(wire) /\ taken \in Nat /\ taken < w
      /\ InputInv(n, w) /\ OutputInv(n, g)
  BY DEF Good, TypeOK
<1>1. PICK e \in Nat : e = End(n)
  <2>1. Offset(restr, sent, n + 1) \in Nat
    BY <1>0, OffsetBound
  <2> QED
    BY <2>1 DEF End
<1>2. w <= e \/ (in.ntDone /\ w = e + 1 /\ Pull[e + 1] = 0)
  <2>1. in.charBuf # Eof => w + 2 = e
    BY <1>0, <1>1 DEF InputInv
  <2>2. in.charBuf = Eof /\ in.current # Eof /\ ~in.ntDone => w + 1 = e
    BY <1>0, <1>1 DEF InputInv
  <2>3. in.ntDone => (w = e \/ w = e + 1) /\ Pull[e + 1] = 0
    BY <1>0, <1>1 DEF InputInv
  <2>4. in.current = Eof /\ ~in.ntDone => w = e
    BY <1>0, <1>1 DEF InputInv
  <2> QED
    BY <1>0, <2>1, <2>2, <2>3, <2>4
<1>3. wire[taken + 1] = Pull[taken + 1] /\ taken + 1 \in 1 .. w
  <2>1. taken + 1 \in Nat /\ taken + 1 <= Len(wire) /\ taken + 1 \in 1 .. w
    BY <1>0
  <2> QED
    BY <2>1 DEF Pull
<1>4. ~AllTaken(n, g)
  BY <1>0, <1>1, <1>2 DEF AllTaken
<1>5. taken + 1 <= e \/ (in.ntDone /\ taken = e /\ Pull[taken + 1] = 0)
  BY <1>0, <1>2
<1> QED
  BY <1>0, <1>1, <1>3, <1>4, <1>5 DEF OutputInv

LEMMA OverflowGood ==
  ASSUME NEW n, NEW w, NEW g, Good(n, w, g), Overflow
  PROVE  \E h \in Nat : g <= h /\ (h = g => got' = got) /\ Good(n, w, h)'
<1> DEFINE ch == wire[taken + 1]
<1>0. /\ n \in Nat /\ n = Len(sent) /\ sent \in [1 .. n -> Byte] /\ g \in Nat /\ g = Len(got) /\ g <= n
      /\ got \in Seq(Byte) /\ Prefix(sent, got, g) /\ out \in Outs
      /\ Layout(restr, sent, n, Pull, 1) /\ PoolSuffices(restr)
  BY ContentsFacts DEF Good, TypeOK, OutputInv, InputInv, Outs
<1>1. /\ taken < Len(wire) /\ taken' = taken + 1 /\ PushUnescape(ch)
      /\ UNCHANGED <<restr, opened, sent, ended, in, wire>>
  BY DEF Overflow
<1>2. PICK e \in Nat : e = Offset(restr, sent, n + 1) /\ End(n) = e
  <2>1. Offset(restr, sent, n + 1) \in Nat
    BY <1>0, OffsetBound
  <2> QED
    BY <2>1 DEF End
<1>3. /\ taken \in Nat /\ ch = Pull[taken + 1]
      /\ taken + 1 <= e \/ (in.ntDone /\ taken = e /\ ch = 0)
  BY <1>1, <1>2, NextTaken
<1>4. PICK c \in 0 .. n : Taken(n, g, c)
  BY <1>1, NextTaken
<1>5. PICK s \in Seq(Byte) : s = got \o Held /\ Len(s) = c /\ Prefix(sent, s, c)
  <2>1. /\ got \o Held \in Seq(Byte) /\ Len(got \o Held) = c
        /\ Prefix(sent, got \o Held, c)
    BY <1>4, HeldFacts
  <2> QED
    BY <2>1, Zenon
<1>6. /\ c \in Nat /\ g <= c /\ c <= n /\ s \o <<>> = s
      /\ c = g => ~out.sawNull /\ s = got
  <2>1. g <= c /\ (c = g => ~out.sawNull)
    BY <1>0, <1>4 DEF Taken
  <2>2. ~out.sawNull => s = got
    <3>1. got \o <<>> = got
      BY <1>0
    <3> QED
      BY <1>5, <3>1 DEF Held
  <2> QED
    BY <1>0, <1>5, <2>1, <2>2
\* The next character of the text, as far as there is one.
<1>7. ASSUME c < n
      PROVE  /\ c + 1 \in 1 .. n /\ c + 1 \in 0 .. n /\ sent[c + 1] \in Byte
             /\ Shows(restr, sent[c + 1], Pull, Offset(restr, sent, c + 1))
             /\ Offset(restr, sent, c + 1) \in Nat
             /\ sent[c + 1] \in Escaped(restr) =>
                  Offset(restr, sent, (c + 1) + 1) = Offset(restr, sent, c + 1) + 2
             /\ sent[c + 1] \notin Escaped(restr) =>
                  Offset(restr, sent, (c + 1) + 1) = Offset(restr, sent, c + 1) + 1
             /\ s \o <<sent[c + 1]>> \in Seq(Byte) /\ Len(s \o <<sent[c + 1]>>) = c + 1
             /\ Prefix(sent, s \o <<sent[c + 1]>>, c + 1)
  <2>1. c + 1 \in 1 .. n /\ c + 1 \in 0 .. n /\ c + 1 \in Nat \ {0}
    BY <1>0, <1>7
  <2>2. sent[c + 1] \in Byte
    BY <1>0, <2>1
  <2> QED
    <3>1. Shows(restr, sent[c + 1], Pull, Offset(restr, sent, c + 1))
      BY <1>0, <2>1 DEF Layout
    <3>2. /\ Offset(restr, sent, c + 1) \in Nat
          /\ sent[c + 1] \in Escaped(restr) =>
               Offset(restr, sent, (c + 1) + 1) = Offset(restr, sent, c + 1) + 2
          /\ sent[c + 1] \notin Escaped(restr) =>
               Offset(restr, sent, (c + 1) + 1) = Offset(restr, sent, c + 1) + 1
      BY <2>1, OffsetNext
    <3>3. PICK b \in Byte : b = sent[c + 1]
      BY <2>2
    <3>4. /\ s \o <<b>> \in Seq(Byte) /\ Len(s \o <<b>>) = c + 1
          /\ Prefix(sent, s \o <<b>>, c + 1)
      <4>1. c \in Nat /\ c = Len(s) /\ sent[c + 1] = b
        BY <1>5, <1>6, <3>3
      <4> QED
        BY <1>5, <4>1, PrefixGrows
    <3> QED
      BY <2>1, <2>2, <3>1, <3>2, <3>3, <3>4
\* The step delivers h characters and has taken d.
<1>8. ASSUME NEW h \in Nat, g <= h, h <= n, h = g => got' = got,
             got' \in Seq(Byte), Len(got') = h, Prefix(sent, got', h), out' \in Outs,
             AllTaken(n, h)' \/ \E d \in 0 .. n : Taken(n, h, d)'
      PROVE  \E k \in Nat : g <= k /\ (k = g => got' = got) /\ Good(n, w, k)'
  <2>1. OutputInv(n, h)'
    BY <1>1, <1>8 DEF OutputInv
  <2>2. Good(n, w, h)'
    BY <1>1, <1>8, <2>1, PushedGood DEF Outs
  <2> QED
    BY <1>8, <2>2
<1> HIDE DEF ch
<1>9. CASE out.sawEscape
  <2>1. /\ c < n /\ sent[c + 1] \in Escaped(restr)
        /\ taken = Offset(restr, sent, c + 1) + 1
    BY <1>4, <1>9 DEF Taken
  <2>2. ch = Replacement(restr)[sent[c + 1]]
    <3>1. Pull[Offset(restr, sent, c + 1) + 2] = Replacement(restr)[sent[c + 1]]
      BY <1>7, <2>1 DEF Shows
    <3>2. taken + 1 = Offset(restr, sent, c + 1) + 2
      BY <1>7, <2>1
    <3> QED
      BY <1>3, <3>1, <3>2
  <2>3. Unreplace(restr, ch) = sent[c + 1]
    BY <1>0, <2>1, <2>2, CodeFacts
  <2>4. /\ out' \in Outs /\ ~out'.sawEscape /\ ~out'.sawNull
        /\ got' = s \o <<sent[c + 1]>>
    BY <1>0, <1>1, <1>5, <1>9, <2>3, PushFacts
  <2>5. taken' = Offset(restr, sent, (c + 1) + 1)
    BY <1>1, <1>7, <2>1
  <2>6. Taken(n, c + 1, c + 1)'
    BY <1>1, <2>4, <2>5 DEF Taken
  <2>7. c + 1 \in Nat /\ g <= c + 1 /\ c + 1 <= n /\ c + 1 # g
    BY <1>0, <1>6, <2>1
  <2> QED
    BY <1>7, <1>8, <2>1, <2>4, <2>6, <2>7
<1>10. CASE ~out.sawEscape /\ c < n
  <2>1. taken = Offset(restr, sent, c + 1)
    BY <1>4, <1>10 DEF Taken
  <2>2. CASE sent[c + 1] \in Escaped(restr)
    <3>1. ch = EscapeByte(restr)
      BY <1>3, <1>7, <1>10, <2>1, <2>2 DEF Shows
    <3>2. HasEscapeRestrictions(restr)
      BY <2>2 DEF Escaped, HasEscapeRestrictions
    <3>3. out' \in Outs /\ out'.sawEscape /\ out'.sawNull = out.sawNull /\ got' = got
      BY <1>0, <1>1, <1>10, <3>1, <3>2, PushFacts
    <3>4. taken' = Offset(restr, sent, c + 1) + 1
      BY <1>1, <2>1
    <3>5. Taken(n, g, c)'
      BY <1>1, <1>4, <1>10, <2>2, <3>3, <3>4 DEF Taken
    <3> QED
      BY <1>0, <1>8, <3>3, <3>5
  <2>3. CASE sent[c + 1] \notin Escaped(restr)
    <3>1. ch = sent[c + 1]
      BY <1>3, <1>7, <1>10, <2>1, <2>3 DEF Shows
    <3>2. ~(HasEscapeRestrictions(restr) /\ ch = EscapeByte(restr))
      BY <1>0, <2>3, <3>1, PlainFacts DEF HasEscapeRestrictions
    <3>3. taken' = Offset(restr, sent, (c + 1) + 1)
      BY <1>1, <1>7, <1>10, <2>1, <2>3
    <3>4. CASE ch = 0 /\ restr.null
      <4>1. out' \in Outs /\ ~out'.sawEscape /\ out'.sawNull /\ got' = s
        BY <1>0, <1>1, <1>5, <1>6, <1>10, <3>2, <3>4, PushFacts
      <4>2. Taken(n, c, c + 1)'
        BY <1>1, <3>1, <3>3, <3>4, <4>1 DEF Taken
      <4> QED
        BY <1>5, <1>6, <1>7, <1>8, <1>10, <4>1, <4>2
    <3>5. CASE ~(ch = 0 /\ restr.null)
      <4>1. out' \in Outs /\ ~out'.sawEscape /\ ~out'.sawNull /\ got' = s \o <<sent[c + 1]>>
        BY <1>0, <1>1, <1>5, <1>10, <3>1, <3>2, <3>5, PushFacts
      <4>2. Taken(n, c + 1, c + 1)'
        BY <1>1, <3>3, <4>1 DEF Taken
      <4>3. c + 1 \in Nat /\ g <= c + 1 /\ c + 1 <= n /\ c + 1 # g
        BY <1>0, <1>6, <1>10
      <4> QED
        BY <1>7, <1>8, <1>10, <4>1, <4>2, <4>3
    <3> QED
      BY <3>4, <3>5
  <2> QED
    BY <2>2, <2>3
<1>11. CASE ~out.sawEscape /\ ~(c < n)
  <2>1. c = n /\ taken = e
    <3>1. c = n
      <4>1. c \in Nat /\ n \in Nat /\ c <= n
        BY <1>0, <1>6
      <4> QED
        BY <1>11, <4>1
    <3>2. taken = Offset(restr, sent, c + 1)
      BY <1>4, <1>11 DEF Taken
    <3> QED
      BY <1>2, <3>1, <3>2
  <2>2. in.ntDone /\ ch = 0 /\ restr.null
    BY <1>2, <1>3, <2>1 DEF Good, InputInv
  <2>3. ~(HasEscapeRestrictions(restr) /\ ch = EscapeByte(restr))
    BY <1>0, <2>2, EscapeTables DEF HasEscapeRestrictions
  <2>4. out' \in Outs /\ ~out'.sawEscape /\ out'.sawNull /\ got' = s
    BY <1>0, <1>1, <1>5, <1>6, <1>11, <2>2, <2>3, PushFacts
  <2>5. AllTaken(n, c)'
    BY <1>1, <1>2, <2>1, <2>2, <2>4 DEF AllTaken, End
  <2> QED
    BY <1>5, <1>6, <1>8, <2>4, <2>5
<1> QED
  BY <1>9, <1>10, <1>11
-----------------------------------------------------------------------------
(* The theorems.                                                           *)

LEMMA InitGood ==
  Init => StreamInv
<1> SUFFICES ASSUME Init PROVE Good(0, 0, 0)
  BY DEF Init, StreamInv
<1>1. sent = <<>> /\ wire = <<>> /\ got = <<>> /\ Len(<<>>) = 0 /\ restr \in Restrictions
  BY DEF Init
<1>2. wire \in Seq(Contents) /\ got \in Seq(Byte) /\ sent \in Seq(Byte)
  BY <1>1
<1>3. /\ in \in [charBuf : {Eof} \cup ToSet(Pool), ntDone : BOOLEAN, current : {Eof} \cup Contents]
      /\ in.charBuf = Eof /\ ~in.ntDone /\ in.current = Eof
  BY DEF Init
<1>4. TypeOK
  <2>1. taken \in 0 .. Len(wire)
    BY <1>1 DEF Init
  <2>2. out \in [sawEscape : BOOLEAN, sawNull : BOOLEAN] /\ opened = FALSE /\ ended = FALSE
    BY DEF Init
  <2>3. in.current \in {Eof, 0} \cup ToSet(Pool) \cup Byte /\ in.charBuf \in {Eof} \cup ToSet(Pool)
        /\ in.ntDone \in BOOLEAN
    BY <1>3
  <2> QED
    BY <1>1, <1>2, <2>1, <2>2, <2>3 DEF TypeOK
<1>5. End(0) = 0 /\ 0 + 1 = 1
  <2>1. 0 + 1 = 1
    OBVIOUS
  <2> QED
    BY <2>1, OffsetStart DEF End
<1>6. InputInv(0, 0)
  <2>1. \A i \in 1 .. 0 : FALSE
    OBVIOUS
  <2> QED
    BY <1>3, <1>5, <2>1 DEF Init, InputInv, Layout
<1>7. OutputInv(0, 0)
  <2>1. (\A i \in 1 .. 0 : FALSE) /\ 0 \in 0 .. 0 /\ 0 <= 0
    OBVIOUS
  <2>2. Taken(0, 0, 0)
    BY <1>5, OffsetStart DEF Init, Taken
  <2> QED
    BY <2>1, <2>2 DEF OutputInv, Prefix
<1> QED
  BY <1>1, <1>2, <1>3, <1>4, <1>6, <1>7 DEF Good

LEMMA NextGood ==
  StreamInv /\ [Next]_vars => StreamInv'
<1> SUFFICES ASSUME StreamInv, [Next]_vars PROVE StreamInv'
  OBVIOUS
<1>1. PICK n, w, g : Good(n, w, g)
  BY DEF StreamInv
<1>2. CASE OpenInput \/ Uflow
  <2>1. PICK m, v : Good(m, v, g)'
    BY <1>1, <1>2, PullGood
  <2> QED
    BY <2>1 DEF StreamInv, Good
<1>3. CASE Overflow
  <2>1. PICK h : Good(n, w, h)'
    BY <1>1, <1>3, OverflowGood
  <2> QED
    BY <2>1 DEF StreamInv, Good
<1>4. CASE UNCHANGED vars
  BY <1>4 DEF vars, StreamInv, Good, TypeOK, InputInv, OutputInv, AllTaken, Taken, End, Pull
<1> QED
  BY <1>2, <1>3, <1>4 DEF Next

\* The invariant holds in every reachable state.
THEOREM StreamInvariant == SafeSpec => []StreamInv
<1> QED
  BY InitGood, NextGood, PTL DEF SafeSpec

\* What is handed out is part of what was pulled, which is the restricted form
\* of the text and perhaps a terminator.
LEMMA WireFacts ==
  ASSUME NEW n, NEW w, NEW g, Good(n, w, g)
  PROVE  \E e \in Nat :
           /\ e = End(n) /\ w \in Nat /\ w = Len(wire)
           /\ \A i \in 1 .. w : wire[i] = Pull[i]
           /\ \A i \in 1 .. e : Pull[i] \notin restr.escape
           /\ w <= e \/ (in.ntDone /\ w = e + 1 /\ restr.null /\ ended /\ Pull[e + 1] = 0)
<1>0. n \in Nat /\ w \in Nat /\ w = Len(wire) /\ InputInv(n, w)
  BY DEF Good, TypeOK
<1>1. PICK e \in Nat : e = End(n)
  <2>1. Offset(restr, sent, n + 1) \in Nat
    BY <1>0, OffsetBound
  <2> QED
    BY <2>1 DEF End
<1>2. \A i \in 1 .. w : wire[i] = Pull[i]
  BY <1>0 DEF Pull
<1>3. w <= e \/ (in.ntDone /\ w = e + 1 /\ restr.null /\ ended /\ Pull[e + 1] = 0)
  <2>1. in.charBuf # Eof => w + 2 = e
    BY <1>0, <1>1 DEF InputInv
  <2>2. in.charBuf = Eof /\ in.current # Eof /\ ~in.ntDone => w + 1 = e
    BY <1>0, <1>1 DEF InputInv
  <2>3. in.ntDone => (w = e \/ w = e + 1) /\ restr.null /\ ended /\ Pull[e + 1] = 0
    BY <1>0, <1>1 DEF InputInv
  <2>4. in.current = Eof /\ ~in.ntDone => w = e
    BY <1>0, <1>1 DEF InputInv
  <2> QED
    BY <1>0, <2>1, <2>2, <2>3, <2>4
<1> QED
  BY <1>0, <1>1, <1>2, <1>3 DEF InputInv

\* A compressor never reads a forbidden byte, except the 0 that ends its input.
THEOREM RestrictedHolds == SafeSpec => []Restricted
<1>1. StreamInv => Restricted
  <2> SUFFICES ASSUME StreamInv, NEW i \in 1 .. Len(wire), wire[i] \in restr.escape
               PROVE  restr.null /\ wire[i] = 0 /\ i = Len(wire) /\ ended
    BY DEF Restricted
  <2>1. PICK n, w, g : Good(n, w, g)
    BY DEF StreamInv
  <2>2. PICK e \in Nat :
          /\ w \in Nat /\ w = Len(wire)
          /\ \A j \in 1 .. w : wire[j] = Pull[j]
          /\ \A j \in 1 .. e : Pull[j] \notin restr.escape
          /\ w <= e \/ (in.ntDone /\ w = e + 1 /\ restr.null /\ ended /\ Pull[e + 1] = 0)
    BY <2>1, WireFacts
  <2>3. i \notin 1 .. e /\ wire[i] = Pull[i]
    BY <2>2
  <2>4. i = e + 1 /\ w = e + 1
    BY <2>2, <2>3
  <2>5. ~(w <= e)
    BY <2>2, <2>4
  <2> QED
    BY <2>2, <2>3, <2>4, <2>5
<1> QED
  BY <1>1, StreamInvariant, PTL

\* At the end of the input, the compressor has read the restricted text.
LEMMA EndOfInput ==
  ASSUME NEW n, NEW w, NEW g, Good(n, w, g), opened, in.current = Eof
  PROVE  /\ IsRestricted(restr, sent, wire)
         /\ in.ntDone <=> restr.null
         /\ in.ntDone => w = End(n) + 1
         /\ ~in.ntDone => w = End(n)
<1>0. /\ n \in Nat /\ n = Len(sent) /\ w = Len(wire) /\ InputInv(n, w) /\ in.charBuf = Eof
      /\ in.ntDone \in BOOLEAN /\ restr.null \in BOOLEAN /\ PoolSuffices(restr)
  <2>1. restr \in Restrictions
    BY DEF Good, TypeOK
  <2> QED
    BY <2>1, ContentsFacts DEF Good, TypeOK, InputInv, PoolSuffices
<1>1. PICK e \in Nat : e = End(n) /\ e = Offset(restr, sent, n + 1)
  <2>1. Offset(restr, sent, n + 1) \in Nat
    BY <1>0, OffsetBound
  <2> QED
    BY <2>1 DEF End
<1>2. /\ in.ntDone => restr.null /\ w = e + 1 /\ Pull[e + 1] = 0
      /\ ~in.ntDone => w = e /\ ~restr.null
  BY <1>0, <1>1 DEF InputInv
<1>3. w \in Nat /\ \A i \in 1 .. w : wire[i] = Pull[i]
  BY WireFacts
<1>4. Len(wire) = e + Noff(restr)
  BY <1>0, <1>1, <1>2 DEF Noff
<1>5. Layout(restr, sent, n, wire, 1)
  <2>1. Layout(restr, sent, n, Pull, 1)
    BY <1>0 DEF InputInv
  <2>2. \A k \in Nat : k > 0 /\ k <= e => k \in 1 .. w
    BY <1>1, <1>2, <1>0
  <2>3. \A k \in Nat : k > 0 /\ k <= Offset(restr, sent, n + 1) => wire[k] = Pull[k]
    BY <1>1, <1>3, <2>2
  <2> QED
    BY <1>0, <2>1, <2>3, LayoutExtends
<1>6. restr.null => wire[e + 1] = 0
  <2>1. restr.null => e + 1 \in 1 .. w /\ Pull[e + 1] = 0
    BY <1>0, <1>1, <1>2
  <2> QED
    BY <1>3, <2>1
<1>7. IsRestricted(restr, sent, wire)
  BY <1>0, <1>1, <1>4, <1>5, <1>6 DEF IsRestricted, Layout
<1> QED
  BY <1>0, <1>1, <1>2, <1>7

\* At the end of the output, the text has come through.
LEMMA EndOfOutput ==
  ASSUME NEW n, NEW w, NEW g, Good(n, w, g), opened, in.current = Eof, taken = Len(wire)
  PROVE  got = sent /\ out.sawNull = restr.null /\ ~out.sawEscape
<1>0. /\ n \in Nat /\ n = Len(sent) /\ w = Len(wire) /\ g = Len(got)
      /\ sent \in Seq(Byte) /\ got \in Seq(Byte) /\ Prefix(sent, got, g)
      /\ AllTaken(n, g) \/ \E c \in 0 .. n : Taken(n, g, c)
      /\ out \in Outs /\ restr \in Restrictions
  BY DEF Good, TypeOK, OutputInv, Outs
<1>1. PICK e \in Nat : e = End(n) /\ e = Offset(restr, sent, n + 1)
  <2>1. Offset(restr, sent, n + 1) \in Nat
    BY <1>0, OffsetBound
  <2> QED
    BY <2>1 DEF End
<1>2. /\ in.ntDone <=> restr.null
      /\ in.ntDone => w = e + 1
      /\ ~in.ntDone => w = e
  BY <1>1, EndOfInput
<1>3. restr.null \in BOOLEAN /\ out.sawNull \in BOOLEAN
  BY <1>0, ContentsFacts DEF PoolSuffices, Outs
<1>4. ASSUME g = n PROVE got = sent
  BY <1>0, <1>4, SeqEqual DEF Prefix
<1>5. CASE AllTaken(n, g)
  <2>1. g = n /\ in.ntDone /\ out.sawNull /\ ~out.sawEscape
    BY <1>5 DEF AllTaken
  <2> QED
    BY <1>2, <1>3, <1>4, <2>1
<1>6. CASE \E c \in 0 .. n : Taken(n, g, c)
  <2>1. PICK c \in 0 .. n : Taken(n, g, c)
    BY <1>6
  <2>2. PICK o \in Nat : o = Offset(restr, sent, c + 1)
    <3>1. c \in Nat
      OBVIOUS
    <3> QED
      BY <3>1, OffsetBound
  <2>3. o + (n - c) <= e
    <3>1. c + 1 \in Nat \ {0} /\ n + 1 \in Nat \ {0} /\ c + 1 <= n + 1
      BY <1>0
    <3>2. Offset(restr, sent, c + 1) + ((n + 1) - (c + 1)) <= Offset(restr, sent, n + 1)
      BY <3>1, OffsetGrows
    <3> QED
      BY <1>0, <1>1, <2>2, <3>2
  <2>4. ~out.sawEscape
    <3> SUFFICES ASSUME out.sawEscape PROVE FALSE
      OBVIOUS
    <3>1. /\ c + 1 \in 1 .. n /\ sent[c + 1] \in Escaped(restr) /\ taken = o + 1
      BY <1>0, <2>1, <2>2 DEF Taken
    <3>2. /\ Offset(restr, sent, (c + 1) + 1) = o + 2
          /\ Offset(restr, sent, (c + 1) + 1) + (n - (c + 1)) <= Offset(restr, sent, n + 1)
      BY <1>0, <2>2, <3>1, OffsetOrder
    <3>3. o + 2 <= e
      BY <1>0, <1>1, <3>1, <3>2
    <3> QED
      BY <1>0, <1>2, <3>1, <3>3
  <2>5. taken = o
    BY <2>1, <2>2, <2>4 DEF Taken
  <2>6. o <= e
    BY <1>0, <1>1, <2>2, <2>3
  <2>7. ~in.ntDone /\ w = e /\ o = e
    BY <1>0, <1>2, <2>5, <2>6
  <2>8. c = n
    BY <1>0, <1>1, <2>3, <2>7
  <2>9. ~restr.null /\ ~out.sawNull
    BY <1>2, <2>1, <2>7 DEF Taken
  <2>10. g = n
    BY <2>1, <2>8, <2>9 DEF Taken
  <2> QED
    BY <1>3, <1>4, <2>4, <2>9, <2>10
<1> QED
  BY <1>0, <1>5, <1>6

\* When everything is read and written, the text has come through, and what
\* the output side still holds back is the terminator and nothing else.
THEOREM CleanEndHolds == SafeSpec => []CleanEnd
<1>1. StreamInv => CleanEnd
  <2> SUFFICES ASSUME StreamInv PROVE CleanEnd
    OBVIOUS
  <2>1. PICK n, w, g : Good(n, w, g)
    BY DEF StreamInv
  <2>2. TypeOK
    BY <2>1 DEF Good
  <2>3. EscapesText
    BY <2>1, EndOfInput DEF EscapesText
  <2>4. opened /\ in.current = Eof /\ taken = Len(wire) =>
          got = sent /\ out.sawNull = restr.null /\ ~out.sawEscape
    BY <2>1, EndOfOutput
  <2> QED
    BY <2>2, <2>3, <2>4 DEF CleanEnd
<1> QED
  BY <1>1, StreamInvariant, PTL

\* A sequence that agrees with the beginning of another is that beginning.
LEMMA PrefixIsSubSeq ==
  ASSUME NEW t \in Seq(Byte), NEW s \in Seq(Byte), Len(s) <= Len(t), Prefix(t, s, Len(s))
  PROVE  s = SubSeq(t, 1, Len(s))
<1>1. /\ SubSeq(t, 1, Len(s)) \in Seq(Byte)
      /\ Len(SubSeq(t, 1, Len(s))) = Len(s)
      /\ \A k \in 1 .. Len(s) : SubSeq(t, 1, Len(s))[k] = t[k]
  OBVIOUS
<1> QED
  BY <1>1, SeqEqual DEF Prefix

\* Every step of the two adapters is a step of the lossless channel or leaves
\* it unchanged (the safety part of the refinement; its liveness is left to
\* the model checker).
THEOREM ImplementsChannel == SafeSpec => Channel!SafeSpec
<1>1. Init => Channel!Init
  BY DEF Init, Channel!Init
<1>2. ASSUME StreamInv, StreamInv', [Next]_vars
      PROVE  [Channel!Next]_(Channel!vars)
  <2>1. PICK n, w, g : Good(n, w, g)
    BY <1>2 DEF StreamInv
  <2>2. CASE OpenInput \/ Uflow
    <3>1. PullEscape(in) /\ got' = got
      BY <2>2 DEF OpenInput, Uflow
    <3>2. ended \in BOOLEAN
      BY <2>1 DEF Good, TypeOK
    <3>3. CASE UNCHANGED <<sent, ended>>
      BY <3>1, <3>3 DEF Channel!vars
    <3>4. CASE ~ended /\ ended' = ended /\ \E b \in Byte : sent' = Append(sent, b)
      BY <3>1, <3>4 DEF Channel!Send, Channel!Next
    <3>5. CASE ended' = TRUE /\ sent' = sent
      <4>1. CASE ended
        BY <3>1, <3>2, <3>5, <4>1 DEF Channel!vars
      <4>2. CASE ~ended
        BY <3>1, <3>5, <4>2 DEF Channel!Close, Channel!Next
      <4> QED
        BY <4>1, <4>2
    <3>6. \/ UNCHANGED <<sent, ended>>
          \/ ~ended /\ ended' = ended /\ \E b \in Byte : sent' = Append(sent, b)
          \/ ended' = TRUE /\ sent' = sent
      BY <3>1 DEF PullEscape
    <3> QED
      BY <3>3, <3>4, <3>5, <3>6
  <2>3. CASE Overflow
    <3>1. PICK h \in Nat : g <= h /\ (h = g => got' = got) /\ Good(n, w, h)'
      BY <2>1, <2>3, OverflowGood
    <3>2. sent' = sent /\ ended' = ended
      BY <2>3 DEF Overflow
    <3>3. /\ g = Len(got) /\ g \in Nat /\ h = Len(got') /\ n = Len(sent) /\ n \in Nat
          /\ got' \in Seq(Byte) /\ sent \in Seq(Byte) /\ h <= n /\ Prefix(sent, got', h)
      BY <2>1, <3>1, <3>2 DEF Good, TypeOK, OutputInv
    <3>4. CASE h = g
      BY <3>1, <3>2, <3>4 DEF Channel!vars
    <3>5. CASE h # g
      <4>1. got' = SubSeq(sent, 1, h)
        BY <3>3, PrefixIsSubSeq
      <4>2. h \in Len(got) + 1 .. Len(sent)
        BY <3>1, <3>3, <3>5
      <4> QED
        BY <3>2, <4>1, <4>2 DEF Channel!Deliver, Channel!Next
    <3> QED
      BY <3>4, <3>5
  <2>4. CASE UNCHANGED vars
    BY <2>4 DEF vars, Channel!vars
  <2> QED
    BY <1>2, <2>2, <2>3, <2>4 DEF Next
<1> QED
  BY <1>1, <1>2, StreamInvariant, PTL DEF SafeSpec, Channel!SafeSpec
-----------------------------------------------------------------------------
(***************************************************************************)
(* The bit streams: IInv is an inductive invariant of BitStream, and the   *)
(* type invariant, the round trip, the exact end of file and the           *)
(* refinement of the lossless channel follow.                              *)
(***************************************************************************)
USE DEF MSB, Bit

\* A count of at most 5 written into a byte whose low bits are free, and any
\* count written into an empty byte, is read back; the other bits stay.
LEMMA OrCountFacts ==
  ASSUME NEW byte \in Octet, NEW count \in 0 .. 7,
         \A i \in 0 .. 2 : byte[i] = 0
  PROVE  /\ OrCount(byte, count) \in Octet
         /\ FinalCount(OrCount(byte, count)) = count
         /\ \A i \in 3 .. 7 : OrCount(byte, count)[i] = byte[i]
<1>1. OrCount(byte, count) \in Octet
  BY DEF OrCount, Octet
<1>2. FinalCount(OrCount(byte, count)) = count
  BY DEF OrCount, FinalCount
<1>3. \A i \in 3 .. 7 : OrCount(byte, count)[i] = byte[i]
  BY DEF OrCount
<1> QED
  BY <1>1, <1>2, <1>3

LEMMA ZeroByteFacts == ZeroByte \in Octet /\ \A i \in 0 .. 7 : ZeroByte[i] = 0
BY DEF ZeroByte, Octet

\* The initial state satisfies the invariant.
LEMMA InitIInv == BitInit => IInv
<1> SUFFICES ASSUME BitInit
             PROVE  IInv
  OBVIOUS
<1>1. /\ file = <<>> /\ bitsSent = <<>> /\ bitsGot = <<>>
      /\ closed = FALSE /\ reading = FALSE /\ rd = FreshReader
      /\ wr = [next |-> ZeroByte, cursor |-> 7, dirty |-> FALSE]
  BY DEF BitInit, FreshWriter
<1>2. BitTypeOK
  <2>1. wr \in Writer /\ rd \in Reader
    BY <1>1, ZeroByteFacts DEF FreshReader, NewReader, Writer, Reader
  <2>2. file \in Seq(Octet) /\ bitsSent \in Seq({0, 1}) /\ bitsGot \in Seq({0, 1})
    BY <1>1
  <2>3. closed \in BOOLEAN /\ reading \in BOOLEAN
    BY <1>1
  <2> QED
    BY <2>1, <2>2, <2>3 DEF BitTypeOK
<1>3. RoundTrip /\ FileInv /\ ReaderInv
  BY <1>1 DEF RoundTrip, FileInv, ReaderInv
<1>4. WriterInv
  <2>1. Len(bitsSent) = 0 /\ Len(file) = 0 /\ wr.cursor = 7 /\ wr.next = ZeroByte /\ wr.dirty = FALSE
    BY <1>1
  <2>2. PayloadBits(bitsSent, file, 0, 0) /\ PartialBits(bitsSent, ZeroByte, 0, 7)
    BY DEF PayloadBits, PartialBits
  <2> QED
    BY <1>1, <2>1, <2>2, ZeroByteFacts DEF WriterInv
<1> QED
  BY <1>2, <1>3, <1>4 DEF IInv
-----------------------------------------------------------------------------
(* Where the payload bits are: pure facts about sequences of bits and bytes. *)

\* One more bit does not touch the m complete bytes.
LEMMA PayloadKept ==
  ASSUME NEW s, NEW t, NEW f, NEW n \in Nat, NEW m \in Nat, 8 * m <= n,
         \A k \in 1 .. n : t[k] = s[k], PayloadBits(s, f, n, m)
  PROVE  PayloadBits(t, f, n + 1, m)
<1> SUFFICES ASSUME NEW r \in 1 .. m, NEW c \in 0 .. 7
             PROVE  t[8 * r - c] = f[r][c]
  BY DEF PayloadBits
<1>1. 8 * r - c \in 1 .. n
  OBVIOUS
<1> QED
  BY <1>1 DEF PayloadBits

\* The next bit of the unfinished byte.
LEMMA PartialGrows ==
  ASSUME NEW s, NEW t, NEW p, NEW q, NEW n \in Nat, NEW m \in Nat,
         NEW cursor \in 0 .. 7, n = 8 * m + 7 - cursor,
         \A k \in 1 .. n : t[k] = s[k], t[n + 1] = q[cursor],
         \A c \in 0 .. 7 : c # cursor => q[c] = p[c],
         PartialBits(s, p, m, cursor)
  PROVE  PartialBits(t, q, m, cursor - 1)
<1> SUFFICES ASSUME NEW c \in 0 .. 7, c > cursor - 1
             PROVE  t[8 * (m + 1) - c] = q[c]
  BY DEF PartialBits
<1>1. CASE c = cursor
  <2>1. 8 * (m + 1) - c = n + 1
    BY <1>1
  <2> QED
    BY <1>1, <2>1
<1>2. CASE c > cursor
  <2>1. 8 * (m + 1) - c \in 1 .. n
    BY <1>2
  <2> QED
    BY <1>2, <2>1 DEF PartialBits
<1> QED
  BY <1>1, <1>2

\* Appending the unfinished byte to the file; its low bits may be a count.
LEMMA PayloadAppend ==
  ASSUME NEW s, NEW f, NEW g, NEW b, NEW n \in Nat, NEW m \in Nat,
         NEW cursor \in -1 .. 7, n = 8 * m + 7 - cursor,
         \A r \in 1 .. m : g[r] = f[r],
         \A c \in 0 .. 7 : c > cursor => g[m + 1][c] = b[c],
         PayloadBits(s, f, n, m), PartialBits(s, b, m, cursor)
  PROVE  PayloadBits(s, g, n, m + 1)
<1> SUFFICES ASSUME NEW r \in 1 .. m + 1, NEW c \in 0 .. 7, 8 * r - c <= n
             PROVE  s[8 * r - c] = g[r][c]
  BY DEF PayloadBits
<1>1. CASE r \in 1 .. m
  BY <1>1 DEF PayloadBits
<1>2. CASE r = m + 1
  <2>1. c > cursor
    BY <1>2
  <2> QED
    BY <1>2, <2>1 DEF PartialBits
<1> QED
  BY <1>1, <1>2

\* Appending a byte that holds only a count.
LEMMA PayloadMarker ==
  ASSUME NEW s, NEW f, NEW g, NEW n \in Nat, NEW m \in Nat, n <= 8 * m,
         \A r \in 1 .. m : g[r] = f[r], PayloadBits(s, f, n, m)
  PROVE  PayloadBits(s, g, n, m + 1)
<1> SUFFICES ASSUME NEW r \in 1 .. m + 1, NEW c \in 0 .. 7, 8 * r - c <= n
             PROVE  s[8 * r - c] = g[r][c]
  BY DEF PayloadBits
<1>1. r \in 1 .. m
  OBVIOUS
<1> QED
  BY <1>1 DEF PayloadBits
-----------------------------------------------------------------------------
(* One lemma per action. *)

LEMMA WriteBitIInv ==
  ASSUME IInv, NEW bit \in Bits, WriteBit(bit)
  PROVE  IInv'
<1> DEFINE filled == IF bit = 1 THEN [wr.next EXCEPT ![wr.cursor] = 1] ELSE wr.next
<1>1. bit \in {0, 1}
  BY BitsAssumption
<1>2. /\ ~closed /\ ~reading /\ bitsGot = <<>> /\ rd = FreshReader
      /\ bitsSent' = Append(bitsSent, bit)
      /\ UNCHANGED <<closed, rd, reading, bitsGot>>
  BY DEF WriteBit, IInv, WriterInv
<1>3. /\ wr.next \in Octet /\ wr.cursor \in 0 .. 7 /\ file \in Seq(Octet)
      /\ bitsSent \in Seq({0, 1}) /\ rd \in Reader
  BY DEF IInv, BitTypeOK, Writer
<1>4. PICK n \in Nat, m \in Nat, cur \in 0 .. 7 :
         n = Len(bitsSent) /\ m = Len(file) /\ cur = wr.cursor
  BY <1>3
<1>5. /\ n = 8 * m + 7 - cur
      /\ PayloadBits(bitsSent, file, n, m)
      /\ PartialBits(bitsSent, wr.next, m, cur)
      /\ \A c \in 0 .. 7 : c <= cur => wr.next[c] = 0
  BY <1>2, <1>4 DEF IInv, WriterInv
<1>6. /\ filled \in Octet
      /\ filled[cur] = bit
      /\ \A c \in 0 .. 7 : c # cur => filled[c] = wr.next[c]
  <2>1. CASE bit = 1
    BY <1>3, <1>4, <2>1 DEF Octet
  <2>2. CASE bit = 0
    <3>1. filled = wr.next
      BY <2>2
    <3> HIDE DEF filled
    <3>2. filled[cur] = bit
      BY <1>5, <2>2, <3>1
    <3> QED
      BY <1>3, <3>1, <3>2
  <2> QED
    BY <1>1, <2>1, <2>2
<1> HIDE DEF filled
<1>7. /\ bitsSent' \in Seq({0, 1})
      /\ Len(bitsSent') = n + 1
      /\ bitsSent'[n + 1] = bit
      /\ \A k \in 1 .. n : bitsSent'[k] = bitsSent[k]
  BY <1>1, <1>2, <1>3, <1>4
<1>8. PayloadBits(bitsSent', file, n + 1, m)
  <2>1. 8 * m <= n
    BY <1>5
  <2> QED
    BY <1>5, <1>7, <2>1, PayloadKept
<1>9. PartialBits(bitsSent', filled, m, cur - 1)
  <2>1. bitsSent'[n + 1] = filled[cur]
    BY <1>6, <1>7
  <2> QED
    BY <1>5, <1>6, <1>7, <2>1, PartialGrows
<1>10. CASE cur > 0
  <2>1. /\ wr' = [next |-> filled, cursor |-> cur - 1, dirty |-> TRUE]
        /\ file' = file
    BY <1>4, <1>10 DEF WriteBit, filled
  <2>2. /\ wr'.next = filled /\ wr'.cursor = cur - 1 /\ wr'.dirty = TRUE
    BY <2>1
  <2>3. BitTypeOK'
    BY <1>2, <1>3, <1>6, <1>7, <1>10, <2>1 DEF BitTypeOK, IInv, Writer
  <2>4. WriterInv'
    <3>1. Len(bitsSent') = 8 * m + 7 - (cur - 1) /\ m = Len(file')
      BY <1>4, <1>5, <1>7, <2>1
    <3>2. cur - 1 < 7
      OBVIOUS
    <3>3. \A c \in 0 .. 7 : c <= cur - 1 => filled[c] = 0
      BY <1>5, <1>6
    <3> QED
      BY <1>2, <1>7, <1>8, <1>9, <2>1, <2>2, <3>1, <3>2, <3>3 DEF WriterInv
  <2> QED
    BY <1>2, <1>3, <1>7, <2>3, <2>4 DEF IInv, RoundTrip, FileInv, ReaderInv
<1>11. CASE cur = 0
  <2>1. wr' = FreshWriter /\ file' = Append(file, filled)
    BY <1>4, <1>11 DEF WriteBit, filled
  <2>2. /\ file' \in Seq(Octet)
        /\ Len(file') = m + 1
        /\ file'[m + 1] = filled
        /\ \A r \in 1 .. m : file'[r] = file[r]
    BY <1>3, <1>4, <1>6, <2>1
  <2>3. BitTypeOK'
    BY <1>2, <1>3, <1>7, <2>1, <2>2, ZeroByteFacts DEF BitTypeOK, IInv, Writer, FreshWriter
  <2>4. WriterInv'
    <3>1. n + 1 = 8 * (m + 1) + 7 - 7 /\ n + 1 = 8 * m + 7 - (-1)
      BY <1>5, <1>11
    <3>2. PartialBits(bitsSent', filled, m, -1)
      BY <1>9, <1>11
    <3>3. PayloadBits(bitsSent', file', n + 1, m + 1)
      <4>1. n + 1 \in Nat /\ -1 \in -1 .. 7
        OBVIOUS
      <4>2. \A c \in 0 .. 7 : c > -1 => file'[m + 1][c] = filled[c]
        BY <2>2
      <4> QED
        BY <1>8, <2>2, <3>1, <3>2, <4>1, <4>2, PayloadAppend
    <3>4. wr'.next = ZeroByte /\ wr'.cursor = 7 /\ wr'.dirty = FALSE
      BY <2>1 DEF FreshWriter
    <3>5. PartialBits(bitsSent', ZeroByte, m + 1, 7)
      BY DEF PartialBits
    <3> QED
      BY <1>2, <1>7, <2>2, <3>1, <3>3, <3>4, <3>5, ZeroByteFacts DEF WriterInv
  <2> QED
    BY <1>2, <1>3, <1>7, <2>3, <2>4 DEF IInv, RoundTrip, FileInv, ReaderInv
<1> QED
  BY <1>10, <1>11

LEMMA CloseWriterIInv ==
  ASSUME IInv, CloseWriter
  PROVE  IInv'
<1>1. /\ ~closed /\ ~reading /\ bitsGot = <<>> /\ rd = FreshReader
      /\ closed' = TRUE /\ wr' = FreshWriter
      /\ UNCHANGED <<rd, reading, bitsSent, bitsGot>>
  BY DEF CloseWriter, IInv, WriterInv
<1>2. /\ wr.next \in Octet /\ wr.cursor \in 0 .. 7 /\ file \in Seq(Octet)
      /\ bitsSent \in Seq({0, 1}) /\ rd \in Reader
  BY DEF IInv, BitTypeOK, Writer
<1>3. PICK n \in Nat, m \in Nat, cur \in 0 .. 7 :
         n = Len(bitsSent) /\ m = Len(file) /\ cur = wr.cursor
  BY <1>2
<1>4. /\ n = 8 * m + 7 - cur
      /\ wr.dirty <=> cur < 7
      /\ PayloadBits(bitsSent, file, n, m)
      /\ PartialBits(bitsSent, wr.next, m, cur)
      /\ \A c \in 0 .. 7 : c <= cur => wr.next[c] = 0
  BY <1>1, <1>3 DEF IInv, WriterInv
<1> DEFINE count == 7 - cur
<1>5. CASE cur >= 2
  <2> DEFINE b == OrCount(wr.next, count)
  <2>1. file' = Append(file, b)
    <3>1. wr.cursor >= 2 /\ MSB - wr.cursor = count
      BY <1>3, <1>5
    <3> HIDE DEF count
    <3>2. file' = Append(file, OrCount(wr.next, MSB - wr.cursor))
      BY <3>1 DEF CloseWriter
    <3> QED
      BY ONLY <3>1, <3>2 DEF b
  <2>2. /\ b \in Octet /\ FinalCount(b) = count
        /\ \A i \in 3 .. 7 : b[i] = wr.next[i]
    <3>1. count \in 0 .. 7 /\ \A i \in 0 .. 2 : wr.next[i] = 0
      BY <1>4, <1>5
    <3> QED
      BY <1>2, <3>1, OrCountFacts
  <2> HIDE DEF b
  <2>3. /\ file' \in Seq(Octet) /\ file' # <<>>
        /\ Len(file') = m + 1
        /\ file'[m + 1] = b
        /\ \A r \in 1 .. m : file'[r] = file[r]
    <3>1. /\ Append(file, b) \in Seq(Octet)
          /\ Len(Append(file, b)) = m + 1
          /\ Append(file, b)[m + 1] = b
          /\ \A r \in 1 .. m : Append(file, b)[r] = file[r]
      BY <1>2, <1>3, <2>2
    <3>2. file' # <<>>
      BY <2>1, <3>1
    <3> QED
      BY <2>1, <3>1, <3>2
  <2>4. PayloadBits(bitsSent, file', n, m + 1)
    <3>1. \A c \in 0 .. 7 : c > cur => file'[m + 1][c] = wr.next[c]
      BY <1>5, <2>2, <2>3
    <3>2. cur \in -1 .. 7
      OBVIOUS
    <3> QED
      BY <1>4, <2>3, <3>1, <3>2, PayloadAppend
  <2>5. PayloadBytes' = m + 1
    BY <1>5, <2>2, <2>3 DEF PayloadBytes
  <2>6. n = 8 * (m + 1 - 1) + count
    BY <1>4
  <2>7. FileInv'
    <3>1. ~reading' /\ bitsGot' = <<>> /\ bitsSent' = bitsSent /\ Len(bitsSent) = n
      BY <1>1, <1>3
    <3>2. FinalCount(file'[Len(file')]) = count
      BY <2>2, <2>3
    <3>3. /\ PayloadBytes' >= 1
          /\ Len(bitsSent') = 8 * (PayloadBytes' - 1) + FinalCount(file'[Len(file')])
      BY <2>5, <2>6, <3>1, <3>2
    <3>4. PayloadBits(bitsSent', file', Len(bitsSent'), Len(file'))
      BY <2>4, <2>3, <3>1
    <3> QED
      BY <2>3, <3>1, <3>3, <3>4 DEF FileInv
  <2>8. BitTypeOK'
    BY <1>1, <1>2, <2>3, ZeroByteFacts DEF BitTypeOK, FreshWriter, Writer, IInv
  <2> QED
    BY <1>1, <1>2, <2>7, <2>8 DEF IInv, RoundTrip, WriterInv, ReaderInv
<1>6. CASE cur < 2
  <2> DEFINE flushed == Append(file, wr.next)
             b == OrCount(ZeroByte, count)
  <2>1. file' = Append(flushed, b)
    <3>1. ~ (wr.cursor >= 2) /\ wr.dirty /\ MSB - wr.cursor = count
      BY <1>3, <1>4, <1>6
    <3> HIDE DEF count
    <3>2. file' = Append(flushed, OrCount(ZeroByte, MSB - wr.cursor))
      BY <3>1 DEF CloseWriter
    <3> QED
      BY ONLY <3>1, <3>2 DEF flushed, b
  <2>2. b \in Octet /\ FinalCount(b) = count
    <3>1. count \in 0 .. 7
      OBVIOUS
    <3> QED
      BY <3>1, OrCountFacts, ZeroByteFacts
  <2>3. /\ flushed \in Seq(Octet)
        /\ Len(flushed) = m + 1
        /\ flushed[m + 1] = wr.next
        /\ \A r \in 1 .. m : flushed[r] = file[r]
    BY <1>2, <1>3
  <2> HIDE DEF b, flushed
  <2>4. /\ file' \in Seq(Octet) /\ file' # <<>>
        /\ Len(file') = (m + 1) + 1
        /\ file'[(m + 1) + 1] = b
        /\ \A r \in 1 .. m + 1 : file'[r] = flushed[r]
    BY <2>1, <2>2, <2>3
  <2>5. PayloadBits(bitsSent, flushed, n, m + 1)
    <3>1. \A c \in 0 .. 7 : c > cur => flushed[m + 1][c] = wr.next[c]
      BY <2>3
    <3>2. cur \in -1 .. 7
      OBVIOUS
    <3> QED
      BY <1>4, <2>3, <3>1, <3>2, PayloadAppend
  <2>6. PayloadBits(bitsSent, file', n, (m + 1) + 1)
    <3>1. m + 1 \in Nat /\ n <= 8 * (m + 1)
      BY <1>4
    <3> QED
      BY <2>4, <2>5, <3>1, PayloadMarker
  <2>7. PayloadBytes' = m + 1
    <3>1. ~(count <= 5)
      BY <1>6
    <3>2. (m + 1) + 1 - 1 = m + 1
      OBVIOUS
    <3> QED
      BY <2>2, <2>4, <3>1, <3>2 DEF PayloadBytes
  <2>8. n = 8 * (m + 1 - 1) + count
    BY <1>4
  <2>9. FileInv'
    <3>1. ~reading' /\ bitsGot' = <<>> /\ bitsSent' = bitsSent /\ Len(bitsSent) = n
      BY <1>1, <1>3
    <3>2. FinalCount(file'[Len(file')]) = count
      BY <2>2, <2>4
    <3>3. /\ PayloadBytes' >= 1
          /\ Len(bitsSent') = 8 * (PayloadBytes' - 1) + FinalCount(file'[Len(file')])
      BY <2>7, <2>8, <3>1, <3>2
    <3>4. PayloadBits(bitsSent', file', Len(bitsSent'), Len(file'))
      BY <2>6, <2>4, <3>1
    <3> QED
      BY <2>4, <3>1, <3>3, <3>4 DEF FileInv
  <2>10. BitTypeOK'
    BY <1>1, <1>2, <2>4, ZeroByteFacts DEF BitTypeOK, FreshWriter, Writer, IInv
  <2> QED
    BY <1>1, <1>2, <2>9, <2>10 DEF IInv, RoundTrip, WriterInv, ReaderInv
<1> QED
  BY <1>5, <1>6

LEMMA FinalCountType == \A b \in Octet : FinalCount(b) \in 0 .. 7
BY DEF FinalCount, Octet

\* The number of payload bits lies in the last payload byte.
LEMMA PayloadBytesFacts ==
  ASSUME BitTypeOK, FileInv, closed, file # <<>>
  PROVE  /\ Len(file) \in Nat \ {0}
         /\ PayloadBytes \in 1 .. Len(file)
         /\ FinalCount(file[Len(file)]) \in 0 .. 7
         /\ FinalCount(file[Len(file)]) <= 5 => PayloadBytes = Len(file)
         /\ FinalCount(file[Len(file)]) > 5 => PayloadBytes = Len(file) - 1
         /\ Len(bitsSent) = 8 * (PayloadBytes - 1) + FinalCount(file[Len(file)])
         /\ PayloadBits(bitsSent, file, Len(bitsSent), Len(file))
<1>1. Len(file) \in Nat \ {0} /\ file[Len(file)] \in Octet
  BY DEF BitTypeOK
<1>2. FinalCount(file[Len(file)]) \in 0 .. 7
  BY <1>1, FinalCountType
<1>3. /\ PayloadBytes >= 1
      /\ Len(bitsSent) = 8 * (PayloadBytes - 1) + FinalCount(file[Len(file)])
      /\ PayloadBits(bitsSent, file, Len(bitsSent), Len(file))
  BY DEF FileInv
<1> QED
  BY <1>1, <1>2, <1>3 DEF PayloadBytes

\* read_next moves to the byte r.pos, and reports the end exactly when that is
\* the last byte with payload.
LEMMA ReadNextFacts ==
  ASSUME BitTypeOK, FileInv, closed, file # <<>>,
         NEW r \in Reader, ~r.isFinal,
         r.pos \in 1 .. PayloadBytes, r.next = file[r.pos]
  PROVE  /\ ReadNext(r) \in Reader
         /\ ReadNext(r).cursor = 7
         /\ ReadNext(r).current = file[r.pos]
         /\ ReadNext(r).isFinal => /\ r.pos = PayloadBytes
                                   /\ ReadNext(r).finalBits = FinalCount(file[Len(file)])
         /\ ~ReadNext(r).isFinal => /\ r.pos < PayloadBytes
                                    /\ ReadNext(r).pos = r.pos + 1
                                    /\ r.pos + 1 <= Len(file)
                                    /\ ReadNext(r).next = file[r.pos + 1]
<1> PICK n \in Nat \ {0}, p \in Nat : n = Len(file) /\ p = r.pos
  BY PayloadBytesFacts DEF Reader
<1>1. /\ PayloadBytes \in 1 .. n
      /\ FinalCount(file[n]) \in 0 .. 7
      /\ FinalCount(file[n]) <= 5 => PayloadBytes = n
      /\ FinalCount(file[n]) > 5 => PayloadBytes = n - 1
      /\ file \in Seq(Octet) /\ ZeroByte \in Octet
      /\ p \in 1 .. PayloadBytes
  BY PayloadBytesFacts, ZeroByteFacts DEF BitTypeOK
<1>2. r.next \in Octet /\ r.finalBits \in 0 .. 7 /\ r.isFinal = FALSE
  BY DEF Reader
<1> DEFINE q == ReadNext(r)
<1>3. /\ q.current = r.next /\ q.cursor = 7
      /\ q.next = IF p < n /\ ~(p + 1 = n /\ FinalCount(file[p + 1]) >= 6)
                  THEN file[p + 1] ELSE ZeroByte
      /\ q.finalBits = IF p >= n THEN FinalCount(r.next)
                       ELSE IF p + 1 = n THEN FinalCount(file[p + 1]) ELSE r.finalBits
      /\ q.pos = IF p < n THEN p + 1 ELSE p
  BY DEF ReadNext
<1>4. q.isFinal <=> p >= n \/ (p + 1 = n /\ FinalCount(file[p + 1]) >= 6)
  <2>1. q.isFinal <=> \/ r.isFinal
                      \/ ~(r.pos < Len(file))
                      \/ r.pos + 1 = Len(file) /\ FinalCount(file[r.pos + 1]) >= 6
    BY Zenon DEF ReadNext
  <2>2. ~(r.pos < Len(file)) <=> p >= n
    OBVIOUS
  <2>3. r.pos + 1 = Len(file) /\ FinalCount(file[r.pos + 1]) >= 6
          <=> p + 1 = n /\ FinalCount(file[p + 1]) >= 6
    OBVIOUS
  <2> HIDE DEF q
  <2> QED
    BY <1>2, <2>1, <2>2, <2>3, Zenon
<1>5. /\ q.isFinal \in BOOLEAN
      /\ q = [current |-> q.current, next |-> q.next, isFinal |-> q.isFinal,
              finalBits |-> q.finalBits, cursor |-> q.cursor, pos |-> q.pos]
  BY DEF ReadNext
<1> HIDE DEF q
<1>6. p < n => file[p + 1] \in Octet /\ FinalCount(file[p + 1]) \in 0 .. 7
  BY <1>1, FinalCountType
<1>7. FinalCount(r.next) \in 0 .. 7
  BY <1>2, FinalCountType
<1>8. q \in Reader
  <2>1. q.next \in Octet /\ q.finalBits \in 0 .. 7 /\ q.pos \in Nat
    BY <1>1, <1>2, <1>3, <1>6, <1>7
  <2> QED
    BY <1>2, <1>3, <1>5, <2>1 DEF Reader
<1>9. ASSUME q.isFinal
      PROVE  p = PayloadBytes /\ q.finalBits = FinalCount(file[n])
  <2>1. CASE p >= n
    BY <1>1, <1>3, <2>1
  <2>2. CASE p < n
    BY <1>1, <1>3, <1>4, <1>9, <2>2
  <2> QED
    BY <2>1, <2>2
<1>10. ASSUME ~q.isFinal
       PROVE  /\ p < PayloadBytes /\ q.pos = p + 1
              /\ p + 1 <= n /\ q.next = file[p + 1]
  BY <1>1, <1>3, <1>4, <1>6, <1>10
<1> QED
  BY <1>3, <1>8, <1>9, <1>10 DEF q

\* The reader's state on a file with payload, after a read_next of it.
LEMMA ReaderAfterReadNext ==
  ASSUME BitTypeOK, BitTypeOK', FileInv, closed, file # <<>>, UNCHANGED <<file, bitsSent>>,
         reading', closed',
         NEW r \in Reader, ~r.isFinal,
         r.pos \in 1 .. PayloadBytes, r.next = file[r.pos],
         rd' = ReadNext(r), Len(bitsGot') = 8 * (r.pos - 1)
  PROVE  ReaderInv'
<1>1. /\ rd' \in Reader /\ rd'.cursor = 7 /\ rd'.current = file[r.pos]
      /\ rd'.isFinal => /\ r.pos = PayloadBytes
                        /\ rd'.finalBits = FinalCount(file[Len(file)])
      /\ ~rd'.isFinal => /\ r.pos < PayloadBytes
                         /\ rd'.pos = r.pos + 1
                         /\ r.pos + 1 <= Len(file)
                         /\ rd'.next = file[r.pos + 1]
  BY ReadNextFacts
<1>2. PayloadBytes' = PayloadBytes
  BY DEF PayloadBytes
<1>3. r.pos \in Nat \ {0} /\ Len(file) \in Nat
  BY PayloadBytesFacts DEF Reader
<1>4. Row' = r.pos
  BY <1>1, <1>2, <1>3 DEF Row
<1>5. Len(bitsGot') = 8 * (Row' - 1) + 7 - rd'.cursor
  BY <1>1, <1>3, <1>4
<1>6. rd'.isFinal => rd'.cursor >= 7 - rd'.finalBits
  BY <1>1 DEF Reader
<1>7. ~rd'.isFinal => rd'.pos \in 1 .. Len(file) /\ rd'.next = file[rd'.pos]
  BY <1>1, <1>3
<1> QED
  BY <1>1, <1>2, <1>4, <1>5, <1>6, <1>7 DEF ReaderInv

LEMMA OpenReaderIInv ==
  ASSUME IInv, OpenReader
  PROVE  IInv'
<1>1. /\ closed /\ ~reading /\ reading' = TRUE /\ bitsGot = <<>> /\ file # <<>>
      /\ UNCHANGED <<file, wr, closed, bitsSent, bitsGot>>
  BY DEF OpenReader, IInv, FileInv
<1> DEFINE r == NewReader(file[1], FALSE, 1)
<1>2. PayloadBytes \in 1 .. Len(file) /\ file \in Seq(Octet) /\ BitTypeOK /\ FileInv
  BY <1>1, PayloadBytesFacts DEF IInv, BitTypeOK
<1>3. /\ r.pos = 1 /\ r.next = file[1] /\ r.isFinal = FALSE
  BY DEF NewReader
<1>4. r \in Reader
  BY <1>1, <1>2, ZeroByteFacts DEF NewReader, Reader
<1>5. rd' = ReadNext(r)
  BY <1>1 DEF OpenReader
<1> HIDE DEF r
<1>6. r.pos \in 1 .. PayloadBytes /\ r.next = file[r.pos]
  BY <1>2, <1>3
<1>7. rd' \in Reader
  BY <1>1, <1>2, <1>3, <1>4, <1>5, <1>6, ReadNextFacts
<1>8. BitTypeOK'
  BY <1>1, <1>2, <1>7 DEF BitTypeOK
<1>9. Len(bitsGot') = 8 * (r.pos - 1)
  BY <1>1, <1>3
<1>10. ReaderInv'
  BY <1>1, <1>2, <1>3, <1>4, <1>5, <1>6, <1>8, <1>9, ReaderAfterReadNext
<1>11. FileInv'
  BY <1>1, <1>2 DEF FileInv, PayloadBytes
<1> QED
  BY <1>1, <1>8, <1>10, <1>11 DEF IInv, RoundTrip, WriterInv

LEMMA OpenEmptyFileIInv ==
  ASSUME IInv, OpenEmptyFile
  PROVE  IInv'
<1>1. /\ ~closed /\ bitsSent = <<>> /\ bitsGot = <<>> /\ closed' = TRUE /\ reading' = TRUE
      /\ rd' = NewReader(ZeroByte, TRUE, 0)
      /\ UNCHANGED <<file, wr, bitsSent, bitsGot>>
  BY DEF OpenEmptyFile, IInv, WriterInv
<1>2. file = <<>>
  BY <1>1 DEF IInv, WriterInv, BitTypeOK, Writer
<1>3. rd'.isFinal = TRUE /\ rd'.finalBits = 0 /\ rd' \in Reader
  BY <1>1, ZeroByteFacts DEF NewReader, Reader
<1> QED
  BY <1>1, <1>2, <1>3 DEF IInv, BitTypeOK, RoundTrip, WriterInv, FileInv, ReaderInv

LEMMA ReadBitIInv ==
  ASSUME IInv, ReadBit
  PROVE  IInv'
<1>1. /\ reading /\ closed /\ ~AtEof(rd) /\ file # <<>>
      /\ bitsGot' = Append(bitsGot, rd.current[rd.cursor])
      /\ UNCHANGED <<file, wr, closed, reading, bitsSent>>
  BY DEF ReadBit, IInv, ReaderInv, AtEof, BitTypeOK, Reader
<1>2. /\ rd \in Reader /\ rd.cursor \in 0 .. 7 /\ file \in Seq(Octet)
      /\ bitsGot \in Seq({0, 1}) /\ bitsSent \in Seq({0, 1})
      /\ rd.finalBits \in 0 .. 7 /\ rd.isFinal \in BOOLEAN
  BY DEF IInv, BitTypeOK, Reader
<1>3. /\ Len(file) \in Nat \ {0}
      /\ PayloadBytes \in 1 .. Len(file)
      /\ FinalCount(file[Len(file)]) \in 0 .. 7
      /\ Len(bitsSent) = 8 * (PayloadBytes - 1) + FinalCount(file[Len(file)])
      /\ PayloadBits(bitsSent, file, Len(bitsSent), Len(file))
  BY <1>1, PayloadBytesFacts DEF IInv
<1>4. PICK n \in Nat, g \in Nat, pb \in Nat, row \in Nat,
           cur \in 0 .. 7, fb \in 0 .. 7 :
        /\ n = Len(bitsSent) /\ g = Len(bitsGot) /\ pb = PayloadBytes
        /\ row = Row /\ cur = rd.cursor /\ fb = rd.finalBits
        /\ row \in 1 .. pb /\ row \in 1 .. Len(file)
  <2>1. Row \in 1 .. PayloadBytes
    BY <1>1 DEF IInv, ReaderInv
  <2>2. Row \in Nat /\ Row \in 1 .. Len(file) /\ PayloadBytes \in Nat
    BY <1>3, <2>1
  <2>3. Len(bitsSent) \in Nat /\ Len(bitsGot) \in Nat
    BY <1>2
  <2> USE <1>2, <2>2, <2>3
  <2> WITNESS Len(bitsSent) \in Nat, Len(bitsGot) \in Nat, PayloadBytes \in Nat, Row \in Nat,
              rd.cursor \in 0 .. 7, rd.finalBits \in 0 .. 7
  <2> QED
    BY <2>1, <2>2
<1>5. /\ rd.current = file[row]
      /\ g = 8 * (row - 1) + 7 - cur
      /\ g <= n /\ \A k \in 1 .. g : bitsGot[k] = bitsSent[k]
      /\ rd.isFinal => n = 8 * (pb - 1) + fb /\ row = pb
      /\ ~rd.isFinal => /\ rd.pos \in 1 .. Len(file)
                        /\ rd.next = file[rd.pos]
                        /\ row < pb /\ row = rd.pos - 1
      /\ n >= 8 * (pb - 1)
  <2>1. /\ rd.current = file[Row]
        /\ Len(bitsGot) = 8 * (Row - 1) + 7 - rd.cursor
        /\ rd.isFinal => rd.finalBits = FinalCount(file[Len(file)])
        /\ ~rd.isFinal => /\ rd.pos \in 1 .. Len(file)
                          /\ rd.next = file[rd.pos]
                          /\ Row < PayloadBytes
    BY <1>1 DEF IInv, ReaderInv
  <2>2. Len(bitsGot) <= Len(bitsSent) /\ \A k \in 1 .. Len(bitsGot) : bitsGot[k] = bitsSent[k]
    BY DEF IInv, RoundTrip
  <2>3. /\ rd.isFinal => row = pb
        /\ ~rd.isFinal => row = rd.pos - 1
    BY <1>4 DEF Row
  <2>4. n >= 8 * (pb - 1)
    BY <1>3, <1>4, SMTT(30)
  <2>5. rd.isFinal => n = 8 * (pb - 1) + fb
    BY <1>3, <1>4, <2>1
  <2> QED
    BY <1>4, <2>1, <2>2, <2>3, <2>4, <2>5
<1>6. rd.isFinal => cur > 7 - fb
  BY <1>1, <1>2, <1>4 DEF AtEof
<1>7. 8 * row - cur <= n
  <2>1. CASE rd.isFinal
    <3>1. n = 8 * (row - 1) + fb /\ cur > 7 - fb
      BY <1>5, <1>6, <2>1
    <3> QED
      BY <3>1
  <2>2. CASE ~rd.isFinal
    <3>1. n >= 8 * (pb - 1) /\ row < pb
      BY <1>5, <2>2
    <3> QED
      BY <3>1
  <2> QED
    BY <2>1, <2>2
<1>8. bitsSent[8 * row - cur] = file[row][cur]
  BY <1>3, <1>4, <1>7 DEF PayloadBits
<1>9. /\ Len(bitsGot') = g + 1 /\ g + 1 <= n /\ bitsGot' \in Seq({0, 1})
      /\ \A k \in 1 .. g + 1 : bitsGot'[k] = bitsSent[k]
  <2>1. g + 1 = 8 * row - cur
    BY <1>5
  <2>2. file[row] \in Octet
    BY <1>2, <1>4
  <2>3. file[row][cur] \in {0, 1}
    BY <2>2 DEF Octet
  <2>4. bitsGot' = Append(bitsGot, file[row][cur])
    BY <1>1, <1>4, <1>5
  <2>5. /\ Len(bitsGot') = g + 1 /\ bitsGot' \in Seq({0, 1})
        /\ bitsGot'[g + 1] = file[row][cur]
        /\ \A k \in 1 .. g : bitsGot'[k] = bitsGot[k]
    BY <1>2, <1>4, <2>3, <2>4
  <2> QED
    BY <1>5, <1>7, <1>8, <2>1, <2>5
<1>10. RoundTrip'
  BY <1>1, <1>4, <1>9 DEF RoundTrip
<1>11. WriterInv' /\ FileInv'
  BY <1>1 DEF IInv, WriterInv, FileInv, PayloadBytes
<1>12. CASE cur > 0
  <2>1. rd' = [rd EXCEPT !.cursor = cur - 1]
    BY <1>4, <1>12 DEF ReadBit
  <2>2. /\ rd'.current = rd.current /\ rd'.next = rd.next /\ rd'.pos = rd.pos
        /\ rd'.isFinal = rd.isFinal /\ rd'.finalBits = rd.finalBits
        /\ rd'.cursor = cur - 1 /\ rd' \in Reader
    <3>1. cur - 1 \in 0 .. 7
      BY <1>12
    <3> QED
      BY <1>2, <2>1, <3>1 DEF Reader
  <2>3. BitTypeOK'
    BY <1>1, <1>9, <2>2 DEF BitTypeOK, IInv
  <2>4. PayloadBytes' = pb /\ Row' = row
    BY <1>1, <1>4, <2>2 DEF PayloadBytes, Row
  <2>5. Len(bitsGot') = 8 * (row - 1) + 7 - (cur - 1)
    BY <1>5, <1>9
  <2>6. rd.isFinal => cur - 1 >= 7 - fb
    BY <1>6
  <2>7. ReaderInv'
    <3>1. Row' \in 1 .. PayloadBytes' /\ rd'.current = file'[Row']
      BY <1>1, <1>4, <1>5, <2>2, <2>4
    <3>2. Len(bitsGot') = 8 * (Row' - 1) + 7 - rd'.cursor
      BY <2>2, <2>4, <2>5
    <3>3. rd'.isFinal => /\ rd'.finalBits = FinalCount(file'[Len(file')])
                         /\ rd'.cursor >= 7 - rd'.finalBits
      BY <1>1, <1>4, <2>2, <2>6 DEF IInv, ReaderInv
    <3>4. ~rd'.isFinal => /\ rd'.pos \in 1 .. Len(file')
                          /\ rd'.next = file'[rd'.pos]
                          /\ Row' < PayloadBytes'
      BY <1>1, <1>5, <2>2, <2>4
    <3> QED
      BY <1>1, <3>1, <3>2, <3>3, <3>4 DEF ReaderInv
  <2> QED
    BY <1>10, <1>11, <2>3, <2>7 DEF IInv
<1>13. CASE cur = 0
  <2>1. ~rd.isFinal
    BY <1>2, <1>6, <1>13
  <2>2. rd' = ReadNext(rd)
    BY <1>4, <1>13 DEF ReadBit
  <2>3. rd.pos = row + 1 /\ rd.pos \in 1 .. PayloadBytes /\ rd.next = file[rd.pos]
    BY <1>4, <1>5, <2>1
  <2>4. rd' \in Reader
    BY <1>1, <1>2, <2>1, <2>2, <2>3, ReadNextFacts DEF IInv
  <2>5. BitTypeOK'
    BY <1>1, <1>9, <2>4 DEF BitTypeOK, IInv
  <2>6. Len(bitsGot') = 8 * (rd.pos - 1)
    BY <1>5, <1>9, <1>13, <2>3
  <2>7. ReaderInv'
    BY <1>1, <1>2, <2>1, <2>2, <2>3, <2>5, <2>6, ReaderAfterReadNext DEF IInv
  <2> QED
    BY <1>10, <1>11, <2>5, <2>7 DEF IInv
<1> QED
  BY <1>12, <1>13
-----------------------------------------------------------------------------
(* The invariant, and what follows from it. *)

LEMMA StepIInv ==
  ASSUME IInv, [BitNext]_bitVars
  PROVE  IInv'
<1>1. CASE CloseWriter
  BY <1>1, CloseWriterIInv
<1>2. ASSUME NEW bit \in Bits, WriteBit(bit)
      PROVE  IInv'
  BY <1>2, WriteBitIInv
<1>3. CASE OpenReader
  BY <1>3, OpenReaderIInv
<1>4. CASE ReadBit
  BY <1>4, ReadBitIInv
<1>5. CASE OpenEmptyFile
  BY <1>5, OpenEmptyFileIInv
<1>6. CASE UNCHANGED bitVars
  BY <1>6 DEF bitVars, IInv, BitTypeOK, RoundTrip, WriterInv, FileInv, ReaderInv,
              PayloadBytes, Row
<1> QED
  BY <1>1, <1>2, <1>3, <1>4, <1>5, <1>6 DEF BitNext, WriterStep, ReaderStep

\* IInv holds in every reachable state: the two bit streams agree at every
\* moment on where each payload bit is.
THEOREM InductiveInvariant == BitSafeSpec => []IInv
<1>1. BitInit => IInv
  BY InitIInv
<1>2. IInv /\ [BitNext]_bitVars => IInv'
  BY StepIInv
<1> QED
  BY <1>1, <1>2, PTL DEF BitSafeSpec

\* The fields of the writer and of the reader keep their C++ ranges.
THEOREM TypeCorrect == BitSpec => []BitTypeOK
<1>1. IInv => BitTypeOK
  BY DEF IInv
<1> QED
  BY <1>1, InductiveInvariant, PTL DEF BitSpec

\* The bits read_bit returns before eof() are the bits write_bit was given.
THEOREM RoundTripHolds == BitSpec => []RoundTrip
<1>1. IInv => RoundTrip
  BY DEF IInv
<1> QED
  BY <1>1, InductiveInvariant, PTL DEF BitSpec

\* eof() holds exactly when every written bit has been delivered.
THEOREM ExactEofHolds == BitSpec => []ExactEof
<1>1. IInv => ExactEof
  <2> SUFFICES ASSUME IInv, reading
               PROVE  AtEof(rd) <=> Len(bitsGot) = Len(bitsSent)
    BY DEF ExactEof
  <2>1. closed /\ rd \in Reader /\ BitTypeOK /\ FileInv
    BY DEF IInv, BitTypeOK, ReaderInv
  <2>2. CASE file = <<>>
    BY <2>1, <2>2 DEF IInv, ReaderInv, FileInv, AtEof, Reader
  <2>3. CASE file # <<>>
    <3>1. /\ Row \in 1 .. PayloadBytes
          /\ Len(bitsGot) = 8 * (Row - 1) + 7 - rd.cursor
          /\ rd.isFinal => /\ rd.finalBits = FinalCount(file[Len(file)])
                           /\ rd.cursor >= 7 - rd.finalBits
          /\ ~rd.isFinal => Row < PayloadBytes
      BY <2>1, <2>3 DEF IInv, ReaderInv
    <3>2. /\ PayloadBytes \in Nat /\ FinalCount(file[Len(file)]) \in 0 .. 7
          /\ Len(bitsSent) = 8 * (PayloadBytes - 1) + FinalCount(file[Len(file)])
      BY <2>1, <2>3, PayloadBytesFacts
    <3>3. rd.cursor \in 0 .. 7 /\ Row \in Nat
      BY <2>1, <3>1, <3>2 DEF Reader
    <3>4. CASE rd.isFinal
      <4>1. Row = PayloadBytes
        BY <3>4 DEF Row
      <4>2. PICK pb \in Nat, cur \in 0 .. 7, fb \in 0 .. 7 :
               pb = PayloadBytes /\ cur = rd.cursor /\ fb = rd.finalBits
        BY <3>1, <3>2, <3>3, <3>4
      <4>3. /\ Len(bitsGot) = 8 * (pb - 1) + 7 - cur
            /\ Len(bitsSent) = 8 * (pb - 1) + fb
            /\ cur >= 7 - fb
        BY <3>1, <3>2, <3>4, <4>1, <4>2
      <4>4. cur <= 7 - fb <=> Len(bitsGot) = Len(bitsSent)
        BY <4>3
      <4> QED
        BY <3>4, <4>2, <4>4 DEF AtEof
    <3>5. CASE ~rd.isFinal
      <4>1. PICK pb \in Nat, row \in Nat, cur \in 0 .. 7, fc \in 0 .. 7 :
               /\ pb = PayloadBytes /\ row = Row /\ cur = rd.cursor
               /\ fc = FinalCount(file[Len(file)])
        BY ONLY <3>2, <3>3
      <4>2. /\ row >= 1 /\ row < pb
            /\ Len(bitsGot) = 8 * (row - 1) + 7 - cur
            /\ Len(bitsSent) = 8 * (pb - 1) + fc
        BY ONLY <3>1, <3>2, <3>5, <4>1
      <4>3. ASSUME NEW r \in Nat, NEW p \in Nat, NEW u \in 0 .. 7, NEW w \in 0 .. 7, r < p
            PROVE  8 * (r - 1) + 7 - u # 8 * (p - 1) + w
        <5>1. r - 1 + 1 <= p - 1 /\ 7 - u < 8 /\ 0 <= w
          BY ONLY <4>3
        <5> QED
          BY ONLY <5>1, <4>3
      <4>4. Len(bitsGot) # Len(bitsSent)
        BY ONLY <4>1, <4>2, <4>3
      <4> QED
        BY <3>5, <4>4 DEF AtEof
    <3> QED
      BY <3>4, <3>5
  <2> QED
    BY <2>2, <2>3
<1> QED
  BY <1>1, InductiveInvariant, PTL DEF BitSpec

\* The end marker costs 3 to 10 bits: never more than one extra byte.
THEOREM FileSizeHolds == BitSpec => []FileSize
<1>1. IInv => FileSize
  <2> SUFFICES ASSUME IInv, closed, file # <<>>
               PROVE  8 * Len(file) \in Len(bitsSent) + 3 .. Len(bitsSent) + 10
    BY DEF FileSize
  <2>1. BitTypeOK /\ FileInv
    BY DEF IInv
  <2>2. PICK n \in Nat, m \in Nat, pb \in Nat, count \in 0 .. 7 :
           /\ n = Len(bitsSent) /\ m = Len(file) /\ pb = PayloadBytes
           /\ count = FinalCount(file[Len(file)])
    BY <2>1, PayloadBytesFacts DEF BitTypeOK
  <2>3. /\ n = 8 * (pb - 1) + count
        /\ count <= 5 => pb = m
        /\ count > 5 => pb = m - 1
    BY <2>1, <2>2, PayloadBytesFacts
  <2>4. 8 * m \in n + 3 .. n + 10
    BY <2>3
  <2> QED
    BY <2>2, <2>4
<1> QED
  BY <1>1, InductiveInvariant, PTL DEF BitSpec

\* A sequence that agrees with a longer one is a prefix of it.
LEMMA BitPrefixIsSubSeq ==
  ASSUME NEW S, NEW s \in Seq(S), NEW t \in Seq(S), Len(s) <= Len(t),
         \A k \in 1 .. Len(s) : s[k] = t[k]
  PROVE  s = SubSeq(t, 1, Len(s))
<1>1. /\ SubSeq(t, 1, Len(s)) \in Seq(S)
      /\ Len(SubSeq(t, 1, Len(s))) = Len(s)
      /\ \A k \in 1 .. Len(s) : SubSeq(t, 1, Len(s))[k] = t[k]
  OBVIOUS
<1> QED
  BY <1>1, SeqEqual

\* Every step of the two streams is a step of the lossless channel or leaves
\* it unchanged (the safety part of the refinement; its liveness is left to
\* the model checker).
THEOREM BitsImplementChannel == BitSpec => BitChannel!SafeSpec
<1>1. BitInit => BitChannel!Init
  BY DEF BitInit, BitChannel!Init
<1>2. ASSUME IInv, IInv', [BitNext]_bitVars
      PROVE  [BitChannel!Next]_(BitChannel!vars)
  <2>1. ASSUME NEW bit \in Bits, WriteBit(bit)
        PROVE  BitChannel!Send
    BY <2>1, BitsAssumption DEF WriteBit, BitChannel!Send
  <2>2. CASE CloseWriter \/ OpenEmptyFile
    BY <2>2 DEF CloseWriter, OpenEmptyFile, BitChannel!Close, BitChannel!Next
  <2>3. CASE OpenReader \/ UNCHANGED bitVars
    BY <2>3 DEF OpenReader, bitVars, BitChannel!vars
  <2>4. CASE ReadBit
    <3>1. /\ Len(bitsGot') = Len(bitsGot) + 1 /\ bitsGot' \in Seq({0, 1}) /\ bitsSent \in Seq({0, 1})
          /\ UNCHANGED <<bitsSent, closed>>
      BY <1>2, <2>4 DEF ReadBit, IInv, BitTypeOK
    <3>2. Len(bitsGot') <= Len(bitsSent) /\ \A k \in 1 .. Len(bitsGot') : bitsGot'[k] = bitsSent[k]
      BY <1>2, <3>1 DEF IInv, RoundTrip
    <3>3. bitsGot' = SubSeq(bitsSent, 1, Len(bitsGot'))
      BY <3>1, <3>2, BitPrefixIsSubSeq
    <3>4. Len(bitsGot') \in Len(bitsGot) + 1 .. Len(bitsSent)
      BY <1>2, <3>1, <3>2 DEF IInv, BitTypeOK
    <3> QED
      BY <3>1, <3>3, <3>4 DEF BitChannel!Deliver, BitChannel!Next
  <2> QED
    BY <1>2, <2>1, <2>2, <2>3, <2>4 DEF BitNext, WriterStep, ReaderStep, BitChannel!Next
<1> QED
  BY <1>1, <1>2, InductiveInvariant, PTL DEF BitSpec, BitSafeSpec, BitChannel!SafeSpec
=============================================================================
