----------------------- MODULE RestrictedBufferProofs -----------------------
(***************************************************************************)
(* Proofs about RestrictedBuffer, for texts of any length, every pool and  *)
(* every set of restrictions the pool suffices for: both conversions in    *)
(* place read what they have not destroyed, stay inside the map, and the   *)
(* view is the restricted form of the text after every history.            *)
(***************************************************************************)
EXTENDS RestrictedBuffer, DataProofs

Contents == Byte \cup ToSet(Pool) \cup {0}

(***************************************************************************)
(* The inductive invariant, for a text of n characters.                    *)
(***************************************************************************)
End(n) == Offset(restr, text, n + 1)
Stored(n, from) == Layout(restr, text, n, mem, from)

NewInv(n) ==
  phase \in {"new", "fill"} =>
    /\ target = NoRestriction
    /\ phase = "new" => size = 0
    /\ size <= n /\ Prefix(text, mem, size)
    /\ \A k \in size + 1 .. MemSize : mem[k] = 0
\* While a text is escaped, its end is in place and its beginning unread.
EscapeInv(n) ==
  phase = "escape" =>
    /\ size = End(n) + Noff(restr)
    /\ rd <= n
    /\ rd > 0 => wr = Offset(restr, text, rd + 1)
    /\ kind # "view" => Prefix(text, mem, rd)
    /\ Stored(n, rd + 1)
    /\ restr.null /\ kind # "file" /\ target = NoRestriction => mem[size] = 0
ReadyInv(n) ==
  phase = "ready" =>
    /\ rd = 0 /\ wr = 0
    /\ size = End(n) + Noff(restr)
    /\ Stored(n, 1)
    /\ restr.null => mem[size] = 0
\* While it is unescaped, the pair or byte at the read pointer is that of the
\* next character.
UnescapeInv(n) ==
  phase = "unescape" =>
    /\ kind = "stream" /\ restr.escape # {}
    /\ size = End(n) + Noff(restr)
    /\ wr <= n /\ rd = Offset(restr, text, wr + 1)
    /\ Prefix(text, mem, wr)
    /\ Stored(n, wr + 1)
RestrictInv(n) ==
  phase = "restrict" =>
    /\ kind = "stream" /\ restr = NoRestriction
    /\ size = n /\ Prefix(text, mem, size)
Good(n) ==
  /\ n = Len(text) /\ n \in 0 .. MaxLen
  /\ text \in [1 .. n -> Byte] /\ tail \in Seq(Byte)
  /\ TypeOK
  /\ NewInv(n) /\ EscapeInv(n) /\ ReadyInv(n) /\ UnescapeInv(n) /\ RestrictInv(n)

BufferInv == text \in Seq(Byte) /\ Good(Len(text))
-----------------------------------------------------------------------------
LEMMA RestrictionFacts ==
  \A r \in Restrictions \cup {NoRestriction} :
    /\ PoolSuffices(r) /\ (r.escape = {} => ~r.null)
    /\ r.null \in BOOLEAN /\ Noff(r) \in {0, 1}
    /\ r.null => Noff(r) = 1
    /\ ~r.null => Noff(r) = 0
<1>1. PoolSuffices(NoRestriction) /\ NoRestriction.escape = {} /\ NoRestriction.null = FALSE
  BY FS_EmptySet DEF PoolSuffices, NoRestriction
<1>2. \A r \in Restrictions : PoolSuffices(r) /\ (r.escape = {} => ~r.null) /\ r.null \in BOOLEAN
  BY BufferAssumption DEF PoolSuffices
<1> QED
  BY <1>1, <1>2 DEF Noff

\* A terminated or escaped text fits the memory.
LEMMA FitsMemory ==
  ASSUME NEW n \in 0 .. MaxLen, NEW r \in Restrictions \cup {NoRestriction}, NEW t
  PROVE  /\ Offset(r, t, n + 1) \in Nat
         /\ Offset(r, t, n + 1) + Noff(r) \in 0 .. MemSize
<1>1. n \in Nat /\ MaxLen \in Nat /\ MemSize \in Nat /\ MemSize >= 2 * MaxLen + 1 /\ n <= MaxLen
  BY BufferAssumption
<1>2. Offset(r, t, n + 1) \in Nat /\ Offset(r, t, n + 1) <= 2 * n
  BY <1>1, OffsetBound
<1> QED
  BY <1>1, <1>2, RestrictionFacts

\* One iteration of the escaping loop.
LEMMA EscapeStepGood ==
  ASSUME NEW n, Good(n), EscapeStep
  PROVE  Good(n)'
<1> DEFINE b == IF kind = "view" THEN text[rd] ELSE mem[rd]
<1>0. /\ n \in Nat /\ n \in 0 .. MaxLen /\ text \in [1 .. n -> Byte]
      /\ phase = "escape" /\ rd \in 1 .. n /\ rd - 1 \in 0 .. n /\ rd - 1 \in Nat
      /\ MemSize \in Nat /\ restr \in Restrictions \cup {NoRestriction}
      /\ mem \in [1 .. MemSize -> Contents] /\ wr \in Nat
  <2>1. phase = "escape" /\ rd > 0
    BY DEF EscapeStep
  <2>2. /\ n \in 0 .. MaxLen /\ text \in [1 .. n -> Byte] /\ TypeOK /\ rd <= n
    BY <2>1 DEF Good, EscapeInv
  <2>3. /\ rd \in 0 .. MemSize /\ wr \in 0 .. MemSize
        /\ restr \in Restrictions \cup {NoRestriction}
        /\ mem \in [1 .. MemSize -> Contents]
    BY <2>2 DEF TypeOK, Contents
  <2>4. MaxLen \in Nat /\ MemSize \in Nat
    BY BufferAssumption
  <2>5. n \in Nat /\ rd \in 1 .. n /\ rd - 1 \in 0 .. n /\ rd - 1 \in Nat /\ wr \in Nat
    BY <2>1, <2>2, <2>3, <2>4
  <2> QED
    BY <2>1, <2>2, <2>3, <2>4, <2>5
<1>1. /\ size = End(n) + Noff(restr)
      /\ wr = Offset(restr, text, rd + 1)
      /\ kind # "view" => Prefix(text, mem, rd)
      /\ Layout(restr, text, n, mem, rd + 1)
      /\ restr.null /\ kind # "file" /\ target = NoRestriction => mem[size] = 0
  BY <1>0 DEF Good, EscapeInv, Stored
<1>2. b = text[rd]
  BY <1>0, <1>1 DEF Prefix
<1>3. PoolSuffices(restr)
  BY <1>0, RestrictionFacts
<1>4. /\ rd' = rd - 1
      /\ text[rd] \in Escaped(restr) =>
           /\ mem' = [mem EXCEPT ![wr] = Replacement(restr)[text[rd]], ![wr - 1] = EscapeByte(restr)]
           /\ wr' = wr - 2
      /\ text[rd] \notin Escaped(restr) =>
           mem' = [mem EXCEPT ![wr] = text[rd]] /\ wr' = wr - 1
      /\ UNCHANGED <<source, restr, target, phase, size, cap>>
  BY <1>2 DEF EscapeStep
<1>5. PICK p \in Nat, e \in Nat, i \in Nat :
        /\ p = Offset(restr, text, rd) /\ e = Offset(restr, text, n + 1) /\ i = rd
        /\ i \in 1 .. n /\ i - 1 <= p /\ p < wr /\ wr + (n - i) <= e /\ e <= MemSize
        /\ text[i] \in Escaped(restr) => wr = p + 2
        /\ text[i] \notin Escaped(restr) => wr = p + 1
  <2>1. Offset(restr, text, n + 1) \in Nat /\ Offset(restr, text, n + 1) <= MemSize
    <3>1. Offset(restr, text, n + 1) \in Nat /\ Offset(restr, text, n + 1) + Noff(restr) \in 0 .. MemSize
      BY <1>0, FitsMemory
    <3> QED
      BY <1>0, <3>1, RestrictionFacts
  <2>2. /\ Offset(restr, text, rd) \in Nat /\ rd - 1 <= Offset(restr, text, rd)
        /\ Offset(restr, text, rd) < wr /\ wr + (n - rd) <= Offset(restr, text, n + 1)
        /\ text[rd] \in Escaped(restr) => wr = Offset(restr, text, rd) + 2
        /\ text[rd] \notin Escaped(restr) => wr = Offset(restr, text, rd) + 1
    <3>1. /\ Offset(restr, text, rd) \in Nat /\ rd - 1 <= Offset(restr, text, rd)
          /\ Offset(restr, text, rd) < Offset(restr, text, rd + 1)
          /\ Offset(restr, text, rd + 1) + (n - rd) <= Offset(restr, text, n + 1)
          /\ text[rd] \in Escaped(restr) => Offset(restr, text, rd + 1) = Offset(restr, text, rd) + 2
          /\ text[rd] \notin Escaped(restr) => Offset(restr, text, rd + 1) = Offset(restr, text, rd) + 1
      BY <1>0, OffsetOrder, ZenonT(40)
    <3> QED
      BY <1>1, <3>1
  <2> QED
    BY <1>0, <2>1, <2>2
<1> HIDE DEF b
<1>6. /\ mem' \in [1 .. MemSize -> Contents]
      /\ Shows(restr, text[i], mem', p)
      /\ \A k \in 1 .. MemSize : k < i \/ k > wr => mem'[k] = mem[k]
  <2>1. wr \in 1 .. MemSize /\ i <= wr
    BY <1>0, <1>5
  <2>2. CASE text[i] \in Escaped(restr)
    <3>1. /\ mem' = [mem EXCEPT ![wr] = Replacement(restr)[text[i]], ![wr - 1] = EscapeByte(restr)]
          /\ wr = p + 2
      BY <1>4, <1>5, <2>2
    <3>5. /\ wr - 1 \in 1 .. MemSize /\ wr - 1 # wr /\ wr - 1 = p + 1
          /\ \A k \in 1 .. MemSize : k < i \/ k > wr => k # wr /\ k # wr - 1
      <4>1. i \in Nat /\ p \in Nat /\ wr \in Nat /\ MemSize \in Nat /\ wr <= MemSize /\ i - 1 <= p /\ wr = p + 2
        BY <1>0, <1>5, <2>1, <3>1
      <4> QED
        BY <4>1
    <3>2. EscapeByte(restr) \in Contents /\ Replacement(restr)[text[i]] \in Contents
      BY <1>3, <2>2, CodeFacts DEF Contents
    <3>3. /\ mem' \in [1 .. MemSize -> Contents]
          /\ mem'[wr] = Replacement(restr)[text[i]] /\ mem'[wr - 1] = EscapeByte(restr)
          /\ \A k \in 1 .. MemSize : k # wr /\ k # wr - 1 => mem'[k] = mem[k]
      BY <1>0, <2>1, <3>1, <3>2, <3>5
    <3>4. Shows(restr, text[i], mem', p)
      BY <2>2, <3>1, <3>3, <3>5 DEF Shows
    <3> QED
      BY <3>3, <3>4, <3>5
  <2>3. CASE text[i] \notin Escaped(restr)
    <3>1. mem' = [mem EXCEPT ![wr] = text[i]] /\ wr = p + 1
      BY <1>0, <1>4, <1>5, <2>3
    <3>2. text[i] \in Contents
      BY <1>0, <1>5 DEF Contents
    <3>3. /\ mem' \in [1 .. MemSize -> Contents]
          /\ mem'[wr] = text[i]
          /\ \A k \in 1 .. MemSize : k # wr => mem'[k] = mem[k]
      BY <1>0, <2>1, <3>1, <3>2
    <3>4. Shows(restr, text[i], mem', p)
      BY <1>0, <2>3, <3>1, <3>3 DEF Shows
    <3> QED
      BY <1>0, <1>5, <2>1, <3>1, <3>3, <3>4, SMTT(30)
  <2> QED
    BY <2>2, <2>3
<1>7. Layout(restr, text, n, mem', rd)
  <2>1. \A k \in Nat : k > wr /\ k <= e => mem'[k] = mem[k]
    BY <1>0, <1>5, <1>6
  <2>2. Layout(restr, text, n, mem', i + 1)
    <3>1. i + 1 \in Nat \ {0} /\ i + 1 \in Nat /\ i + 1 <= i + 1
      BY <1>5
    <3>2. Layout(restr, text, n, mem, i + 1) /\ wr = Offset(restr, text, i + 1)
      BY <1>1, <1>5
    <3>3. \A k \in Nat : k > Offset(restr, text, i + 1) /\ k <= Offset(restr, text, n + 1)
            => mem'[k] = mem[k]
      BY <1>5, <2>1, <3>2
    <3> QED
      BY <1>0, <3>1, <3>2, <3>3, LayoutKept
  <2> QED
    BY <1>0, <1>5, <1>6, <2>2, LayoutGrows
<1>8. kind # "view" => Prefix(text, mem', rd - 1)
  <2>1. \A k \in 1 .. i - 1 : mem'[k] = mem[k] /\ k \in 1 .. i
    BY <1>0, <1>5, <1>6
  <2> QED
    BY <1>1, <1>5, <2>1 DEF Prefix
<1>9. mem'[size] = mem[size] \/ Noff(restr) = 0
  <2>1. CASE Noff(restr) = 1
    <3>1. size = e + 1 /\ size \in 1 .. MemSize /\ size > wr
      <4>1. size = e + 1
        BY <1>1, <1>5, <2>1 DEF End
      <4>2. e + 1 <= MemSize
        BY <1>0, <1>5, <2>1, FitsMemory
      <4>3. wr <= e
        BY <1>0, <1>5
      <4> QED
        BY <1>0, <1>5, <4>1, <4>2, <4>3
    <3> QED
      BY <1>6, <3>1
  <2> QED
    BY <1>0, <2>1, RestrictionFacts
<1>10. rd - 1 > 0 => wr' = Offset(restr, text, (rd - 1) + 1)
  BY <1>0, <1>4, <1>5
<1>11. wr' \in 0 .. MemSize /\ rd' \in 0 .. MemSize /\ rd - 1 + 1 = rd
  BY <1>0, <1>4, <1>5
<1>12. EscapeInv(n)'
  <2>1. size' = End(n)' + Noff(restr)'
    BY <1>1, <1>4 DEF End, source
  <2>2. rd' <= n /\ (rd' > 0 => wr' = Offset(restr, text, rd + 1)')
    BY <1>0, <1>4, <1>10 DEF source
  <2>3. kind' # "view" => Prefix(text, mem, rd)'
    BY <1>4, <1>8 DEF source
  <2>4. Stored(n, rd + 1)'
    BY <1>4, <1>7, <1>11 DEF Stored, source
  <2>5. (restr.null /\ kind # "file" /\ target = NoRestriction => mem[size] = 0)'
    BY <1>0, <1>1, <1>4, <1>9, RestrictionFacts DEF source
  <2> QED
    BY <2>1, <2>2, <2>3, <2>4, <2>5 DEF EscapeInv
<1>13. TypeOK'
  BY <1>4, <1>6, <1>11 DEF Good, TypeOK, Contents, source
<1> QED
  BY <1>0, <1>4, <1>12, <1>13
     DEF Good, NewInv, ReadyInv, UnescapeInv, RestrictInv, source

\* One iteration of the unescaping loop.
LEMMA UnescapeStepGood ==
  ASSUME NEW n, Good(n), UnescapeStep
  PROVE  Good(n)'
<1>0. /\ n \in Nat /\ n \in 0 .. MaxLen /\ text \in [1 .. n -> Byte]
      /\ phase = "unescape" /\ rd \in 0 .. MemSize /\ rd + 2 <= MemSize
      /\ MemSize \in Nat /\ restr \in Restrictions \cup {NoRestriction}
      /\ mem \in [1 .. MemSize -> Contents] /\ wr \in 0 .. n
  BY BufferAssumption, SMTT(30) DEF Good, TypeOK, UnescapeInv, UnescapeStep, Contents
<1>1. /\ kind = "stream" /\ restr.escape # {}
      /\ size = Offset(restr, text, n + 1) + Noff(restr)
      /\ rd = Offset(restr, text, wr + 1)
      /\ Prefix(text, mem, wr)
      /\ Layout(restr, text, n, mem, wr + 1)
  BY <1>0 DEF Good, UnescapeInv, Stored, End
<1>2. PoolSuffices(restr)
  BY <1>0, RestrictionFacts
<1>3. wr + 1 \in 1 .. n /\ wr + 1 \in Nat
  <2>1. Offset(restr, text, n + 1) \in Nat /\ Noff(restr) \in {0, 1}
    BY <1>0, FitsMemory, RestrictionFacts
  <2>2. DataEnd = Offset(restr, text, n + 1)
    BY <1>1, <2>1 DEF DataEnd
  <2>3. wr # n
    BY <1>1, <2>2 DEF UnescapeStep
  <2> QED
    BY <1>0, <2>3
<1>4. PICK i \in 1 .. n : i = wr + 1
  BY <1>3
<1>4a. PICK e \in Nat, q \in Nat :
        /\ e = Offset(restr, text, n + 1) /\ q = Offset(restr, text, i + 1)
        /\ rd = Offset(restr, text, i) /\ i - 1 <= rd
        /\ rd < q /\ q + (n - i) <= e
        /\ text[i] \in Escaped(restr) => q = rd + 2
        /\ text[i] \notin Escaped(restr) => q = rd + 1
  <2>1. /\ Offset(restr, text, i) \in Nat /\ i - 1 <= Offset(restr, text, i)
        /\ Offset(restr, text, i + 1) \in Nat /\ Offset(restr, text, n + 1) \in Nat
        /\ Offset(restr, text, i) < Offset(restr, text, i + 1)
        /\ Offset(restr, text, i + 1) + (n - i) <= Offset(restr, text, n + 1)
        /\ text[i] \in Escaped(restr) => Offset(restr, text, i + 1) = Offset(restr, text, i) + 2
        /\ text[i] \notin Escaped(restr) => Offset(restr, text, i + 1) = Offset(restr, text, i) + 1
    BY <1>0, OffsetOrder
  <2> QED
    BY <1>1, <1>4, <2>1
<1>5. Shows(restr, text[i], mem, rd)
  <2>1. i \in i .. n
    BY <1>0, <1>4, <1>4a
  <2> QED
    BY <1>1, <1>4, <1>4a, <2>1 DEF Layout
<1>6. /\ mem' = [mem EXCEPT ![i] = text[i]]
      /\ rd' = q /\ wr' = i
      /\ UNCHANGED <<source, restr, target, phase, size, cap>>
  <2>1. CASE text[i] \in Escaped(restr)
    <3>1. mem[rd + 1] = EscapeByte(restr) /\ mem[rd + 2] = Replacement(restr)[text[i]]
      BY <1>5, <2>1 DEF Shows
    <3>2. Unreplace(restr, mem[rd + 2]) = text[i]
      BY <1>2, <2>1, <3>1, CodeFacts
    <3> QED
      BY <1>4, <1>4a, <2>1, <3>1, <3>2 DEF UnescapeStep
  <2>2. CASE text[i] \notin Escaped(restr)
    <3>1. mem[rd + 1] = text[i]
      BY <1>5, <2>2 DEF Shows
    <3>2. text[i] # EscapeByte(restr)
      BY <1>1, <1>2, <2>2, PlainFacts
    <3> QED
      BY <1>4, <1>4a, <2>2, <3>1, <3>2 DEF UnescapeStep
  <2> QED
    BY <2>1, <2>2
<1>7. /\ mem' \in [1 .. MemSize -> Contents]
      /\ mem'[i] = text[i]
      /\ \A k \in 1 .. MemSize : k # i => mem'[k] = mem[k]
  <2>1. i \in 1 .. MemSize
    BY <1>0, <1>4, <1>4a
  <2>2. text[i] \in Contents
    BY <1>0, <1>4 DEF Contents
  <2> QED
    BY <1>0, <1>6, <2>1, <2>2
<1>8. e <= MemSize
  <2>1. Offset(restr, text, n + 1) + Noff(restr) \in 0 .. MemSize /\ Noff(restr) \in {0, 1}
    BY <1>0, FitsMemory, RestrictionFacts
  <2>2. PICK f \in {0, 1} : f = Noff(restr)
    BY <2>1
  <2>3. e + f \in 0 .. MemSize
    BY <1>4a, <2>1, <2>2
  <2> QED
    BY <1>0, <2>3
<1>9. Layout(restr, text, n, mem', i + 1)
  <2>1. i + 1 \in Nat \ {0} /\ i \in Nat /\ i <= i + 1 /\ Layout(restr, text, n, mem, i)
    BY <1>1, <1>4, <1>4a
  <2>2. \A k \in Nat : k > Offset(restr, text, i + 1) /\ k <= Offset(restr, text, n + 1)
          => mem'[k] = mem[k]
    BY <1>0, <1>4, <1>4a, <1>7, <1>8, SMTT(30)
  <2> QED
    BY <1>0, <2>1, <2>2, LayoutKept
<1>10. Prefix(text, mem', i)
  <2>1. \A k \in 1 .. i : k = i \/ (k \in 1 .. wr /\ k \in 1 .. MemSize /\ k # i)
    BY <1>0, <1>4, <1>4a
  <2> QED
    BY <1>1, <1>7, <2>1 DEF Prefix
<1>11. rd' \in 0 .. MemSize /\ wr' \in 0 .. MemSize /\ i <= n
  BY <1>0, <1>4, <1>4a, <1>6, <1>8, SMTT(30)
<1>12. UnescapeInv(n)'
  <2>1. size' = End(n)' + Noff(restr)'
    BY <1>1, <1>6 DEF End, source
  <2>2. wr' <= n /\ rd' = Offset(restr, text, wr + 1)'
    BY <1>4, <1>4a, <1>6, <1>11 DEF source
  <2>3. Prefix(text, mem, wr)'
    BY <1>6, <1>10 DEF source
  <2>4. Stored(n, wr + 1)'
    BY <1>6, <1>9 DEF Stored, source
  <2> QED
    BY <1>1, <1>6, <2>1, <2>2, <2>3, <2>4 DEF UnescapeInv, source
<1>13. TypeOK'
  BY <1>6, <1>7, <1>11 DEF Good, TypeOK, Contents, source
<1> QED
  BY <1>0, <1>6, <1>12, <1>13
     DEF Good, NewInv, EscapeInv, ReadyInv, RestrictInv, source
-----------------------------------------------------------------------------
(* How a text is loaded, and how a conversion starts and ends.             *)

\* Loading bytes leaves what lies behind them.
LEMMA LoadFacts ==
  ASSUME NEW s \in Seq(Contents), NEW old \in [1 .. MemSize -> Contents]
  PROVE  /\ Load(s, old) \in [1 .. MemSize -> Contents]
         /\ \A k \in 1 .. MemSize : k <= Len(s) => Load(s, old)[k] = s[k]
         /\ \A k \in 1 .. MemSize : k > Len(s) => Load(s, old)[k] = old[k]
<1>1. PICK l \in Nat : l = Len(s) /\ s \in [1 .. l -> Contents]
  BY LenProperties
<1>2. Load(s, old) = [i \in 1 .. MemSize |-> IF i <= l THEN s[i] ELSE old[i]]
  BY <1>1 DEF Load
<1>3. \A k \in 1 .. MemSize : k <= l => k \in 1 .. l
  OBVIOUS
<1> QED
  BY <1>1, <1>2, <1>3

\* The memory a text needs, and a text that needs no more than its length.
LEMMA ExtraFacts ==
  ASSUME NEW n \in 0 .. MaxLen, NEW r \in Restrictions \cup {NoRestriction}, NEW t,
         DOMAIN t = 1 .. n
  PROVE  /\ n + Extra(r, t) = Offset(r, t, n + 1) + Noff(r)
         /\ (n + Extra(r, t)) - Noff(r) = Offset(r, t, n + 1)
         /\ n + Extra(r, t) \in 0 .. MemSize
         /\ r.null => n + Extra(r, t) \in n + 1 .. MemSize
         /\ Extra(r, t) = 0 \/ r.escape = {} =>
              /\ Offset(r, t, n + 1) = n /\ Noff(r) = 0 /\ ~r.null
              /\ \A i \in 1 .. n : t[i] \notin Escaped(r)
<1>1. n \in Nat
  BY BufferAssumption
<1>2. PICK c \in Nat : c = Cardinality(Flagged(r, t, n)) /\ IsFiniteSet(Flagged(r, t, n))
  BY <1>1, FlaggedFinite
<1>3. Offset(r, t, n + 1) = n + c
  BY <1>1, <1>2, OffsetFlagged
<1>4. PICK f \in {0, 1} : f = Noff(r)
  BY RestrictionFacts
<1>5. Extra(r, t) = c + f
  BY <1>2, <1>4 DEF Extra, Flagged
<1>6. Offset(r, t, n + 1) + Noff(r) \in 0 .. MemSize
  BY FitsMemory
<1>7. c = 0 => \A i \in 1 .. n : t[i] \notin Escaped(r)
  <2>1. c = 0 => Flagged(r, t, n) = {}
    BY <1>2, FS_EmptySet
  <2> QED
    BY <2>1 DEF Flagged
<1>8. r.escape = {} => c = 0 /\ f = 0
  <2>1. ASSUME r.escape = {} PROVE Flagged(r, t, n) = {}
    BY <2>1 DEF Flagged, Escaped
  <2>2. r.escape = {} => f = 0
    BY <1>4, RestrictionFacts
  <2> QED
    BY <1>2, <2>1, <2>2, FS_EmptySet
<1>9. r.null => f = 1
  BY <1>4, RestrictionFacts
<1>10. MemSize \in Nat /\ n + c + f <= MemSize
  BY <1>1, <1>3, <1>4, <1>6, BufferAssumption
<1>11. c + f = 0 => c = 0 /\ f = 0
  BY <1>4
<1>12. /\ n + (c + f) = (n + c) + f /\ (n + (c + f)) - f = n + c
       /\ n + (c + f) \in 0 .. MemSize
       /\ f = 1 => n + (c + f) \in n + 1 .. MemSize
       /\ c = 0 => n + c = n
  BY <1>1, <1>4, <1>10
<1>13. /\ n + Extra(r, t) = Offset(r, t, n + 1) + Noff(r)
       /\ (n + Extra(r, t)) - Noff(r) = Offset(r, t, n + 1)
       /\ n + Extra(r, t) \in 0 .. MemSize
  BY <1>3, <1>4, <1>5, <1>12
<1>14. r.null => n + Extra(r, t) \in n + 1 .. MemSize
  BY <1>5, <1>9, <1>12
<1>15. Extra(r, t) = 0 \/ r.escape = {} => c = 0 /\ f = 0
  BY <1>5, <1>8, <1>11
<1>16. c = 0 /\ f = 0 => Offset(r, t, n + 1) = n /\ Noff(r) = 0 /\ ~r.null
  BY <1>3, <1>4, <1>9, <1>12
<1> QED
  BY <1>7, <1>13, <1>14, <1>15, <1>16

\* A text without bytes to escape is its own restricted form.
LEMMA PlainLayout ==
  ASSUME NEW n \in Nat, NEW r, NEW t, NEW m,
         \A i \in 1 .. n : t[i] \notin Escaped(r), Prefix(t, m, n)
  PROVE  Layout(r, t, n, m, 1)
<1> SUFFICES ASSUME NEW i \in 1 .. n PROVE Shows(r, t[i], m, Offset(r, t, i))
  BY DEF Layout
<1>1. PICK j \in Nat : j = i - 1 /\ j + 1 = i
  OBVIOUS
<1>2. \A k \in 1 .. j : k \in 1 .. n
  BY <1>1
<1>3. \A k \in 1 .. j : t[k] \notin Escaped(r)
  BY <1>2
<1>4. Offset(r, t, i) = j
  BY <1>1, <1>3, OffsetPlain
<1> QED
  BY <1>1, <1>4 DEF Shows, Prefix

\* And the other way round.
LEMMA PlainPrefix ==
  ASSUME NEW n \in Nat, NEW r, NEW t, NEW m,
         \A i \in 1 .. n : t[i] \notin Escaped(r), Layout(r, t, n, m, 1)
  PROVE  Prefix(t, m, n)
<1> SUFFICES ASSUME NEW i \in 1 .. n PROVE m[i] = t[i]
  BY DEF Prefix
<1>1. PICK j \in Nat : j = i - 1 /\ j + 1 = i
  OBVIOUS
<1>2. \A k \in 1 .. j : k \in 1 .. n
  BY <1>1
<1>3. \A k \in 1 .. j : t[k] \notin Escaped(r)
  BY <1>2
<1>4. Offset(r, t, i) = j
  BY <1>1, <1>3, OffsetPlain
<1> QED
  BY <1>1, <1>4 DEF Shows, Layout

\* A conversion starts with the whole text unread.
LEMMA StartEscapeGood ==
  ASSUME NEW n, n \in 0 .. MaxLen, text \in [1 .. n -> Byte], Len(text) = n,
         NEW r \in Restrictions \cup {NoRestriction}, restr' = r,
         target' \in Restrictions \cup {NoRestriction},
         tail \in Seq(Byte), cap \in 1 .. MemSize, kind \in Kinds,
         NEW doCopy \in BOOLEAN, NEW m, m = n + Extra(r, text),
         StartEscape(r, n, m, doCopy),
         UNCHANGED <<source, cap>>,
         mem' \in [1 .. MemSize -> Contents],
         kind # "view" => Prefix(text, mem', n),
         kind = "view" => doCopy,
         r.null /\ kind # "file" /\ target' = NoRestriction =>
           \A k \in n + 1 .. MemSize : mem'[k] = 0
  PROVE  Good(n)'
<1>0. n \in Nat /\ MemSize \in Nat /\ MemSize >= n
  BY BufferAssumption
<1>1. /\ n + Extra(r, text) = Offset(r, text, n + 1) + Noff(r)
      /\ (n + Extra(r, text)) - Noff(r) = Offset(r, text, n + 1)
      /\ n + Extra(r, text) \in 0 .. MemSize
      /\ r.null => n + Extra(r, text) \in n + 1 .. MemSize
      /\ r.escape = {} => \A i \in 1 .. n : text[i] \notin Escaped(r)
  BY ExtraFacts, SMTT(30)
<1>2. /\ phase' = "escape"
      /\ size' = n + Extra(r, text)
      /\ r.escape # {} \/ doCopy => rd' = n
      /\ ~(r.escape # {} \/ doCopy) => rd' = 0
      /\ wr' = Offset(r, text, n + 1)
      /\ restr' = r /\ text' = text /\ kind' = kind /\ tail' = tail /\ cap' = cap
  <2>1. /\ phase' = "escape" /\ size' = m
        /\ rd' = IF HasEscapeRestrictions(r) \/ doCopy THEN n ELSE 0
        /\ wr' = m - Noff(r)
    BY DEF StartEscape
  <2>2. wr' = Offset(r, text, n + 1)
    BY <1>1, <2>1, Zenon
  <2>3. /\ r.escape # {} \/ doCopy => rd' = n
        /\ ~(r.escape # {} \/ doCopy) => rd' = 0
    BY <2>1 DEF HasEscapeRestrictions
  <2> QED
    BY <2>1, <2>2, <2>3, Zenon DEF source
<1>3. rd' \in {0, n} /\ wr' \in 0 .. MemSize
  <2>1. Offset(r, text, n + 1) \in Nat /\ Noff(r) \in {0, 1}
    BY FitsMemory, RestrictionFacts
  <2>2. PICK o \in Nat, f \in {0, 1} : o = Offset(r, text, n + 1) /\ f = Noff(r)
    BY <2>1
  <2>3. o + f \in 0 .. MemSize
    BY <1>1, <2>2
  <2>4. o \in 0 .. MemSize
    BY <1>0, <2>2, <2>3
  <2> QED
    BY <1>2, <2>2, <2>4
<1>4. Layout(r, text, n, mem', rd' + 1)
  <2>1. CASE rd' = n
    <3>1. \A i \in n + 1 .. n : FALSE
      BY <1>0
    <3> QED
      BY <2>1, <3>1 DEF Layout
  <2>2. CASE rd' = 0 /\ rd' # n
    <3>1. r.escape = {} /\ kind # "view"
      BY <1>2, <2>2
    <3>2. 0 + 1 = 1
      OBVIOUS
    <3>3. Layout(r, text, n, mem', 1)
      BY <1>0, <1>1, <3>1, PlainLayout
    <3> QED
      BY <2>2, <3>2, <3>3
  <2> QED
    BY <1>3, <2>1, <2>2
<1>5. EscapeInv(n)'
  <2>1. rd' <= n /\ (rd' > 0 => rd' = n)
    BY <1>0, <1>3
  <2>2. kind' # "view" => Prefix(text', mem', rd')
    <3>1. \A i \in 1 .. 0 : FALSE
      OBVIOUS
    <3> QED
      BY <1>2, <1>3, <3>1 DEF Prefix
  <2>3. r.null /\ kind' # "file" /\ target' = NoRestriction => mem'[size'] = 0
    BY <1>1, <1>2
  <2> QED
    BY <1>1, <1>2, <1>4, <2>1, <2>2, <2>3 DEF EscapeInv, End, Stored
<1>6. TypeOK'
  <2>1. rd' \in 0 .. MemSize
    BY <1>0, <1>3
  <2> QED
    BY <1>1, <1>2, <1>3, <2>1 DEF TypeOK, Phases, Contents
<1> QED
  BY <1>2, <1>5, <1>6 DEF Good, NewInv, ReadyInv, UnescapeInv, RestrictInv

\* A text whose restricted form is itself is ready as it is.
LEMMA StartReadyGood ==
  ASSUME NEW n, n \in 0 .. MaxLen, text \in [1 .. n -> Byte], Len(text) = n,
         NEW r \in Restrictions \cup {NoRestriction}, restr' = r,
         Extra(r, text) = 0 \/ r.escape = {},
         target' \in Restrictions \cup {NoRestriction},
         tail \in Seq(Byte), cap \in 1 .. MemSize, kind \in Kinds,
         StartReady(n), UNCHANGED <<source, cap>>,
         mem' \in [1 .. MemSize -> Contents], Prefix(text, mem', n)
  PROVE  Good(n)'
<1>0. n \in Nat /\ MemSize \in Nat /\ MemSize >= n
  BY BufferAssumption
<1>1. /\ Offset(r, text, n + 1) = n /\ Noff(r) = 0 /\ ~r.null
      /\ \A i \in 1 .. n : text[i] \notin Escaped(r)
  BY ExtraFacts
<1>2. /\ phase' = "ready" /\ size' = n /\ rd' = 0 /\ wr' = 0
      /\ text' = text /\ kind' = kind /\ tail' = tail /\ cap' = cap
  BY DEF StartReady, source
<1>3. Layout(r, text, n, mem', 1)
  BY <1>0, <1>1, PlainLayout
<1>4. ReadyInv(n)'
  <2>1. n = Offset(r, text, n + 1) + Noff(r)
    BY <1>0, <1>1
  <2> QED
    BY <1>1, <1>2, <1>3, <2>1 DEF ReadyInv, End, Stored
<1>5. TypeOK'
  BY <1>0, <1>2 DEF TypeOK, Phases, Contents
<1> QED
  BY <1>2, <1>4, <1>5 DEF Good, NewInv, EscapeInv, UnescapeInv, RestrictInv

LEMMA ZerosFacts ==
  Zeros \in [1 .. MemSize -> Contents] /\ \A k \in 1 .. MemSize : Zeros[k] = 0
BY DEF Zeros, Contents
-----------------------------------------------------------------------------
(* The other actions.                                                      *)

LEMMA LoadViewGood ==
  ASSUME NEW n, Good(n), LoadView
  PROVE  Good(n)'
<1>0. /\ n \in Nat /\ n \in 0 .. MaxLen /\ n = Len(text) /\ text \in [1 .. n -> Byte]
      /\ tail \in Seq(Byte) /\ cap \in 1 .. MemSize /\ kind = "view" /\ kind \in Kinds
      /\ phase = "new" /\ target = NoRestriction
      /\ target \in Restrictions \cup {NoRestriction}
      /\ MemSize \in Nat /\ MemSize >= n
      /\ restr \in Restrictions \cup {NoRestriction}
      /\ UNCHANGED <<source, restr, target, cap>>
  BY BufferAssumption DEF Good, TypeOK, NewInv, LoadView
<1>1. CASE Extra(restr, text) = 0
  <2>1. StartReady(n) /\ mem' = Load(text, Zeros)
    BY <1>0, <1>1 DEF LoadView
  <2>2. text \in Seq(Contents)
    BY <1>0 DEF Contents
  <2>3. mem' \in [1 .. MemSize -> Contents] /\ Prefix(text, mem', n)
    <3>1. \A k \in 1 .. n : k \in 1 .. MemSize /\ k <= n
      BY <1>0
    <3> QED
      BY <1>0, <2>1, <2>2, <3>1, ZerosFacts, LoadFacts DEF Prefix
  <2> QED
    BY <1>0, <1>1, <2>1, <2>3, StartReadyGood
<1>2. CASE Extra(restr, text) # 0
  <2>1. PICK m : m = n + Extra(restr, text)
    OBVIOUS
  <2>2. StartEscape(restr, n, m, TRUE) /\ mem' = Zeros
    BY <1>0, <1>2, <2>1 DEF LoadView
  <2>3. \A k \in n + 1 .. MemSize : mem'[k] = 0
    BY <1>0, <2>2, ZerosFacts
  <2> QED
    BY <1>0, <2>1, <2>2, <2>3, ZerosFacts, StartEscapeGood
<1> QED
  BY <1>1, <1>2

LEMMA LoadFileGood ==
  ASSUME NEW n, Good(n), LoadFile
  PROVE  Good(n)'
<1>0. /\ n \in Nat /\ n \in 0 .. MaxLen /\ n = Len(text) /\ text \in [1 .. n -> Byte]
      /\ tail \in Seq(Byte) /\ cap \in 1 .. MemSize /\ kind = "file" /\ kind \in Kinds
      /\ phase = "new" /\ target = NoRestriction
      /\ target \in Restrictions \cup {NoRestriction}
      /\ MemSize \in Nat /\ MemSize >= n
      /\ restr \in Restrictions \cup {NoRestriction}
      /\ UNCHANGED <<source, restr, target, cap>>
  BY BufferAssumption DEF Good, TypeOK, NewInv, LoadFile
<1>1. mem' \in [1 .. MemSize -> Contents] /\ Prefix(text, mem', n)
  <2>1. text \in Seq(Contents) /\ tail \in Seq(Contents)
    BY <1>0 DEF Contents
  <2>2. PICK s \in Seq(Contents) : s = text \o tail
    BY <2>1, ConcatProperties
  <2>3. Len(s) = n + Len(tail) /\ Len(tail) \in Nat /\ \A k \in 1 .. n : s[k] = text[k]
    <3>1. \A k \in 1 .. Len(text) : (text \o tail)[k] = text[k]
      BY <2>1
    <3> QED
      BY <1>0, <2>1, <2>2, <3>1
  <2>4. mem' = Load(s, Zeros)
    BY <2>2 DEF LoadFile
  <2>5. \A k \in 1 .. n : k \in 1 .. MemSize /\ k <= Len(s)
    BY <1>0, <2>3
  <2> QED
    BY <2>2, <2>3, <2>4, <2>5, ZerosFacts, LoadFacts DEF Prefix
<1>2. CASE HasRestrictions(restr)
  <2>1. PICK m : m = n + Extra(restr, text)
    OBVIOUS
  <2>2. StartEscape(restr, n, m, FALSE)
    BY <1>0, <1>2, <2>1 DEF LoadFile
  <2> QED
    BY <1>0, <1>1, <2>1, <2>2, StartEscapeGood
<1>3. CASE ~HasRestrictions(restr)
  <2>1. StartReady(n) /\ restr.escape = {}
    BY <1>0, <1>3 DEF LoadFile, HasRestrictions, HasEscapeRestrictions
  <2> QED
    BY <1>0, <1>1, <2>1, StartReadyGood
<1> QED
  BY <1>2, <1>3

LEMMA FillByteGood ==
  ASSUME NEW n, Good(n), FillByte
  PROVE  Good(n)'
<1>0. /\ n \in Nat /\ n = Len(text) /\ text \in [1 .. n -> Byte]
      /\ size \in 0 .. n /\ size + 1 \in 1 .. n /\ Prefix(text, mem, size)
      /\ target = NoRestriction /\ MemSize \in Nat /\ MemSize >= n
      /\ \A k \in size + 1 .. MemSize : mem[k] = 0
      /\ mem \in [1 .. MemSize -> Contents]
  BY BufferAssumption DEF Good, TypeOK, NewInv, FillByte, Contents
<1>1. /\ mem' = [mem EXCEPT ![size + 1] = text[size + 1]]
      /\ phase' = "fill" /\ size' = size + 1
      /\ UNCHANGED <<source, restr, target, cap, rd, wr>>
  BY DEF FillByte
<1>2. /\ mem' \in [1 .. MemSize -> Contents]
      /\ mem'[size + 1] = text[size + 1]
      /\ \A k \in 1 .. MemSize : k # size + 1 => mem'[k] = mem[k]
  <2>1. size + 1 \in 1 .. MemSize /\ text[size + 1] \in Contents
    BY <1>0 DEF Contents
  <2> QED
    BY <1>0, <1>1, <2>1
<1>3. Prefix(text, mem', size + 1)
  <2>1. \A k \in 1 .. size + 1 : k = size + 1 \/ (k \in 1 .. size /\ k # size + 1 /\ k \in 1 .. MemSize)
    BY <1>0
  <2> QED
    BY <1>0, <1>2, <2>1 DEF Prefix
<1>4. \A k \in size + 2 .. MemSize : mem'[k] = 0
  <2>1. \A k \in size + 2 .. MemSize : k \in size + 1 .. MemSize /\ k # size + 1 /\ k \in 1 .. MemSize
    BY <1>0
  <2> QED
    BY <1>0, <1>2, <2>1
<1>5. NewInv(n)'
  <2>1. size + 1 + 1 = size + 2 /\ size + 1 <= n
    BY <1>0
  <2> QED
    BY <1>0, <1>1, <1>3, <1>4, <2>1 DEF NewInv, source
<1>6. TypeOK'
  <2>1. size + 1 \in 0 .. MemSize
    BY <1>0
  <2> QED
    BY <1>1, <1>2, <2>1 DEF Good, TypeOK, Contents, source, Phases
<1> QED
  BY <1>1, <1>5, <1>6
     DEF Good, EscapeInv, ReadyInv, UnescapeInv, RestrictInv, source

LEMMA GrowGood ==
  ASSUME NEW n, Good(n), Grow
  PROVE  Good(n)'
<1>1. 2 * cap \in 1 .. MemSize
  <2>1. /\ n \in 0 .. MaxLen /\ cap \in 1 .. MemSize /\ cap <= n
    BY DEF Good, TypeOK, NewInv, Grow
  <2> QED
    BY <2>1, BufferAssumption
<1>2. cap' = 2 * cap /\ UNCHANGED <<source, restr, target, phase, mem, size, rd, wr>>
  BY DEF Grow
<1>3. TypeOK'
  BY <1>1, <1>2 DEF Good, TypeOK, source
<1> QED
  BY <1>2, <1>3
     DEF Good, NewInv, EscapeInv, ReadyInv, UnescapeInv, RestrictInv, End, Stored, source

LEMMA FillEndGood ==
  ASSUME NEW n, Good(n), FillEnd
  PROVE  Good(n)'
<1>0. /\ n \in 0 .. MaxLen /\ n = Len(text) /\ text \in [1 .. n -> Byte]
      /\ tail \in Seq(Byte) /\ cap \in 1 .. MemSize /\ kind = "stream" /\ kind \in Kinds
      /\ target \in Restrictions \cup {NoRestriction}
      /\ restr \in Restrictions \cup {NoRestriction}
      /\ size = n /\ Prefix(text, mem, n) /\ mem \in [1 .. MemSize -> Contents]
      /\ \A k \in n + 1 .. MemSize : mem[k] = 0
      /\ UNCHANGED <<source, restr, target, mem, cap>>
  BY DEF Good, TypeOK, NewInv, FillEnd, Contents
<1>1. PICK m : m = n + Extra(restr, text)
  OBVIOUS
<1>2. StartEscape(restr, n, m, FALSE)
  BY <1>0, <1>1 DEF FillEnd
<1> QED
  BY <1>0, <1>1, <1>2, StartEscapeGood

LEMMA EscapeDoneGood ==
  ASSUME NEW n, Good(n), EscapeDone
  PROVE  Good(n)'
<1>0. /\ n \in Nat /\ n \in 0 .. MaxLen /\ phase = "escape" /\ rd = 0 /\ 0 + 1 = 1
      /\ restr \in Restrictions \cup {NoRestriction} /\ MemSize \in Nat
      /\ mem \in [1 .. MemSize -> Contents] /\ size \in 0 .. MemSize
  BY BufferAssumption DEF Good, TypeOK, EscapeDone, Contents
<1>1. /\ size = Offset(restr, text, n + 1) + Noff(restr)
      /\ Layout(restr, text, n, mem, 1)
      /\ restr.null /\ kind # "file" /\ target = NoRestriction => mem[size] = 0
  BY <1>0 DEF Good, EscapeInv, End, Stored
<1>2. /\ phase' = "ready" /\ size' = size /\ rd' = 0 /\ wr' = 0
      /\ UNCHANGED <<source, restr, target, cap>>
  BY DEF EscapeDone, StartReady
<1>3. PICK e \in Nat, f \in {0, 1} :
        /\ e = Offset(restr, text, n + 1) /\ f = Noff(restr)
        /\ restr.null => f = 1
  BY <1>0, FitsMemory, RestrictionFacts
<1>4. CASE restr.null /\ (kind = "file" \/ target # NoRestriction)
  <2>1. mem' = [mem EXCEPT ![size] = 0]
    BY <1>4 DEF EscapeDone
  <2>2. size = e + 1 /\ size \in 1 .. MemSize
    BY <1>0, <1>1, <1>3, <1>4
  <2>3. /\ mem' \in [1 .. MemSize -> Contents] /\ mem'[size] = 0
        /\ \A k \in 1 .. MemSize : k # size => mem'[k] = mem[k]
    BY <1>0, <2>1, <2>2 DEF Contents
  <2>4. \A k \in Nat : k > 0 /\ k <= e => mem'[k] = mem[k]
    BY <1>0, <1>3, <2>2, <2>3
  <2>5. Layout(restr, text, n, mem', 1)
    <3>1. 1 \in Nat \ {0} /\ 1 <= 1 /\ Offset(restr, text, 1) = 0
      BY OffsetStart
    <3>2. \A k \in Nat : k > Offset(restr, text, 1) /\ k <= Offset(restr, text, n + 1)
            => mem'[k] = mem[k]
      BY <1>3, <2>4, <3>1
    <3> QED
      BY <1>0, <1>1, <3>1, <3>2, LayoutKept
  <2>6. ReadyInv(n)'
    BY <1>1, <1>2, <2>3, <2>5 DEF ReadyInv, End, Stored, source
  <2>7. TypeOK'
    BY <1>0, <1>2, <2>3 DEF Good, TypeOK, Contents, Phases, source
  <2> QED
    BY <1>2, <2>6, <2>7
       DEF Good, NewInv, EscapeInv, UnescapeInv, RestrictInv, source
<1>5. CASE ~(restr.null /\ (kind = "file" \/ target # NoRestriction))
  <2>1. mem' = mem /\ (restr.null => mem[size] = 0)
    BY <1>1, <1>5 DEF EscapeDone
  <2>2. ReadyInv(n)'
    BY <1>1, <1>2, <2>1 DEF ReadyInv, End, Stored, source
  <2>3. TypeOK'
    BY <1>0, <1>2, <2>1 DEF Good, TypeOK, Contents, Phases, source
  <2> QED
    BY <1>2, <2>2, <2>3
       DEF Good, NewInv, EscapeInv, UnescapeInv, RestrictInv, source
<1> QED
  BY <1>4, <1>5

\* A restriction by no byte at all has no terminator either.
LEMMA Unrestricted ==
  ASSUME NEW r \in Restrictions \cup {NoRestriction}
  PROVE  /\ ~HasRestrictions(r) => r = NoRestriction
         /\ HasRestrictions(r) => r.escape # {}
<1>1. r \in [escape : SUBSET Nat, null : BOOLEAN] /\ (r.escape = {} => ~r.null)
  BY RestrictionFacts DEF PoolSuffices
<1>2. r = [escape |-> r.escape, null |-> r.null]
  BY <1>1
<1>3. ~r.null => r.null = FALSE
  BY <1>1
<1> QED
  BY <1>1, <1>2, <1>3 DEF HasRestrictions, HasEscapeRestrictions, NoRestriction

LEMMA ChangeRestrictionsGood ==
  ASSUME NEW n, Good(n), NEW r \in Restrictions, ChangeRestrictions(r)
  PROVE  Good(n)'
<1>0. /\ n \in Nat /\ n \in 0 .. MaxLen /\ phase = "ready" /\ kind = "stream"
      /\ text \in [1 .. n -> Byte] /\ DOMAIN text = 1 .. n
      /\ restr \in Restrictions \cup {NoRestriction}
      /\ rd = 0 /\ wr = 0 /\ 0 + 1 = 1 /\ 0 <= n
      /\ size = Offset(restr, text, n + 1) + Noff(restr)
      /\ Layout(restr, text, n, mem, 1)
  BY BufferAssumption DEF Good, TypeOK, ReadyInv, ChangeRestrictions, End, Stored
<1>1. /\ target' = r /\ UNCHANGED <<source, restr, mem, size, cap, rd, wr>>
      /\ HasRestrictions(restr) => phase' = "unescape"
      /\ ~HasRestrictions(restr) => phase' = "restrict"
  BY DEF ChangeRestrictions
<1>2. CASE HasRestrictions(restr)
  <2>1. restr.escape # {} /\ Offset(restr, text, 1) = 0
    BY <1>0, <1>2, Unrestricted, OffsetStart
  <2>2. \A i \in 1 .. 0 : FALSE
    OBVIOUS
  <2>3. UnescapeInv(n)'
    BY <1>0, <1>1, <2>1, <2>2 DEF UnescapeInv, End, Stored, Prefix, source
  <2>4. TypeOK'
    BY <1>0, <1>1, <1>2 DEF Good, TypeOK, Phases, source
  <2> QED
    BY <1>1, <1>2, <2>3, <2>4
       DEF Good, NewInv, EscapeInv, ReadyInv, RestrictInv, source
<1>3. CASE ~HasRestrictions(restr)
  <2>1. restr = NoRestriction /\ restr.escape = {}
    BY <1>0, <1>3, Unrestricted DEF HasRestrictions, HasEscapeRestrictions
  <2>2. /\ Offset(restr, text, n + 1) = n /\ Noff(restr) = 0
        /\ \A i \in 1 .. n : text[i] \notin Escaped(restr)
    BY <1>0, <2>1, ExtraFacts
  <2>3. size = n /\ Prefix(text, mem, n)
    BY <1>0, <2>2, PlainPrefix
  <2>4. RestrictInv(n)'
    BY <1>0, <1>1, <2>1, <2>3 DEF RestrictInv, source
  <2>5. TypeOK'
    BY <1>0, <1>1, <1>3 DEF Good, TypeOK, Phases, source
  <2> QED
    BY <1>1, <1>3, <2>4, <2>5
       DEF Good, NewInv, EscapeInv, ReadyInv, UnescapeInv, source
<1> QED
  BY <1>2, <1>3

LEMMA UnescapeDoneGood ==
  ASSUME NEW n, Good(n), UnescapeDone
  PROVE  Good(n)'
<1>0. /\ n \in Nat /\ n \in 0 .. MaxLen /\ phase = "unescape" /\ kind = "stream"
      /\ restr \in Restrictions \cup {NoRestriction} /\ MemSize \in Nat /\ n <= MemSize
      /\ wr \in 0 .. n /\ size \in 0 .. MemSize
      /\ size = Offset(restr, text, n + 1) + Noff(restr)
      /\ rd = Offset(restr, text, wr + 1) /\ rd \in Nat
      /\ Prefix(text, mem, wr) /\ rd = size - Noff(restr)
  BY BufferAssumption DEF Good, TypeOK, UnescapeInv, UnescapeDone, End, Stored, DataEnd
<1>1. PICK e \in Nat, f \in {0, 1} : e = Offset(restr, text, n + 1) /\ f = Noff(restr)
  BY <1>0, FitsMemory, RestrictionFacts
<1>2. wr = n
  <2>1. wr + 1 \in Nat \ {0} /\ n + 1 \in Nat \ {0} /\ wr + 1 <= n + 1
    BY <1>0
  <2>2. Offset(restr, text, wr + 1) + ((n + 1) - (wr + 1)) <= Offset(restr, text, n + 1)
    BY <2>1, OffsetGrows
  <2>3. rd + ((n + 1) - (wr + 1)) <= e
    BY <1>0, <1>1, <2>2
  <2>4. rd = e
    BY <1>0, <1>1
  <2> QED
    BY <1>0, <2>3, <2>4
<1>3. size - (rd - wr + Noff(restr)) = n
  BY <1>0, <1>1, <1>2
<1>4. /\ size' = n /\ restr' = NoRestriction
      /\ phase' = "restrict" /\ rd' = 0 /\ wr' = 0
      /\ UNCHANGED <<source, target, mem, cap>>
  BY <1>3 DEF UnescapeDone
<1>5. RestrictInv(n)'
  BY <1>0, <1>2, <1>4 DEF RestrictInv, source
<1>6. TypeOK'
  BY <1>0, <1>4 DEF Good, TypeOK, Phases, source
<1> QED
  BY <1>4, <1>5, <1>6
     DEF Good, NewInv, EscapeInv, ReadyInv, UnescapeInv, source

LEMMA ViewFacts ==
  ASSUME mem \in [1 .. MemSize -> Contents], size \in 0 .. MemSize
  PROVE  /\ View \in Seq(Contents) /\ Len(View) = size
         /\ \A k \in 1 .. size : View[k] = mem[k]
<1>1. size \in Int /\ 1 \in Int /\ size \in Nat /\ \A k \in 1 .. size : k \in 1 .. MemSize
  BY BufferAssumption
<1>2. /\ View \in Seq(Contents)
      /\ Len(View) = IF 1 <= size THEN size - 1 + 1 ELSE 0
      /\ \A k \in 1 .. size - 1 + 1 : View[k] = mem[1 + k - 1]
  BY <1>1, SubSeqProperties DEF View
<1>3. /\ size - 1 + 1 = size /\ (IF 1 <= size THEN size ELSE 0) = size
      /\ \A k \in 1 .. size : 1 + k - 1 = k
  BY <1>1
<1> QED
  BY <1>2, <1>3

LEMMA RestrictMapGood ==
  ASSUME NEW n, Good(n), RestrictMap
  PROVE  Good(n)'
<1>0. /\ n \in Nat /\ n \in 0 .. MaxLen /\ n = Len(text) /\ text \in [1 .. n -> Byte]
      /\ tail \in Seq(Byte) /\ cap \in 1 .. MemSize /\ kind = "stream" /\ kind \in Kinds
      /\ target \in Restrictions \cup {NoRestriction} /\ restr = NoRestriction
      /\ size = n /\ Prefix(text, mem, n) /\ mem \in [1 .. MemSize -> Contents]
      /\ MemSize \in Nat /\ n <= MemSize
      /\ restr' = target /\ UNCHANGED <<source, target, cap>>
  <2>1. phase = "restrict" /\ restr' = target /\ UNCHANGED <<source, target, cap>>
    BY DEF RestrictMap
  <2>2. n \in Nat /\ n \in 0 .. MaxLen /\ MemSize \in Nat /\ n <= MemSize
    BY BufferAssumption DEF Good
  <2> QED
    BY <2>1, <2>2 DEF Good, TypeOK, RestrictInv, Contents
<1>1. View = text /\ View \in Seq(Contents)
  <2>1. Len(View) = n /\ View \in Seq(Contents) /\ \A k \in 1 .. n : View[k] = mem[k]
    BY <1>0, ViewFacts
  <2>2. text \in Seq(Contents)
    BY <1>0 DEF Contents
  <2>3. View = text
    BY <1>0, <2>1, <2>2, SeqEqual DEF Prefix
  <2> QED
    BY <2>1, <2>3
<1>2. CASE restr = target \/ Extra(target, text) = 0
  <2>1. StartReady(n) /\ mem' = mem
    BY <1>0, <1>1, <1>2 DEF RestrictMap
  <2>2. Extra(target, text) = 0 \/ target.escape = {}
    BY <1>0, <1>2 DEF NoRestriction
  <2> QED
    BY <1>0, <2>1, <2>2, StartReadyGood
<1>3. CASE ~(restr = target \/ Extra(target, text) = 0)
  <2>1. PICK m : m = n + Extra(target, text)
    OBVIOUS
  <2>2. StartEscape(target, n, m, FALSE) /\ (mem' = mem \/ mem' = Load(text, Zeros))
    BY <1>0, <1>1, <1>3, <2>1 DEF RestrictMap
  <2>3. mem' \in [1 .. MemSize -> Contents] /\ Prefix(text, mem', n)
    <3>1. \A k \in 1 .. n : k \in 1 .. MemSize /\ k <= n
      BY <1>0
    <3>2. /\ Load(text, Zeros) \in [1 .. MemSize -> Contents]
          /\ \A k \in 1 .. n : Load(text, Zeros)[k] = text[k]
      BY <1>0, <1>1, <3>1, ZerosFacts, LoadFacts
    <3> QED
      BY <1>0, <2>2, <3>2 DEF Prefix
  <2>4. target # NoRestriction
    BY <1>0, <1>3
  <2> QED
    BY <1>0, <2>1, <2>2, <2>3, <2>4, StartEscapeGood
<1> QED
  BY <1>2, <1>3
-----------------------------------------------------------------------------
(* The theorems.                                                           *)

LEMMA InitGood ==
  Init => BufferInv
<1> SUFFICES ASSUME Init PROVE BufferInv
  OBVIOUS
<1>1. PICK n \in 0 .. MaxLen : text \in [1 .. n -> Byte]
  BY Zenon DEF Init, BoundedSeq, SeqOf
<1>2. text \in Seq(Byte) /\ n = Len(text)
  BY <1>1
<1>3. tail \in Seq(Byte)
  <2>1. tail = <<>> \/ \E b \in Byte : tail = <<b>>
    BY DEF Init
  <2>2. <<>> \in Seq(Byte)
    OBVIOUS
  <2>3. \A b \in Byte : <<b>> \in Seq(Byte)
    OBVIOUS
  <2> QED
    BY <2>1, <2>2, <2>3, Zenon
<1>4. TypeOK
  <2>1. MemSize \in Nat /\ PageSize \in 1 .. MemSize
    BY BufferAssumption
  <2> QED
    BY <2>1, ZerosFacts DEF Init, TypeOK, Phases, Contents
<1>5. NewInv(n)
  <2>1. \A k \in 1 .. 0 : FALSE
    OBVIOUS
  <2>2. 0 <= n /\ \A k \in 0 + 1 .. MemSize : k \in 1 .. MemSize
    BY <1>1, BufferAssumption
  <2> QED
    BY <2>1, <2>2, ZerosFacts DEF Init, NewInv, Prefix
<1> QED
  BY <1>1, <1>2, <1>3, <1>4, <1>5
     DEF Init, BufferInv, Good, EscapeInv, ReadyInv, UnescapeInv, RestrictInv

LEMMA NextGood ==
  BufferInv /\ [Next]_vars => BufferInv'
<1> SUFFICES ASSUME BufferInv, [Next]_vars PROVE BufferInv'
  OBVIOUS
<1>1. PICK n : n = Len(text) /\ Good(n)
  BY DEF BufferInv
<1>2. text \in Seq(Byte)
  BY DEF BufferInv
<1>3. Good(n)'
  <2>1. CASE LoadView
    BY <1>1, <2>1, LoadViewGood
  <2>2. CASE LoadFile
    BY <1>1, <2>2, LoadFileGood
  <2>3. CASE FillByte
    BY <1>1, <2>3, FillByteGood
  <2>4. CASE Grow
    BY <1>1, <2>4, GrowGood
  <2>5. CASE FillEnd
    BY <1>1, <2>5, FillEndGood
  <2>6. CASE EscapeStep
    BY <1>1, <2>6, EscapeStepGood
  <2>7. CASE EscapeDone
    BY <1>1, <2>7, EscapeDoneGood
  <2>8. CASE UnescapeStep
    BY <1>1, <2>8, UnescapeStepGood
  <2>9. CASE UnescapeDone
    BY <1>1, <2>9, UnescapeDoneGood
  <2>10. CASE RestrictMap
    BY <1>1, <2>10, RestrictMapGood
  <2>11. CASE \E r \in Restrictions : ChangeRestrictions(r)
    BY <1>1, <2>11, ChangeRestrictionsGood
  <2>12. CASE UNCHANGED vars
    BY <1>1, <2>12
       DEF vars, Good, TypeOK, NewInv, EscapeInv, ReadyInv, UnescapeInv, RestrictInv, End, Stored
  <2> QED
    BY <2>1, <2>2, <2>3, <2>4, <2>5, <2>6, <2>7, <2>8, <2>9, <2>10, <2>11, <2>12
       DEF Next, Step
<1>4. text' = text
  BY DEF Next, Step, vars, source, LoadView, LoadFile, FillByte, Grow, FillEnd, EscapeStep,
         EscapeDone, UnescapeStep, UnescapeDone, RestrictMap, ChangeRestrictions
<1> QED
  BY <1>1, <1>2, <1>3, <1>4 DEF BufferInv

\* The invariant holds in every reachable state.
THEOREM BufferInvariant == SafeSpec => []BufferInv
<1> QED
  BY InitGood, NextGood, PTL DEF SafeSpec

\* Both conversions keep what they still have to read: while the buffer is
\* escaped, the write pointer is ahead by the escapes to come; while it is
\* unescaped, it stays behind.
LEMMA InvInPlace ==
  BufferInv => ConversionInPlace
<1> SUFFICES ASSUME BufferInv PROVE ConversionInPlace
  OBVIOUS
<1>1. PICK n : n = Len(text) /\ Good(n)
  BY DEF BufferInv
<1>2. /\ n \in Nat /\ n \in 0 .. MaxLen /\ text \in [1 .. n -> Byte]
      /\ restr \in Restrictions \cup {NoRestriction} /\ MemSize \in Nat
      /\ mem \in [1 .. MemSize -> Contents] /\ n <= MemSize
  BY <1>1, BufferAssumption DEF Good, TypeOK, Contents
<1>3. ASSUME NEW k \in 0 .. n, Prefix(text, mem, k)
      PROVE  SubSeq(mem, 1, k) = SubSeq(text, 1, k)
  <2>1. k \in Int /\ 1 \in Int /\ k \in Nat
    BY <1>2, <1>3
  <2>2. \A i \in 1 .. k : text[i] \in Byte /\ mem[i] \in Byte
    BY <1>2, <1>3, <2>1 DEF Prefix
  <2>3. /\ SubSeq(mem, 1, k) \in Seq(Byte) /\ SubSeq(text, 1, k) \in Seq(Byte)
        /\ Len(SubSeq(mem, 1, k)) = IF 1 <= k THEN k - 1 + 1 ELSE 0
        /\ Len(SubSeq(text, 1, k)) = IF 1 <= k THEN k - 1 + 1 ELSE 0
        /\ \A i \in 1 .. k - 1 + 1 : SubSeq(mem, 1, k)[i] = mem[1 + i - 1]
        /\ \A i \in 1 .. k - 1 + 1 : SubSeq(text, 1, k)[i] = text[1 + i - 1]
    BY <2>1, <2>2, SubSeqProperties
  <2>4. /\ k - 1 + 1 = k /\ (IF 1 <= k THEN k ELSE 0) = k
        /\ \A i \in 1 .. k : 1 + i - 1 = i
    BY <2>1
  <2>5. /\ Len(SubSeq(mem, 1, k)) = k /\ Len(SubSeq(text, 1, k)) = k
        /\ \A i \in 1 .. k : SubSeq(mem, 1, k)[i] = SubSeq(text, 1, k)[i]
    BY <1>3, <2>3, <2>4 DEF Prefix
  <2> QED
    BY <2>3, <2>5, SeqEqual
<1>4. UnreadIntact
  <2> SUFFICES ASSUME phase = "escape", rd > 0 PROVE UnreadIntact
    BY DEF UnreadIntact
  <2>1. /\ rd \in 0 .. n /\ rd \in Nat /\ wr = Offset(restr, text, rd + 1)
        /\ kind # "view" => Prefix(text, mem, rd)
    BY <1>1, <1>2 DEF Good, TypeOK, EscapeInv
  <2>2. wr = rd + Cardinality({i \in 1 .. rd : text[i] \in Escaped(restr)})
    BY <2>1, OffsetFlagged DEF Flagged
  <2> QED
    BY <1>3, <2>1, <2>2 DEF UnreadIntact
<1>5. UnescapeBehind
  <2> SUFFICES ASSUME phase = "unescape" PROVE UnescapeBehind
    BY DEF UnescapeBehind
  <2>1. /\ wr \in 0 .. n /\ rd = Offset(restr, text, wr + 1) /\ rd \in Nat
        /\ size = Offset(restr, text, n + 1) + Noff(restr)
        /\ Prefix(text, mem, wr)
    BY <1>1, <1>2 DEF Good, TypeOK, UnescapeInv, End
  <2>2. PICK e \in Nat, f \in {0, 1} : e = Offset(restr, text, n + 1) /\ f = Noff(restr)
    BY <1>2, FitsMemory, RestrictionFacts
  <2>3. DataEnd = e
    BY <2>1, <2>2 DEF DataEnd
  <2>4. 1 \in Nat \ {0} /\ wr + 1 \in Nat \ {0} /\ n + 1 \in Nat \ {0} /\ 1 <= wr + 1 /\ wr + 1 <= n + 1
    BY <1>2, <2>1
  <2>5. rd + ((n + 1) - (wr + 1)) <= e
    BY <2>1, <2>2, <2>4, OffsetGrows
  <2>6. 0 + ((wr + 1) - 1) <= rd
    BY <2>1, <2>4, OffsetGrows, OffsetStart
  <2>7. wr <= rd /\ rd <= e
    BY <1>2, <2>1, <2>2, <2>5, <2>6
  <2> QED
    BY <1>3, <2>1, <2>3, <2>7 DEF UnescapeBehind
<1> QED
  BY <1>1, <1>4, <1>5 DEF Good, ConversionInPlace

\* Neither conversion destroys what it has yet to read, or leaves the map.
THEOREM ConversionStaysInPlace == SafeSpec => []ConversionInPlace
<1> QED
  BY BufferInvariant, InvInPlace, PTL

LEMMA InvViewRestricted ==
  BufferInv => ViewRestricted
<1> SUFFICES ASSUME BufferInv, phase = "ready" PROVE IsRestricted(restr, text, View)
  BY DEF ViewRestricted
<1>1. PICK n : n = Len(text) /\ Good(n)
  BY DEF BufferInv
<1>2. /\ n \in Nat /\ n \in 0 .. MaxLen /\ mem \in [1 .. MemSize -> Contents]
      /\ restr \in Restrictions \cup {NoRestriction}
      /\ size \in 0 .. MemSize
      /\ size = Offset(restr, text, n + 1) + Noff(restr)
      /\ Layout(restr, text, n, mem, 1)
      /\ restr.null => mem[size] = 0
  BY <1>1, BufferAssumption DEF Good, TypeOK, ReadyInv, Contents, End, Stored
<1>3. PICK e \in Nat, f \in {0, 1} :
        /\ e = Offset(restr, text, n + 1) /\ f = Noff(restr)
        /\ restr.null => f = 1
  BY <1>2, FitsMemory, RestrictionFacts
<1>4. Len(View) = size /\ \A k \in 1 .. size : View[k] = mem[k]
  BY <1>2, ViewFacts
<1>5. Layout(restr, text, n, View, 1)
  <2>1. 1 \in Nat \ {0} /\ 1 <= 1 /\ Offset(restr, text, 1) = 0
    BY OffsetStart
  <2>2. \A k \in Nat : k > 0 /\ k <= e => k \in 1 .. size
    BY <1>2, <1>3
  <2>3. \A k \in Nat : k > Offset(restr, text, 1) /\ k <= Offset(restr, text, n + 1) => View[k] = mem[k]
    BY <1>3, <1>4, <2>1, <2>2
  <2> QED
    BY <1>2, <2>1, <2>3, LayoutKept
<1>6. restr.null => View[e + 1] = 0
  <2> SUFFICES ASSUME restr.null PROVE View[e + 1] = 0
    OBVIOUS
  <2>1. size = e + 1 /\ size \in 1 .. size
    BY <1>2, <1>3
  <2> QED
    BY <1>2, <1>4, <2>1
<1> QED
  BY <1>1, <1>2, <1>4, <1>3, <1>5, <1>6 DEF IsRestricted, Layout

\* After every load and every change of restrictions, the view of a buffer is
\* the restricted form of the text it was made from.
THEOREM ViewIsRestricted == SafeSpec => []ViewRestricted
<1> QED
  BY BufferInvariant, InvViewRestricted, PTL
=============================================================================
