-------------------------- MODULE RestrictedBuffer --------------------------
(***************************************************************************)
(* io/RestrictedBuffer.hpp over io/MMapHandle.hpp: the text of an input in *)
(* one memory map, in the restricted form an algorithm asks for.           *)
(*                                                                         *)
(* Escaping makes a text longer and is done in place, from the back;       *)
(* unescaping makes it shorter and is done in place, from the front.  One  *)
(* step of the model is one iteration of either loop.  Memory outlives     *)
(* shrinking: mem holds every byte of the map's pages, size says how many  *)
(* the map has.                                                            *)
(***************************************************************************)
EXTENDS EscapeMap

CONSTANTS Byte,          \* the byte values that occur in texts
          Restrictions,  \* the restrictions that may be asked for
          MaxLen,        \* bound on the length of the text
          PageSize,      \* the first capacity of a map filled from a stream
          MemSize        \* bytes of physical memory considered

\* A restriction by a terminator alone is left out: unrestrict would take 255
\* for its escape byte.  No algorithm asks for one.
ASSUME BufferAssumption ==
  /\ Byte \subseteq Nat /\ 0 \in Byte
  /\ MaxLen \in Nat /\ PageSize \in Nat \ {0} /\ MemSize \in Nat
  /\ MemSize >= 2 * MaxLen + 1 /\ MemSize >= 2 * PageSize
  /\ \A r \in Restrictions : PoolSuffices(r) /\ (r.escape = {} => ~r.null)

Kinds == {"view", "file", "stream"}
Phases == {"new", "fill", "escape", "ready", "unescape", "restrict"}
NoRestriction == [escape |-> {}, null |-> FALSE]

VARIABLES
  text,     \* the text of the source
  kind,     \* the kind of source
  tail,     \* what follows the text in its file (a slice was asked for)
  restr,    \* m_restrictions
  target,   \* the argument of change_restrictions
  phase,    \* where the code is
  mem,      \* the bytes of the map's pages
  size,     \* the size of the map; while it is filled, the bytes read
  cap,      \* the capacity of the map while it is filled
  rd, wr    \* read and write pointers of the two loops

vars == <<text, kind, tail, restr, target, phase, mem, size, cap, rd, wr>>
source == <<text, kind, tail>>

Zeros == [i \in 1 .. MemSize |-> 0]
\* Memory that starts with s, over what old held.
Load(s, old) == [i \in 1 .. MemSize |-> IF i <= Len(s) THEN s[i] ELSE old[i]]
View == SubSeq(mem, 1, size)

\* extra_size_needed_due_restrictions
Extra(r, s) == Cardinality({i \in DOMAIN s : s[i] \in Escaped(r)}) + Noff(r)

\* Start escape_with_iters with n bytes to read in a map of m bytes; without
\* escape restrictions it only moves bytes when they come from elsewhere.
StartEscape(r, n, m, doCopy) ==
  /\ phase' = "escape"
  /\ size' = m
  /\ rd' = IF HasEscapeRestrictions(r) \/ doCopy THEN n ELSE 0
  /\ wr' = m - Noff(r)

StartReady(m) == phase' = "ready" /\ size' = m /\ rd' = 0 /\ wr' = 0

Init ==
  /\ text \in BoundedSeq(Byte, MaxLen)
  /\ kind \in Kinds
  /\ tail \in IF kind = "file" THEN {<<>>} \cup {<<b>> : b \in Byte} ELSE {<<>>}
  /\ restr \in Restrictions
  /\ target = NoRestriction
  /\ phase = "new"
  /\ mem = Zeros /\ size = 0 /\ cap = PageSize /\ rd = 0 /\ wr = 0
-----------------------------------------------------------------------------
(* init *)

\* A view is used as it is, or copied into a fresh map while it is escaped.
LoadView ==
  LET extra == Extra(restr, text)
  IN  /\ phase = "new" /\ kind = "view"
      /\ IF extra = 0
         THEN StartReady(Len(text)) /\ mem' = Load(text, Zeros)
         ELSE StartEscape(restr, Len(text), Len(text) + extra, TRUE) /\ mem' = Zeros
      /\ UNCHANGED <<source, restr, target, cap>>

\* A file is copied into the map, with everything that follows the slice.
LoadFile ==
  /\ phase = "new" /\ kind = "file"
  /\ mem' = Load(text \o tail, Zeros)
  /\ IF HasRestrictions(restr)
     THEN StartEscape(restr, Len(text), Len(text) + Extra(restr, text), FALSE)
     ELSE StartReady(Len(text))
  /\ UNCHANGED <<source, restr, target, cap>>

\* A stream of unknown length fills a map that doubles when it is full.
FillByte ==
  /\ phase \in {"new", "fill"} /\ kind = "stream"
  /\ size < cap /\ size < Len(text)
  /\ phase' = "fill"
  /\ mem' = [mem EXCEPT ![size + 1] = text[size + 1]]
  /\ size' = size + 1
  /\ UNCHANGED <<source, restr, target, cap, rd, wr>>

Grow ==
  /\ phase \in {"new", "fill"} /\ kind = "stream" /\ size = cap
  /\ cap' = 2 * cap
  /\ UNCHANGED <<source, restr, target, phase, mem, size, rd, wr>>

FillEnd ==
  /\ phase \in {"new", "fill"} /\ kind = "stream"
  /\ size < cap /\ size = Len(text)
  /\ StartEscape(restr, size, size + Extra(restr, text), FALSE)
  /\ UNCHANGED <<source, restr, target, mem, cap>>
-----------------------------------------------------------------------------
(* escape_with_iters *)

\* One iteration, from the back: the byte, or its pair.
EscapeStep ==
  LET b == IF kind = "view" THEN text[rd] ELSE mem[rd]
      flagged == b \in Escaped(restr)
  IN  /\ phase = "escape" /\ rd > 0
      /\ mem' = IF flagged
                THEN [mem EXCEPT ![wr] = Replacement(restr)[b], ![wr - 1] = EscapeByte(restr)]
                ELSE [mem EXCEPT ![wr] = b]
      /\ rd' = rd - 1
      /\ wr' = IF flagged THEN wr - 2 ELSE wr - 1
      /\ UNCHANGED <<source, restr, target, phase, size, cap>>

\* Mutant: the terminator is expected to be 0 already.
EscapeDoneLazy ==
  /\ phase = "escape" /\ rd = 0
  /\ StartReady(size)
  /\ UNCHANGED <<source, restr, target, mem, cap>>

\* The terminator is written where the map may hold something else: after a
\* file, and in restrict (target is only set there).
EscapeDone ==
  /\ phase = "escape" /\ rd = 0
  /\ mem' = IF restr.null /\ (kind = "file" \/ target # NoRestriction)
            THEN [mem EXCEPT ![size] = 0] ELSE mem
  /\ StartReady(size)
  /\ UNCHANGED <<source, restr, target, cap>>
-----------------------------------------------------------------------------
(* change_restrictions: unrestrict, then restrict *)

ChangeRestrictions(r) ==
  /\ phase = "ready" /\ kind = "stream"
  /\ target' = r
  /\ phase' = IF HasRestrictions(restr) THEN "unescape" ELSE "restrict"
  /\ UNCHANGED <<source, restr, mem, size, cap, rd, wr>>

DataEnd == size - Noff(restr)

\* Mutant: the pair is recognised by its first byte, which is then decoded.
UnescapeStepLate ==
  LET isPair == mem[rd + 1] = EscapeByte(restr)
  IN  /\ phase = "unescape" /\ rd # DataEnd /\ rd + 2 <= MemSize
      /\ mem' = [mem EXCEPT ![wr + 1] = Unreplace(restr, mem[rd + 1])]
      /\ rd' = IF isPair THEN rd + 2 ELSE rd + 1
      /\ wr' = wr + 1
      /\ UNCHANGED <<source, restr, target, phase, size, cap>>

\* One iteration of unrestrict, from the front: a byte, or a pair.
UnescapeStep ==
  LET isPair == mem[rd + 1] = EscapeByte(restr)
  IN  /\ phase = "unescape" /\ rd # DataEnd /\ rd + 2 <= MemSize
      /\ mem' = [mem EXCEPT ![wr + 1] =
                   IF isPair THEN Unreplace(restr, mem[rd + 2]) ELSE mem[rd + 1]]
      /\ rd' = IF isPair THEN rd + 2 ELSE rd + 1
      /\ wr' = wr + 1
      /\ UNCHANGED <<source, restr, target, phase, size, cap>>

\* Mutant: the terminator is left in the text.
UnescapeDoneLong ==
  /\ phase = "unescape" /\ rd = DataEnd
  /\ size' = size - (rd - wr)
  /\ restr' = NoRestriction
  /\ phase' = "restrict" /\ rd' = 0 /\ wr' = 0
  /\ UNCHANGED <<source, target, mem, cap>>

UnescapeDone ==
  /\ phase = "unescape" /\ rd = DataEnd
  /\ size' = size - (rd - wr + Noff(restr))
  /\ restr' = NoRestriction
  /\ phase' = "restrict" /\ rd' = 0 /\ wr' = 0
  /\ UNCHANGED <<source, target, mem, cap>>

\* Growing the map again exposes what its pages still hold, or fresh pages.
RestrictMap ==
  LET extra == Extra(target, View)
  IN  /\ phase = "restrict"
      /\ restr' = target
      /\ IF restr = target \/ extra = 0
         THEN StartReady(size) /\ mem' = mem
         ELSE /\ StartEscape(target, size, size + extra, FALSE)
              /\ mem' \in {mem, Load(View, Zeros)}
      /\ UNCHANGED <<source, target, cap>>
-----------------------------------------------------------------------------
Step == \/ LoadView \/ LoadFile \/ FillByte \/ Grow \/ FillEnd
        \/ EscapeStep \/ EscapeDone
        \/ UnescapeStep \/ UnescapeDone \/ RestrictMap

Next == Step \/ \E r \in Restrictions : ChangeRestrictions(r)

SafeSpec == Init /\ [][Next]_vars

\* Sequential code: an operation that was started runs on.
Spec == SafeSpec /\ WF_vars(Step)
-----------------------------------------------------------------------------
(* Properties *)

TypeOK ==
  /\ kind \in Kinds /\ phase \in Phases
  /\ restr \in Restrictions \cup {NoRestriction}
  /\ target \in Restrictions \cup {NoRestriction}
  /\ mem \in [1 .. MemSize -> Byte \cup ToSet(Pool) \cup {0}]
  /\ size \in 0 .. MemSize /\ cap \in 1 .. MemSize
  /\ rd \in 0 .. MemSize /\ wr \in 0 .. MemSize

\* Escaping in place never overwrites a byte it has not read: the write
\* pointer is ahead of the read pointer by exactly the escapes still to come.
UnreadIntact ==
  phase = "escape" /\ rd > 0 =>
    /\ wr = rd + Cardinality({i \in 1 .. rd : text[i] \in Escaped(restr)})
    /\ kind # "view" => SubSeq(mem, 1, rd) = SubSeq(text, 1, rd)

\* Unescaping in place stays behind its read pointer, inside the data, and
\* what it has written is the text.
UnescapeBehind ==
  phase = "unescape" =>
    /\ wr <= rd /\ rd <= DataEnd
    /\ SubSeq(mem, 1, wr) = SubSeq(text, 1, wr)

\* Both conversions keep what they still have to read, inside the map.
ConversionInPlace == TypeOK /\ UnreadIntact /\ UnescapeBehind

\* Whatever was done to the buffer before, the view it offers is the
\* restricted form of the original text, for the current restrictions.
ViewRestricted == phase = "ready" => IsRestricted(restr, text, View)

\* A conversion ends, with the restrictions that were asked for.
ConversionEnds ==
  \A r \in Restrictions :
    (phase \in {"unescape", "restrict"} /\ target = r) ~> (phase = "ready" /\ restr = r)

-----------------------------------------------------------------------------
(* Values of the constants for TLC. *)

MCPool == <<255, 254, 192, 193>>
MCByte == {0, 97, 254, 255}
\* What the algorithms ask for, and combinations of it.
MCRestrictions == {
  [escape |-> {}, null |-> FALSE],
  [escape |-> {0}, null |-> TRUE],
  [escape |-> {0}, null |-> FALSE],
  [escape |-> {0, 255}, null |-> TRUE]}
=============================================================================
