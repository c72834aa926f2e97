----------------------------- MODULE EscapeMap -----------------------------
(***************************************************************************)
(* io/InputRestrictions.hpp and io/EscapeMap.hpp: the bytes an algorithm   *)
(* forbids in its input, and the table by which they are escaped.          *)
(*                                                                         *)
(* A restriction is [escape : set of bytes, null : BOOLEAN]: forbidden     *)
(* bytes, and whether a terminating 0 is appended.  EscapeMap has two      *)
(* parallel arrays: m_escape_bytes[i] is written as m_replacement_bytes[0] *)
(* followed by m_replacement_bytes[i].  Entry 0 is the escape byte itself, *)
(* the others are the forbidden bytes in increasing order.                 *)
(***************************************************************************)
EXTENDS Integers, Sequences, FiniteSets, SequencesExt

CONSTANT Pool   \* ESCAPE_BYTE_POOL: the bytes usable for escaping, by preference

ASSUME PoolAssumption ==
  /\ Pool \in Seq(Nat \ {0})
  /\ \A i, j \in 1 .. Len(Pool) : Pool[i] = Pool[j] => i = j

\* operator|: the restrictions of two algorithms that see the same text.
MergeRestrictions(a, b) ==
  [escape |-> a.escape \cup b.escape, null |-> a.null \/ b.null]

HasEscapeRestrictions(r) == r.escape # {}
HasRestrictions(r) == HasEscapeRestrictions(r) \/ r.null
Noff(r) == IF r.null THEN 1 ELSE 0

UpTo(S, x) == {y \in S : y <= x}

\* The positions in the pool of the bytes that are not themselves forbidden,
\* and m_replacement_bytes[k].
Usable(r) == {i \in 1 .. Len(Pool) : Pool[i] \notin r.escape}
ReplacementByte(r, k) ==
  Pool[CHOOSE i \in Usable(r) : Cardinality(UpTo(Usable(r), i)) = k + 1]

\* escape_byte(): uint8_t(-1) when nothing is escaped.
EscapeByte(r) == IF r.escape = {} THEN 255 ELSE ReplacementByte(r, 0)

\* The pool is long enough for the restriction (the DCHECK of EscapeMap).
PoolSuffices(r) ==
  /\ r \in [escape : SUBSET Nat, null : BOOLEAN]
  /\ IsFiniteSet(r.escape)
  /\ r.escape # {} => Cardinality(r.escape) < Cardinality(Usable(r))

\* Mutant: the escape byte itself is not escaped.
EscapedPlain(r) == r.escape

\* m_escape_bytes, and the place of a byte in it.
Escaped(r) == IF r.escape = {} THEN {} ELSE r.escape \cup {EscapeByte(r)}
Place(r, b) == IF b = EscapeByte(r) THEN 0 ELSE Cardinality(UpTo(r.escape, b))

\* FastEscapeMap::lookup_byte, for the bytes that lookup_flag names.
Replacement(r) == [b \in Escaped(r) |-> ReplacementByte(r, Place(r, b))]

\* FastUnescapeMap::lookup_byte: bytes that replace nothing map to themselves.
Unreplace(r, c) ==
  IF \E b \in Escaped(r) : Replacement(r)[b] = c
  THEN CHOOSE b \in Escaped(r) : Replacement(r)[b] = c
  ELSE c

(***************************************************************************)
(* The restricted form of a text, which both implementations produce       *)
(* (RestrictedIStreamBuf, RestrictedBuffer): its i-th character comes      *)
(* after Offset(r, text, i) bytes, as itself or as its pair.               *)
(***************************************************************************)
Offset(r, text, i) == i - 1 + Cardinality({j \in 1 .. i - 1 : text[j] \in Escaped(r)})

Shows(r, b, s, p) ==
  IF b \in Escaped(r) THEN s[p + 1] = EscapeByte(r) /\ s[p + 2] = Replacement(r)[b]
  ELSE s[p + 1] = b

IsRestricted(r, text, s) ==
  LET end == Offset(r, text, Len(text) + 1)
  IN  /\ Len(s) = end + Noff(r)
      /\ \A i \in 1 .. Len(text) : Shows(r, text[i], s, Offset(r, text, i))
      /\ r.null => s[end + 1] = 0
=============================================================================
