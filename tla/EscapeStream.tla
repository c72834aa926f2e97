---------------------------- MODULE EscapeStream ----------------------------
(***************************************************************************)
(* io/RestrictedIOStream.hpp: the stream adapters around a compressor that *)
(* forbids bytes.  RestrictedIStreamBuf escapes the text while it is read  *)
(* and appends the terminating 0; RestrictedOStreamBuf reverses both while *)
(* the decompressor writes.                                                *)
(*                                                                         *)
(* Between the two lies a compressor and its decompressor, which hand on   *)
(* the restricted text unchanged: wire.  The restriction is drawn in Init. *)
(* sent is the text read so far, got what reached the inner output stream. *)
(***************************************************************************)
EXTENDS EscapeMap

CONSTANTS Byte,           \* the byte values that occur in texts
          Restrictions,   \* the restrictions algorithms may register
          MaxLen          \* bound on the length of the text

ASSUME StreamAssumption ==
  /\ Byte \subseteq Nat /\ MaxLen \in Nat
  /\ \A r \in Restrictions : PoolSuffices(r)

Eof == -1

VARIABLES
  restr,    \* the restriction in force
  opened,   \* the input adapter has been constructed
  sent,     \* text taken from the inner input stream
  ended,    \* the inner input stream has reported its end
  in,       \* RestrictedIStreamBuf: [charBuf, ntDone, current]
  wire,     \* the restricted text, as pulled by the compressor
  taken,    \* how much of it the decompressor has pushed to the output side
  out,      \* RestrictedOStreamBuf: [sawEscape, sawNull]
  got       \* what has been put to the inner output stream

vars == <<restr, opened, sent, ended, in, wire, taken, out, got>>

\* Mutant: the terminator is delivered again and again.
PullEndForever(buf) ==
  [buf EXCEPT !.ntDone = TRUE, !.current = IF restr.null THEN 0 ELSE Eof]

\* pull_escape when the inner stream yields byte b, or its end.
PullByte(buf, b) ==
  IF b \in Escaped(restr)
  THEN [buf EXCEPT !.charBuf = Replacement(restr)[b], !.current = EscapeByte(restr)]
  ELSE [buf EXCEPT !.current = b]
PullEnd(buf) ==
  IF restr.null /\ ~buf.ntDone
  THEN [buf EXCEPT !.ntDone = TRUE, !.current = 0]
  ELSE [buf EXCEPT !.current = Eof]

\* One call of pull_escape on buf: the buffered second half of an escape pair,
\* the next byte of the text, or what follows its end.
PullEscape(buf) ==
  IF buf.charBuf # Eof
  THEN /\ in' = [buf EXCEPT !.charBuf = Eof, !.current = buf.charBuf]
       /\ UNCHANGED <<sent, ended>>
  ELSE \/ /\ ~ended /\ Len(sent) < MaxLen
          /\ \E b \in Byte : /\ sent' = Append(sent, b)
                             /\ in' = PullByte(buf, b)
          /\ UNCHANGED ended
       \/ /\ ended' = TRUE
          /\ in' = PullEnd(buf)
          /\ UNCHANGED sent

Init ==
  /\ restr \in Restrictions
  /\ opened = FALSE /\ sent = <<>> /\ ended = FALSE
  /\ in = [charBuf |-> Eof, ntDone |-> FALSE, current |-> Eof]
  /\ wire = <<>> /\ taken = 0 /\ got = <<>>
  /\ out = [sawEscape |-> FALSE, sawNull |-> FALSE]

\* The constructor pulls the first character.
OpenInput ==
  /\ ~opened
  /\ opened' = TRUE
  /\ PullEscape(in)
  /\ UNCHANGED <<restr, wire, taken, out, got>>

\* uflow: hand out the current character and pull the next one.
Uflow ==
  /\ opened
  /\ in.current # Eof
  /\ wire' = Append(wire, in.current)
  /\ PullEscape(in)
  /\ UNCHANGED <<restr, opened, taken, out, got>>

\* Mutant: a held 0 is forgotten when the next character is a 0, too.
PushUnescapeForgets(c) ==
  LET held == IF out.sawNull /\ c # 0 THEN <<0>> ELSE <<>>
  IN  IF out.sawEscape
      THEN /\ out' = [sawEscape |-> FALSE, sawNull |-> FALSE]
           /\ got' = got \o held \o <<Unreplace(restr, c)>>
      ELSE IF HasEscapeRestrictions(restr) /\ c = EscapeByte(restr)
      THEN out' = [out EXCEPT !.sawEscape = TRUE] /\ got' = got
      ELSE /\ out' = [out EXCEPT !.sawNull = (c = 0 /\ restr.null)]
           /\ got' = got \o held \o (IF c = 0 /\ restr.null THEN <<>> ELSE <<c>>)

\* push_unescape: a 0 that may be the terminator is held back until another
\* character follows it.
PushUnescape(c) ==
  LET held == IF out.sawNull THEN <<0>> ELSE <<>>
  IN  IF out.sawEscape
      THEN /\ out' = [sawEscape |-> FALSE, sawNull |-> FALSE]
           /\ got' = got \o held \o <<Unreplace(restr, c)>>
      ELSE IF HasEscapeRestrictions(restr) /\ c = EscapeByte(restr)
      THEN out' = [out EXCEPT !.sawEscape = TRUE] /\ got' = got
      ELSE /\ out' = [out EXCEPT !.sawNull = (c = 0 /\ restr.null)]
           /\ got' = got \o held \o (IF c = 0 /\ restr.null THEN <<>> ELSE <<c>>)

Overflow ==
  /\ taken < Len(wire)
  /\ taken' = taken + 1
  /\ PushUnescape(wire[taken + 1])
  /\ UNCHANGED <<restr, opened, sent, ended, in, wire>>

Next == OpenInput \/ Uflow \/ Overflow

SafeSpec == Init /\ [][Next]_vars

\* A compressor reads its input to the end, a decompressor writes all of it.
Spec == SafeSpec /\ WF_vars(OpenInput \/ Uflow) /\ WF_vars(Overflow)
-----------------------------------------------------------------------------
(* Properties *)

TypeOK ==
  /\ restr \in Restrictions
  /\ opened \in BOOLEAN /\ sent \in Seq(Byte) /\ ended \in BOOLEAN
  /\ in.charBuf \in {Eof} \cup ToSet(Pool) /\ in.ntDone \in BOOLEAN
  /\ in.current \in {Eof, 0} \cup ToSet(Pool) \cup Byte
  /\ taken \in 0 .. Len(wire)
  /\ out \in [sawEscape : BOOLEAN, sawNull : BOOLEAN]

\* What the compressor reads obeys the restriction: a forbidden byte never
\* occurs, except the 0 of the terminator, which then is the last character.
Restricted ==
  \A i \in 1 .. Len(wire) :
    wire[i] \in restr.escape => restr.null /\ wire[i] = 0 /\ i = Len(wire) /\ ended

\* The adapter computes the restricted text, character by character.
EscapesText ==
  opened /\ in.current = Eof => IsRestricted(restr, sent, wire)

\* At the end exactly one 0 is still held back if and only if the text was
\* null-terminated (the DCHECK of ~RestrictedOStreamBuf), no escape pair is left
\* half-read, and what was in between was the restricted text.
CleanEnd ==
  /\ TypeOK
  /\ EscapesText
  /\ opened /\ in.current = Eof /\ taken = Len(wire) =>
       got = sent /\ out.sawNull = restr.null /\ ~out.sawEscape

\* The adapters implement the lossless channel.
Channel == INSTANCE LosslessChannel WITH Symbol <- Byte, closed <- ended
ChannelSpec == Channel!Spec
=============================================================================
