------------------------------ MODULE MCStreams ------------------------------
(***************************************************************************)
(* Instances of the two pairs of streams for TLC: the adapters that escape *)
(* (EscapeStream) and the streams of bits (BitStream).  They share nothing *)
(* but the channel both implement; a run works one of them, and the other  *)
(* stays as it was constructed.                                            *)
(***************************************************************************)
EXTENDS EscapeStream, BitStream

VARIABLE layer  \* the pair of streams that is at work

mcVars == <<vars, bitVars, layer>>

EscapeAtWork(step) == layer = "escape" /\ step /\ UNCHANGED <<bitVars, layer>>
BitsAtWork(step) == layer = "bits" /\ step /\ UNCHANGED <<vars, layer>>

MCInit ==
  /\ Init /\ BitInit
  /\ layer \in {"escape", "bits"}
  /\ layer = "bits" => restr = [escape |-> {}, null |-> FALSE]

MCNext == EscapeAtWork(Next) \/ BitsAtWork(BitNext)

\* The fairness of Spec and of BitSpec.
MCSpec ==
  /\ MCInit /\ [][MCNext]_mcVars
  /\ WF_mcVars(EscapeAtWork(OpenInput \/ Uflow)) /\ WF_mcVars(EscapeAtWork(Overflow))
  /\ WF_mcVars(BitsAtWork(ReaderStep))

\* Three pool bytes suffice: up to two forbidden bytes need three.
MCPool == <<255, 254, 192>>
\* 0, the first two pool bytes (escape byte and replacement) and a plain byte.
MCByte == {0, 97, 254, 255}
\* None, the default of the text data structures, the terminator alone, a
\* forbidden byte alone, two of them, and a forbidden pool byte.
MCRestrictions == {
  [escape |-> {}, null |-> FALSE],
  [escape |-> {0}, null |-> TRUE],
  [escape |-> {}, null |-> TRUE],
  [escape |-> {0}, null |-> FALSE],
  MergeRestrictions([escape |-> {0}, null |-> TRUE], [escape |-> {97}, null |-> FALSE]),
  [escape |-> {255}, null |-> TRUE]}
=============================================================================
