-------------------------- MODULE LosslessChannel --------------------------
(***************************************************************************)
(* What every writer/reader pair of the framework promises (the            *)
(* compressor/decompressor contract of docs/Documentation.md): the reader  *)
(* delivers the symbols that were written, in order, none lost, invented   *)
(* or changed, and after the writer is closed it delivers all of them.     *)
(*                                                                         *)
(* A step may deliver several symbols: a decoder expands one codeword into *)
(* a phrase.  The detailed modules implement this one (their property      *)
(* Channel!Spec, with a refinement mapping for sent, got and closed).      *)
(***************************************************************************)
EXTENDS Naturals, Sequences

CONSTANT Symbol

VARIABLES sent,    \* the symbols handed to the writer so far
          got,     \* the symbols the reader has delivered
          closed   \* the writer has been destroyed

vars == <<sent, got, closed>>

TypeOK ==
  /\ sent \in Seq(Symbol)
  /\ got \in Seq(Symbol)
  /\ closed \in BOOLEAN

Init ==
  /\ sent = <<>>
  /\ got = <<>>
  /\ closed = FALSE

Send ==
  /\ ~closed
  /\ \E s \in Symbol : sent' = Append(sent, s)
  /\ UNCHANGED <<got, closed>>

Close ==
  /\ ~closed
  /\ closed' = TRUE
  /\ UNCHANGED <<sent, got>>

Deliver ==
  /\ \E n \in Len(got) + 1 .. Len(sent) : got' = SubSeq(sent, 1, n)
  /\ UNCHANGED <<sent, closed>>

Next == Send \/ Close \/ Deliver

SafeSpec == Init /\ [][Next]_vars

Spec == SafeSpec /\ WF_vars(closed /\ Deliver)

Complete == closed /\ got = sent
=============================================================================
