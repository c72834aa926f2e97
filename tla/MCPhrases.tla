------------------------------ MODULE MCPhrases ------------------------------
(* Instances of LZ78 and LZW for TLC, in one run. *)
EXTENDS LZW

VARIABLES compressor,                       \* "lz78_bit", "lz78_gamma" or "lzw"
          parent, last, indices, literals   \* the other ones of LZ78

\* LZ78 with the binary coder, and with a coder that ignores ranges and keeps the
\* sign of a number; its dict_size is 0, no reset.
L == INSTANCE LZ78 WITH Binary <- TRUE, MaxSize <- 0, MaxLen <- MaxLen + 1
U == INSTANCE LZ78 WITH Binary <- FALSE, MaxSize <- 0, MaxLen <- MaxLen + 1

lz78Vars == <<parent, last, indices, literals>>
lzwVars == <<setup, ddict, prev, counter, failed>>
bothVars == <<compressor, vars, lz78Vars>>

\* LZW's options: the binary coder without a limit, a coder that ignores ranges
\* with one; the binary coder with a limit that needs more bits than the alphabet.
Lossless == {[binary |-> TRUE, limit |-> 0], [binary |-> FALSE, limit |-> 4]}
BinaryLimited == {[binary |-> TRUE, limit |-> 5]}

MCInit ==
  \/ /\ compressor \in {"lz78_bit", "lz78_gamma"} /\ L!Init
     /\ setup = [binary |-> TRUE, limit |-> 0] /\ ddict = <<>> /\ prev = 0
     /\ counter = 0 /\ failed = FALSE
  \/ /\ compressor = "lzw" /\ Init
     /\ parent = 0 /\ last = L!NoLiteral /\ indices = <<>> /\ literals = <<>>

LZ78Step == compressor = "lz78_bit" /\ L!Next /\ UNCHANGED <<compressor, lzwVars>>
GammaStep == compressor = "lz78_gamma" /\ U!Next /\ UNCHANGED <<compressor, lzwVars>>
LZWStep == compressor = "lzw" /\ Next /\ UNCHANGED <<compressor, lz78Vars>>

MCSpec ==
  /\ MCInit /\ [][LZ78Step \/ GammaStep \/ LZWStep]_bothVars
  /\ WF_bothVars(LZ78Step /\ L!DecompressFactor)
  /\ WF_bothVars(GammaStep /\ U!DecompressFactor)
  /\ WF_bothVars(LZWStep /\ DecodeStep)

\* Both sides keep the same dictionary, in LZ78 entry for entry, in LZW with the
\* lag of one entry that the decoder has (LZ78Compressor, LZWCompressor).
DictsAgree ==
  /\ compressor = "lz78_bit" => L!DictsAgree
  /\ compressor = "lz78_gamma" => U!DictsAgree
  /\ compressor = "lzw" => DecoderKeepsUp
=============================================================================
