------------------------------- MODULE Driver -------------------------------
(***************************************************************************)
(* The command line program (tudocomp_driver.cpp) with its registry and its *)
(* chains (ChainCompressor.hpp): a session of commands over a few files,   *)
(* with the compressors of ByteTransforms, and a coder that writes a text  *)
(* unchanged or symbol by symbol.                                          *)
(*                                                                         *)
(* A file is a sequence of bytes <<"byte", n>> and of the tokens of a      *)
(* header; a command is a record of its options.                           *)
(***************************************************************************)
EXTENDS ByteTransforms, EscapeMap, AlgorithmId

CONSTANTS Metas,       \* the algorithms that are compiled in, in order
          Numerals,    \* the number each numeric option stands for
          Commands,    \* the commands of a session
          MaxCommands, \* how many there are in one
          Texts,       \* the texts of the input file
          Generated,   \* what the string generator yields
          HeaderMax    \* how many characters of a header are read at most

VARIABLES registry,  \* types and compiled patterns
          loaded,    \* how many algorithms are registered
          file,      \* the files, None for one that does not exist
          origin,    \* history: what was compressed into a file, and by what
          cmd,       \* the options of the running command
          issued,    \* how many commands were given
          pc,        \* where the driver is
          selection, \* the algorithm it has selected
          fresh,     \* m_overwrite of the output: its first stream truncates
          todo,      \* compressors still to run, None when that was not decided
          data,      \* the text between them
          status,    \* the exit code of the last command
          before,    \* history: the files when the command started
          restored   \* history: the text a decompression should yield, and did

vars == <<registry, loaded, file, origin, cmd, issued, pc, selection, fresh, todo, data,
          status, before, restored>>

Bytes(s) == [i \in DOMAIN s |-> <<"byte", s[i]>>]
IsByte(x) == x[1] = "byte"
\* Read as data, each token of a header is some letter.
Letter == 1
Values(f) == [i \in DOMAIN f |-> IF IsByte(f[i]) THEN f[i][2] ELSE Letter]
-----------------------------------------------------------------------------
(* The compressors as the stages of a chain see them. *)

\* lexical_cast<uint64_t>
AsInteger(o) == IF o.name \in DOMAIN Numerals THEN Numerals[o.name] ELSE 0
IsBinary(av) == av.opts["coder"].name = "binary"

\* LiteralEncoder: every character of the view, in the range of a literal.
LiteralsEncoded(s, binary) == FlattenSeq([i \in DOMAIN s |-> Encoded(binary, s[i], LitMax)])
LiteralsDecoded(code, binary) ==
  LET D[pos \in Nat] ==
        IF pos >= Len(code) THEN <<>>
        ELSE LET c == Decoded(binary, code, pos, LitMax) IN <<c.v>> \o D[c.next]
  IN  D[0]

\* compress and decompress of a compressor that is not a chain.  noop copies a
\* stream or a view.
Compressed(av, s) ==
  CASE av.name = "noop" -> s
    [] av.name = "rle" -> RleEncoded(s, AsInteger(av.opts["offset"]))
    [] av.name = "mtf" -> MtfEncoded(s)
    [] av.name = "bwt" -> BwtEncoded(s)
    [] av.name = "lzss" -> WindowEncoded(s, IsBinary(av), AsInteger(av.opts["window"]),
                                         AsInteger(av.opts["threshold"]))
    [] av.name = "encode" -> LiteralsEncoded(s, IsBinary(av))

Decompressed(av, code) ==
  CASE av.name = "noop" -> code
    [] av.name = "rle" -> RleDecoded(code, AsInteger(av.opts["offset"]))
    [] av.name = "mtf" -> MtfDecoded(code)
    [] av.name = "bwt" -> BwtDecoded(code)
    [] av.name = "lzss" -> WindowDecoded(code, IsBinary(av), AsInteger(av.opts["window"]))
    [] av.name = "encode" -> LiteralsDecoded(code, IsBinary(av))

\* RestrictedIStreamBuf: every forbidden byte as its pair, and the terminator.
RestrictText(r, text) ==
  LET Code(b) == IF b \in Escaped(r) THEN <<EscapeByte(r), Replacement(r)[b]>> ELSE <<b>>
  IN  FlattenSeq([i \in DOMAIN text |-> Code(text[i])]) \o (IF r.null THEN <<0>> ELSE <<>>)

\* RestrictedOStreamBuf, character by character: a pair is unescaped, and a 0
\* is held back until another character shows that it is not the terminator.
UnrestrictText(r, s) ==
  LET Push(b, c) ==
        LET held == IF b.sawNull THEN Append(b.out, 0) ELSE b.out
        IN  IF b.sawEscape
            THEN [out |-> Append(held, Unreplace(r, c)), sawEscape |-> FALSE, sawNull |-> FALSE]
            ELSE IF HasEscapeRestrictions(r) /\ c = EscapeByte(r) THEN [b EXCEPT !.sawEscape = TRUE]
            ELSE [b EXCEPT !.sawNull = c = 0 /\ r.null,
                           !.out = IF c = 0 /\ r.null THEN held ELSE Append(held, c)]
  IN  FoldLeft(Push, [out |-> <<>>, sawEscape |-> FALSE, sawNull |-> FALSE], s).out
-----------------------------------------------------------------------------
Init ==
  /\ registry = EmptyRegistry /\ loaded = 0
  /\ \E old \in {None, <<<<"byte", Letter>>>>} :  \* an older file may be in the way
       file = [text |-> None, tdc |-> old, copy |-> None, pipe |-> None]
  /\ origin = [f \in DOMAIN file |-> None]
  /\ cmd = None /\ issued = 0
  /\ pc = "register"
  /\ selection = None /\ fresh = TRUE /\ todo = None /\ data = <<>>
  /\ status = 0 /\ before = file /\ restored = None

\* The registries are filled before main runs.
Register ==
  /\ pc = "register"
  /\ IF loaded = Len(Metas) THEN pc' = "idle" /\ UNCHANGED <<registry, loaded>>
     ELSE /\ registry' = Registered(registry, Metas[loaded + 1])
          /\ loaded' = loaded + 1 /\ UNCHANGED pc
  /\ UNCHANGED <<file, origin, cmd, issued, selection, fresh, todo, data, status, before, restored>>

\* The user's text.
WriteText ==
  /\ pc = "idle" /\ issued = 0 /\ file["text"] = None
  /\ \E t \in Texts : file' = [file EXCEPT !["text"] = Bytes(t)]
  /\ UNCHANGED <<registry, loaded, origin, cmd, issued, pc, selection, fresh, todo, data, status,
                 before, restored>>

StartCommand ==
  /\ pc = "idle" /\ issued < MaxCommands
  /\ \E c \in Commands : cmd' = c
  /\ issued' = issued + 1
  /\ pc' = "usage" /\ selection' = None /\ fresh' = TRUE /\ todo' = None /\ data' = <<>>
  /\ before' = file /\ restored' = None
  /\ UNCHANGED <<registry, loaded, file, origin, status>>

\* main returns: the files stay as they are.
Exit(code) ==
  /\ pc' = "idle" /\ status' = code
  /\ UNCHANGED <<registry, loaded, file, origin, cmd, issued, selection, fresh, todo, data,
                 before, restored>>

Compresses == ~cmd.decompress
OneInput == Cardinality({k \in {"stdin", "generator", "file"} : k \in cmd.inputs}) = 1

\* What is wrong with the mode and the inputs, and with the outputs: options
\* that are refused before anything is opened.
BadInputs ==
  \/ cmd.algorithm = <<>> /\ "generator" \notin cmd.inputs /\ (Compresses \/ cmd.raw)
  \/ "generator" \in cmd.inputs /\ cmd.decompress
  \/ ~OneInput
BadOutputs ==
  \/ cmd.output # None /\ cmd.stdout
  \/ cmd.output = None /\ ~cmd.stdout /\ (cmd.decompress \/ "file" \notin cmd.inputs)

\* -o, the standard output, or the input's name with the ending of compressed
\* files.
OutputFile == IF cmd.stdout THEN "pipe" ELSE IF cmd.output # None THEN cmd.output ELSE "tdc"
MissingInput == "file" \in cmd.inputs /\ file[cmd.in] = None
WouldOverwrite == ~cmd.stdout /\ file[OutputFile] # None /\ ~cmd.force

CheckUsage ==
  /\ pc = "usage"
  /\ \/ BadInputs /\ Exit(2)
     \/ ~BadInputs /\ MissingInput /\ Exit(1)
     \/ ~BadInputs /\ ~MissingInput /\ BadOutputs /\ Exit(2)
     \/ ~BadInputs /\ ~MissingInput /\ ~BadOutputs /\ WouldOverwrite /\ Exit(1)
     \/ /\ ~BadInputs /\ ~MissingInput /\ ~BadOutputs /\ ~WouldOverwrite
        /\ pc' = "select"
        /\ UNCHANGED <<registry, loaded, file, origin, cmd, issued, selection, fresh, todo, data,
                       status, before, restored>>

\* The algorithm of -a, if there is one.
SelectAlgorithm ==
  /\ pc = "select"
  /\ IF cmd.algorithm = <<>>
     THEN /\ pc' = "open"
          /\ UNCHANGED <<registry, loaded, file, origin, cmd, issued, selection, fresh, todo, data,
                         status, before, restored>>
     ELSE \E av \in {ParseAlgorithmId(registry, cmd.algorithm)} :
            IF av = None THEN Exit(1)
            ELSE IF ~Selectable(registry, av) THEN Exit(1)
            ELSE /\ pc' = "open" /\ selection' = av
                 /\ UNCHANGED <<registry, loaded, file, origin, cmd, issued, fresh, todo, data,
                                status, before, restored>>

\* Of a standard input without a file behind it nothing comes.
InputContent ==
  IF "generator" \in cmd.inputs THEN Bytes(Generated)
  ELSE IF file[cmd.in] = None THEN <<>> ELSE file[cmd.in]

\* A stream of the output: the first one truncates the file.
Appended(f, s) == [file EXCEPT ![f] = (IF fresh THEN <<>> ELSE file[f]) \o s]

\* Mutant: the header is written before its text is checked.
WriteHeaderFirst ==
  /\ pc = "open" /\ Compresses /\ selection # None /\ ~cmd.raw
  /\ file' = Appended(OutputFile, Append(cmd.algorithm, Punct("%")))
  /\ fresh' = FALSE
  /\ IF Punct("%") \in ToSet(cmd.algorithm)
     THEN pc' = "idle" /\ status' = 134
     ELSE pc' = "input" /\ UNCHANGED status
  /\ UNCHANGED <<registry, loaded, origin, cmd, issued, selection, todo, data, before, restored>>

\* The text of -a and % go in front of what is compressed; a CHECK aborts when
\* that text has a % itself.
WriteHeader ==
  /\ pc = "open" /\ Compresses /\ selection # None /\ ~cmd.raw
  /\ IF Punct("%") \in ToSet(cmd.algorithm) THEN Exit(134)
     ELSE /\ file' = Appended(OutputFile, Append(cmd.algorithm, Punct("%")))
          /\ fresh' = FALSE /\ pc' = "input"
          /\ UNCHANGED <<registry, loaded, origin, cmd, issued, selection, todo, data, status,
                         before, restored>>

\* The compressor gets the input, restricted as it asks for.
OpenInput ==
  /\ \/ pc = "input"
     \/ pc = "open" /\ cmd.raw /\ selection # None
  /\ pc' = "stages" /\ todo' = <<selection>> /\ data' = Values(InputContent)
  /\ UNCHANGED <<registry, loaded, file, origin, cmd, issued, selection, fresh, status, before,
                 restored>>

\* Without a compressor the input is copied.
Echo ==
  /\ pc = "open" /\ Compresses /\ selection = None
  /\ file' = Appended(OutputFile, InputContent)
  /\ origin' = [origin EXCEPT ![OutputFile] = None]
  /\ pc' = "idle" /\ status' = 0
  /\ UNCHANGED <<registry, loaded, cmd, issued, selection, fresh, todo, data, before, restored>>

\* What a decompression of the input should yield: it was compressed with a
\* header, which is used or overruled by the same text, or without one.
Expectation ==
  LET o == IF "generator" \in cmd.inputs THEN None ELSE origin[cmd.in]
  IN  IF o = None THEN None
      ELSE IF o.raw # cmd.raw \/ cmd.algorithm \notin {o.id} \cup (IF o.raw THEN {} ELSE {<<>>})
           THEN None ELSE o

Unreadable ==
  /\ pc' = "idle" /\ status' = 1
  /\ restored' = IF Expectation = None THEN None ELSE [origin |-> Expectation, got |-> None]
  /\ UNCHANGED <<registry, loaded, file, origin, cmd, issued, selection, fresh, todo, data, before>>

\* The characters up to the first %, of which there must be one among the first
\* HeaderMax + 1; an empty input passes.  They are parsed unless -a was given.
ReadHeader ==
  /\ pc = "open" /\ cmd.decompress /\ ~cmd.raw
  /\ \E content \in {InputContent} :
     \E ends \in {{i \in DOMAIN content : content[i] = Punct("%") /\ i <= HeaderMax + 1}} :
       IF ends = {} /\ content # <<>> THEN Unreadable
       ELSE \E len \in {IF ends = {} THEN 0 ELSE (CHOOSE i \in ends : \A k \in ends : i <= k) - 1} :
            \E av \in {IF selection # None THEN selection
                       ELSE ParseAlgorithmId(registry, SubSeq(content, 1, len))} :
              IF av = None THEN Unreadable
              ELSE IF ~Selectable(registry, av) THEN Unreadable
              ELSE /\ selection' = av /\ todo' = <<av>> /\ pc' = "stages"
                   /\ data' = Values(SubSeq(content, len + 2, Len(content)))
                   /\ UNCHANGED <<registry, loaded, file, origin, cmd, issued, fresh, status,
                                  before, restored>>
-----------------------------------------------------------------------------
(* ChainCompressor: the parts of a chain run one after the other, over a buffer. *)

ExpandChain ==
  /\ pc = "stages" /\ Head(todo).name = "chain"
  /\ LET first == Head(todo).opts["first"]
         second == Head(todo).opts["second"]
     IN  todo' = (IF Compresses THEN <<first, second>> ELSE <<second, first>>) \o Tail(todo)
  /\ UNCHANGED <<registry, loaded, file, origin, cmd, issued, pc, selection, fresh, data, status,
                 before, restored>>

\* The last compressor writes to the output of the program.
Deliver(s) ==
  /\ file' = Appended(OutputFile, Bytes(s))
  /\ pc' = "idle" /\ status' = 0
  /\ origin' = [origin EXCEPT ![OutputFile] =
       IF Compresses THEN [text |-> Values(InputContent), id |-> cmd.algorithm, av |-> selection,
                           raw |-> cmd.raw]
       ELSE None]
  /\ restored' = IF Compresses \/ Expectation = None THEN None
                 ELSE [origin |-> Expectation, got |-> s]

\* What a decompressor makes of data it did not write is of no interest here.
Foreign == ~Compresses /\ Expectation = None

\* A part of the chain, for which its own restrictions are made and undone.
\* Each part must have been compiled, too.
RunStage ==
  /\ pc = "stages" /\ Head(todo).name # "chain"
  /\ LET av == Head(todo)
     IN  \E s \in {IF ~Selectable(registry, av) THEN None
                   ELSE IF Foreign THEN <<>>
                   ELSE IF Compresses THEN Compressed(av, RestrictText(av.flags, data))
                   ELSE UnrestrictText(av.flags, Decompressed(av, data))} :
           IF s = None THEN Exit(1)
           ELSE IF s = Endless
           THEN /\ pc' = "hung"
                /\ UNCHANGED <<registry, loaded, file, origin, cmd, issued, selection, fresh, todo,
                               data, status, before, restored>>
           ELSE /\ todo' = Tail(todo) /\ data' = s
                /\ IF todo' = <<>> THEN Deliver(s)
                   ELSE UNCHANGED <<file, origin, pc, status, restored>>
                /\ UNCHANGED <<registry, loaded, cmd, issued, selection, fresh, before>>

Next ==
  \/ Register \/ WriteText \/ StartCommand \/ CheckUsage \/ SelectAlgorithm
  \/ WriteHeader \/ OpenInput \/ Echo \/ ReadHeader
  \/ ExpandChain \/ RunStage

Spec == Init /\ [][Next]_vars
-----------------------------------------------------------------------------
(* Properties *)

RECURSIVE Uses(_, _)

\* Does the algorithm have this compressor in its chain?
Uses(av, name) ==
  IF av.name # "chain" THEN av.name = name
  ELSE Uses(av.opts["first"], name) \/ Uses(av.opts["second"], name)

\* A text that bwt restores: without the largest byte, which is also the one
\* that zeros are escaped with.
Plain(s) == ToSet(s) \cap {0, LitMax} = {}

\* A file that was compressed is decompressed to the same text, whether the
\* header selects the algorithm, or -a with or without one: the options of both
\* directions agree, chains are undone in reverse, and restrictions are undone
\* where they were made.  Excepted are headers too long to be read, and what
\* bwt does with the largest byte.
RoundTrip ==
  restored # None /\ (Uses(restored.origin.av, "bwt") => Plain(restored.origin.text))
    /\ Len(restored.origin.id) <= HeaderMax
  => restored.got = restored.origin.text

\* A command that fails before a compressor runs leaves every file as it was,
\* whichever of the checks it fails: usage, files, parser, registry, the % in
\* the text of the algorithm, the header.  (A part of a chain that was not
\* compiled is only noticed when its turn comes, behind the header.)
FailedKeepsFiles ==
  pc = "idle" /\ status # 0 /\ issued > 0 /\ todo = None => file = before

\* Every algorithm that is given can be printed and parsed again.
PrintedParsesBack ==
  pc = "select" =>
    LET v == Parse(cmd.algorithm) IN v # None => Parse(Printed(v)) = v

\* The guard of the listing against endless recursion leaves out nothing.
CompiledListed ==
  pc = "register" /\ loaded > 0 => registry.registered \subseteq AllStatic(registry.types, <<>>, "compressor")

\* create_algo on a compiled type with no options selects that type, whatever
\* the defaults of its declaration are, unless an option has to be given.
BuilderSelects ==
  pc = "register" =>
    \A i \in 1 .. loaded :
      LET env == BuilderEnv(registry, Metas[i], <<>>)
          required == {k \in DOMAIN Metas[i].options : ~Metas[i].options[k].static /\ ~Metas[i].options[k].has}
      IN  IF required # {} THEN env = None
          ELSE env # None /\ env.static = PatternOf(Metas[i], registry.types)

\* The registry, the parser and its printer agree: an algorithm that is printed
\* means the same when it is parsed again, whatever was compiled is listed, and
\* create_algo finds what was compiled (Registry.hpp, AlgorithmStringParser.hpp).
RegistryAgrees == PrintedParsesBack /\ CompiledListed /\ BuilderSelects
=============================================================================
