------------------------------ MODULE MCDriver ------------------------------
(* Instances of Driver for TLC. *)
EXTENDS Driver

\* The algorithms: two coders, the text data structure, and the compressors.
Binary == NewMeta("coder", "binary")
Gamma == NewMeta("coder", "gamma")
TextDS == NewMeta("textds", "textds")
Noop == Dynamic(Dynamic(NewMeta("compressor", "noop"), "mode", "stream"), "debug", "false")
Rle == Dynamic(NewMeta("compressor", "rle"), "offset", "0")
Mtf == NewMeta("compressor", "mtf")
Bwt == WithFlags(TemplatedWithDefault(NewMeta("compressor", "bwt"), "textds", TextDS, TextDS),
                 [escape |-> {0}, null |-> TRUE])
Lzss(coder) == Dynamic(Dynamic(Templated(NewMeta("compressor", "lzss"), "coder", coder),
                               "window", "2"), "threshold", "3")
Encode(coder) == Templated(NewMeta("compressor", "encode"), "coder", coder)
Chain == DynamicCompressor(DynamicCompressor(NewMeta("compressor", "chain"), "first"), "second")
MCMetas == <<Noop, Rle, Mtf, Bwt, Lzss(Binary), Lzss(Gamma), Encode(Binary), Chain>>

MCPool == <<3, 2>>
MCNumerals == [n \in {"0", "1", "2", "3", "4"} |->
                 CHOOSE k \in 0 .. 4 : n = ToString(k)]

Id(w) == <<"id", w>>
Num(w) == <<"num", w>>
Call(w, args) == <<Id(w), Punct("(")>> \o args \o <<Punct(")")>>
Comma == <<Punct(",")>>
Colon == <<Punct(":")>>
Eq(k, v) == <<Id(k), Punct("=")>> \o v

MCIds == {
  <<Id("noop")>>,
  Call("noop", Eq("mode", <<<<"str", "view">>>>) \o Comma),
  <<Id("rle")>>,
  Call("rle", <<Num("1")>>),
  <<Id("mtf")>>,
  <<Id("bwt")>>,
  Call("lzss", <<Id("binary")>>),
  Call("lzss", Eq("threshold", <<Num("1")>>) \o Comma \o Eq("coder", <<Id("gamma")>>)
               \o Comma \o Eq("window", <<Num("4")>>)),
  Call("encode", <<Id("binary")>>),
  Call("encode", <<Id("gamma")>>),
  <<Id("lzss")>>,
  Call("mtf", <<Num("1")>>),
  <<Id("rle")>> \o Colon,
  <<Id("zip")>>,
  Call("rle", Eq("offset", <<Num("1")>>) \o Comma \o <<Num("1")>>),
  <<Id("mtf"), Punct("%")>>,
  <<Id("mtf")>> \o Colon \o <<Id("rle")>>,
  <<Id("bwt")>> \o Colon \o <<Id("mtf")>> \o Colon \o Call("rle", Eq("offset", <<Num("1")>>)),
  Call("chain", Eq("second", <<Id("rle")>>) \o Comma \o Eq("first", <<Id("bwt")>> \o Colon \o <<Id("mtf")>>)),
  <<Id("rle")>> \o Colon \o Call("encode", <<Id("binary")>>),
  <<Id("mtf")>> \o Colon \o Call("encode", <<Id("gamma")>>)}

Compress(id, raw) ==
  [algorithm |-> id, decompress |-> FALSE, raw |-> raw, force |-> FALSE, inputs |-> {"file"},
   in |-> "text", output |-> None, stdout |-> FALSE]
Decompress(id, raw) ==
  [algorithm |-> id, decompress |-> TRUE, raw |-> raw, force |-> FALSE, inputs |-> {"file"},
   in |-> "tdc", output |-> "copy", stdout |-> FALSE]
Piped == [Compress(<<Id("rle")>>, FALSE) EXCEPT !.inputs = {"stdin"}, !.stdout = TRUE]
Unpiped == [Decompress(<<>>, FALSE) EXCEPT !.inputs = {"stdin"}, !.in = "pipe", !.force = TRUE]
Generate(id) == [Compress(id, FALSE) EXCEPT !.inputs = {"generator"}, !.output = "copy"]

MCCommands ==
  {Compress(id, raw) : id \in MCIds, raw \in BOOLEAN}
  \cup {Decompress(<<>>, FALSE), Decompress(<<>>, TRUE), Decompress(<<Id("mtf")>>, FALSE),
        Decompress(<<Id("rle")>>, TRUE), Piped, Unpiped, Compress(<<>>, FALSE),
        Generate(<<>>), Generate(<<Id("mtf")>>),
        [Decompress(<<>>, FALSE) EXCEPT !.in = "text"],
        [Decompress(<<>>, FALSE) EXCEPT !.inputs = {"generator"}],
        [Decompress(<<>>, FALSE) EXCEPT !.output = None],
        [Compress(<<Id("mtf")>>, FALSE) EXCEPT !.inputs = {"file", "stdin"}],
        [Compress(<<Id("mtf")>>, FALSE) EXCEPT !.output = "copy", !.stdout = TRUE],
        [Compress(<<Id("rle")>>, FALSE) EXCEPT !.force = TRUE]}

MCTexts == UNION {[1 .. n -> 0 .. 3] : n \in 0 .. 2}
           \cup {<<3, 3, 3>>, <<1, 1, 1, 2>>, <<1, 2, 1, 2, 1>>, <<2, 0, 0, 0, 1>>, <<1, 3, 3, 3, 3, 2>>, <<2, 1, 2, 1, 1, 2, 1>>}
MCGenerated == <<1, 1, 2>>
=============================================================================
