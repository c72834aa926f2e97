# tudocomp in TLA+

A verification development of the core of tudocomp, a C++ framework for
lossless compression: TLA+ modules translated from the headers under
`src/include/tudocomp`, TLC configurations that check them on small instances,
and proofs that TLAPS checks for instances of every size.

1. [The system](#1-the-system)
2. [Modules and code](#2-modules-and-code)
3. [Runs](#3-runs)
4. [Fairness, deadlock and mutants](#4-fairness-deadlock-and-mutants)
5. [Proofs](#5-proofs)
6. [Disagreements found](#6-disagreements-found)
7. [What is not modelled](#7-what-is-not-modelled)
8. [Plan](#8-plan)

## 1. The system

A **compressor** reads a text from an `Input` and writes bits to an `Output`; its
decompressor reads the bits and writes the text. Compressors are assembled from
parts chosen by options: a coder, a dictionary, a factorization strategy, a
decoding buffer. The program is sequential. What makes it hard is not
concurrency but state that two programs keep *apart* and must keep *alike*: the
encoder and the decoder share nothing but the bits, so code widths, dictionary
contents, dictionary resets, ranges and the end of the stream have to be
reconstructed from what has been read so far; and buffers, heaps and arrays are
changed in place while they are being read.

The parts, what they keep, how they interact, and what makes them correct:

| part | state | operations | used by | correct means |
|---|---|---|---|---|
| bit streams (`io/BitOStream`, `io/BitIStream`) | a byte being filled or emptied, a cursor, one byte of look-ahead, the count of the last byte | `write_bit`, the destructor; `read_bit`, `eof` | every coder | the bits come back, and `eof()` is exact although the file has no length field |
| integer codes and simple coders (`BitOStream`, `Coder.hpp`, `coders/`) | none of their own | unary, ternary, gamma, delta, compressed, ASCII, range-dependent binary | all compressors | codes follow each other without lengths and delimit themselves |
| statistical coders (Huffman, arithmetic, SLE) | tables counted from the text, an interval | count, write table, encode, decode | factor codings | the decoder rebuilds the same tables |
| escape tables (`EscapeMap`, `InputRestrictions`) | forbidden bytes, replacements | union of restrictions; escape byte | the adapters and buffers below | no forbidden byte is left, and the text can be recovered |
| restricted stream adapters (`RestrictedIOStream`) | half an escape pair; one character of look-ahead; a held-back 0 | `pull_escape`, `push_unescape` | `Input::as_stream`, `Output::as_stream` | inverse of each other; the terminator is appended and removed exactly once |
| restricted buffers (`RestrictedBuffer`, `MMapHandle`) | a memory map, its size, the restrictions in force | load from view, file, stream; `change_restrictions` | `Input::as_view`, `InputAlloc` | whatever was done to the buffer, its view is the restricted form of the text |
| inputs and outputs (`Input`, `InputAlloc`, `Output`) | a pool of reference counted chunks that all inputs of one source share | slice, restrict, size; open and close views and streams | compressors, driver | a reader shows its slice in the form its input asked for, whatever the others do |
| LZ78, LZW (`LZ78Compressor`, `LZWCompressor`, `LZWDecoding`) | a trie, the current node, a factor count; on the other side the factors or a dictionary that lags by one | find or insert, encode a factor, reset; decode, rebuild | end users | text in = text out; both sides count alike |
| LZ78 tries (`lz78/*Trie.hpp`) | parallel vectors of links, or a hash table | `add_rootnode`, `find_or_insert`, `clear` | LZ78, LZW | all are the dictionary that `LZ78Trie.hpp` describes |
| text index (`ds/`) | suffix array, its inverse, Phi, PLCP, LCP; `TextDS` owns them | build, share, take over in place, release | lcpcomp, LZSS-LCP | each array is what its name says, at the moment it is used |
| lcpcomp strategies (`lcpcomp/compress`) | candidates by length of their match | take the longest, remove what it covers, shorten what reaches into it | `LCPCompressor` | the factors are disjoint, refer to equal text and not in a circle |
| their queues (`ArrayMaxHeap`, `MaxLCPSuffixList`) | items with an inverse index | insert, remove, decrease, maximum | strategies | the maximum is the maximum |
| lcpcomp decoders (`lcpcomp/decompress`) | a partly known text, positions that wait for positions | literal, factor, lazy scans, eager resolution | `LCPCompressor` | every position is known in the end |
| LZSS factors (`lzss/`) | the factor list | sort, flatten, encode with the text | lcpcomp, LZSS-LCP, sliding window | flattening changes no substring; ranges suffice for what is coded with them |
| byte transformations (RLE, MTF, BWT, `vbyte`), sliding-window LZSS | a run, a table, a window | one pass | chains | inverse of each other |
| edit-sensitive parsing (`esp/`) | the string of a round, its blocks, the rules, a tree of pairs | cut, adjust, name, next round; sort and code the rules | end users | every round stands for the text; the rules expand to it |
| grammars over suffix trees (`lfs`, `lz78u`) and Re-Pair | a suffix tree, a dictionary, replaced positions, layers | grow the tree, replace the longest repeats, code, decode | end users | symbols stand for what was there, without overlap |
| algorithm registry and options | declarations, compiled combinations | parse an id, evaluate it, print it | driver, chains | what is printed means the same when it is parsed |
| driver and chains | the files, a header, a stack of stages | commands | end users | what was compressed comes back whichever way it is selected |
| statistics phases | a stack of phases | begin, end | everything | phases nest |

`PROJECT.json` lists every component with its files and its status, and under
`hazards` the places in the code where a test would hardly reach what can go
wrong. The kinds that occur here:

* **ordering**: escape in place from the back without overwriting what is still
  to be read; complete a dictionary entry before the code that needs it;
* **stale state**: a byte looked at before it is consumed, memory that survives
  a shrink, keys of a queue that have been lowered since they were filed, a
  counter that is reset on one side only;
* **long sequences of legal calls**: insertions below a trie in every order,
  removals from a heap, conversions of one buffer back and forth;
* **boundaries**: 5, 6 or 7 bits in the last byte; a code width that grows at a
  power of two; a range of one value; a map that is exactly full;
* **sharing**: the only copy of a stream is rewritten in place for one reader while
  others may look at it;
* **waiting**: positions that wait for positions while a text is restored; a symbol
  that finds no neighbour to be merged with.

There are no threads, no messages, nothing persisted between runs and no
timeouts, so hazards of those kinds do not arise.

## 2. Modules and code

`map` in `PROJECT.json` gives the source lines of every definition.

**`LosslessChannel`** is the abstract specification: symbols are sent, the
sender closes, and a prefix of what was sent, in the end all of it, is
delivered, possibly several symbols in one step. It is the contract of a
compressor with its decompressor (`docs/Documentation.md:25-26`). `BitStream`,
`Coders`, `EscapeStream`, `LZ78` and `LZW` implement it by
`INSTANCE LosslessChannel WITH ...`; `ChannelSpec` of each run (`BitChannelSpec` for
the streams of bits) is its safety and its liveness.

### Streams, codes and buffers

**`BitStream`** has the file as a sequence of bytes, a byte being a function from
bit positions to bits. `wr` is the object `BitOStream` (`m_next`, `m_cursor`,
`m_dirty`), `rd` is `BitIStream` (`m_current`, `m_next`, `m_is_final`,
`m_final_bits`, `m_cursor`, the position of the underlying stream). `WriteBit`
contains the flush of a full byte, `CloseWriter` is the destructor with its two
layouts, `OpenReader` the constructor with its first `read_next`, `ReadBit` a
`read_bit` with the `read_next` it may trigger, `OpenEmptyFile` a reader of a
file no writer made. `read_bit` at the end returns 0 and changes nothing, so it
is no step.

**`IntegerCodes`** models the codes as functions from integers to sequences of
bits and their readers as searches in the sequence. Types have `Width` bits and
results wrap. **`LiteralCoders`** holds the coders that see all literals first:
counting, the Huffman tree, its canonical code and table; the arithmetic coder
with its interval, its flushes and its limit; the k-mer ranking (SLE).
**`Coders`** is the machine: an encoder is made (`CreateEncoder`, with the table of
its constructor), takes a literal or an integer per step and is closed, the
decoder rebuilds its table and delivers an item per step. The stream between
them is a sequence (`BitStream` shows that it is delivered). The decoder is told
the kind of the next item, never its length. **`RangeCoder`** is the same coding for
the compressors below: bits as wide as the range for the binary coder, so that
both sides must agree on the range, or one symbol per integer for codes that
ignore it.

**`EscapeMap`** builds the escape tables from restrictions; **`EscapeStream`** is the
input adapter (`OpenInput`, `Uflow` with `pull_escape`), a lossless wire in
between, and the output adapter (`Overflow` with `push_unescape`). The client's
text is chosen character by character.

**`RestrictedBuffer`** keeps the physical memory of the map (`mem`), of which `size`
bytes are valid, because bytes outlive a shrink and come back when the map
grows: `mremap` may keep them or clear them (`mem'` is a choice). One iteration
of the escaping loop and one of the unescaping loop are steps. A file may go on
behind the slice that was asked for (`tail`). A stream is filled byte by byte and
its map doubled. `ChangeRestrictions` may happen whenever the buffer is ready.
Memory maps are external code; of `MMapHandle.hpp` what the constructor copies
and zeroes is modelled.

**`Inputs`** builds on that contract: `inputs` are the `Input::Variant`s derived from
one source (`SliceInput`, `RestrictInput`), `heap` is the `InputAlloc` they share,
a pool of chunks in a small heap where a chunk lives as long as the pool, a
reader or a slice refers to it. `FindOrConstruct` is `find_or_construct` with
`CreateStream` behind it: one root for a stream, read once, converted in place if
`Unique`, and slices that point into it, with bounds translated into the escaped
bytes (`Translated`), rightly or not (section 6). A check that fails ends the run with
an `outcome`: the `CHECK` against copying a stream, and the `DCHECK`s against a stream
or file that is cut at its end and against bounds out of order. The model is that of a
debug build here: the default is a release build with `-DNDEBUG`
(`CMakeLists.txt:10`, `:44`), where such a slice is a view of a size that wrapped, and
the rest of the file is counted. Slices beyond the end of their input are not asked
for. `OpenView` and `OpenStream` differ in one detail of the C++
code: the temporary that `as_stream` moves from still owns its handle, so the
chunk leaves the pool at once. `DropInputs` ends the life of the last input.

### LZ78 and LZW

**`PhraseDict`** is the trie as `LZ78Trie.hpp` documents it, as a sequence of
`[parent, c]`. **`LZ78`** and **`LZW`** are compressor and decompressor over it: an
iteration of the loop of `compress` is a step, `Finish` handles the left-over, the
character of which `LZ78` passes as a plain, signed `char` (`Char`: a literal of the
upper half as a number below 0) where the loop casts it to a literal,
`DecompressFactor` / `DecodeStep` is an iteration on the other side. `LZW` has
both resets, the sentinel `dms` (`DmsMax`, 2^32 - 1 in the code, or the limit), the entry that is completed late (`Current`,
`Fronts`), and `front()` of an empty string as a free choice.

**`LZ78Tries`** models the implementations of that trie: `BinaryTrie`,
`BinarySortedTrie` and `TernaryTrie` as vectors of links with their search loops,
and `HashTrie` as a map from packed keys. `Dictionary` reads the abstract trie
off the links, and the refinement mapping to **`LZ78Dictionary`** compares every
answer, number and *is_new* flag with what `LZ78Trie.hpp` promises. The growth
policy of the vectors is left out.

### lcpcomp

**`TextIndex`** computes suffix array, inverse, Phi, PLCP and LCP. divsufsort is
taken by its contract; `PLCPFromPhi` and `LCPFromPLCP` follow the loops,
including the last PLCP entry, which is never computed. **`LCPQueues`** holds
`ArrayMaxHeap` (percolation up and down, the inverse index) and
`MaxLCPSuffixList` (a list ordered by key with an index to the first item of each
key). **`LZSSFactors`** sorts, flattens, encodes and decodes factor lists.
**`LCPComp`** composes them: it picks a text, builds the index, runs one of nine
strategies one round at a time, encodes, and runs one of the decoders.

| `strategy` | code | step |
|---|---|---|
| `arrays` | `ArraysComp` | `ArraysStep`: one candidate, or the next key |
| `heap`, `max_lcp`, `bheap` | `MaxHeapStrategy`, `MaxLCPStrategy`, `BoostHeap` | `TakeMax`: the maximum, with all corrections behind it |
| `naive` | `NaiveStrategy` | `NaiveStep` |
| `plcppeaks` | `PLCPPeaksStrategy` | `PeaksStep` |
| `plcp` | `PLCPStrategy` | `PeaksSearch`: one pass over the PLCP array that files the peaks; `TakePeak`: the longest of them, with the repairs to the left and to the right |
| `bulldozer` | `BulldozerStrategy` | none: it fills a vector that a local one shadows, and emits no factor |
| `lzss_lcp` | `LZSSLCPCompressor` | `LZSSStep` |

| `decoder` | code | steps |
|---|---|---|
| `scan` | `ScanDec`, `EagerScanDec` | `DecodeItem`, `Scan`, `StartEager`, `EagerFactor` |
| `compact` | `CompactDec` | `DecodeItem` with `Eagerly` |
| `queue` | `DecodeForwardQueueListBuffer` | the same, with a bit per position |
| `multimap` | `MultimapBuffer` | like `scan`, with a bit per position |
| `back` | `DecodeBackBuffer` | `DecodeItem` with `Copied` |

`wild` records the use of the one bucket that `EagerScanDec` allocates and does
not initialise. The pairing heap of Boost is external and modelled by the order
it is given.

### The command line program

**`ByteTransforms`** has run lengths, move to front, the Burrows-Wheeler transform
and LZSS with a sliding window, each as a pair of functions between texts, with
the byte at which each goes wrong: a `char` is signed where the code compares it
with `peek()`, so the largest byte equals the end of the input. Bytes have
`ByteBits` bits.

**`AlgorithmId`** is the way from a text such as `bwt:encode(coder = gamma)` to an
algorithm: the parser (over tokens), declarations with defaults, evaluation of
the parsed text, the table of compiled combinations, the builder, and the
printer that makes the header of a file.

**`Driver`** is the program over both: algorithms register themselves one by one
(`Register`), a user writes a text and starts commands. A command checks its
options and files, selects the algorithm from the option or the header
(`ReadHeader`), writes or skips the header, and runs the stages of a chain one by
one with a buffer between them and the merged restrictions of each in force
(`ExpandChain`, `RunStage`). A run that does not end is the state `hung`; it is reached
by `rle` only (section 6).

### Edit-sensitive parsing

**`EspParsing`** is one round of the parser: metablocks, alphabet reduction,
landmarks, blocks of two or three symbols, the merging of blocks of one symbol
with their neighbours; and the tables that give equal blocks equal names, with
the three maps of `ipd`. **`SlpCoders`** sorts the rules, splits lists into monotone
subsequences (both strategies, with the one array that serves as links, layers
and result), and writes and reads the program with the plain and the sorted
coder and the `d_coding` alternatives of `DRCoder.hpp`. **`Esp`** runs it: `Split`, then
`AdjustMerge` / `AdjustEmit` per block, `NameBlock` per block, `NextRound`, until one
symbol is left; `ChooseCoder`, one step per subsequence, `Write`, `Read`.

### Grammars

**`CodedText`** is what the grammar compressors hand to their coders, a sequence of
values with the ranges they are coded in; a value that is asked for in another
range than its own reads as garbage. **`SuffixTree`** is Ukkonen's construction with
child maps, **`BinarySuffixTree`** the same over preallocated arrays, shown to
implement it. **`LongestFirst`** has the four strategies of `LFSCompressor` (`esa`,
`st`, `bst`, `sim_st`) and the two-layer compressors `lfs2` and `lfs2bst`, with
their dictionaries and decoders. `FirstBins` is the number of bins `st` starts with; it
doubles them once per node, so that a node too deep for that is put behind the last
(`BinsOverrun`, section 6), which depends on the order of the walk (`Preorders`). The
other strategies double until the bins suffice. **`RePair`** has the rounds of pair replacement,
**`LZ78U`** factors over a suffix tree with both output strategies. **`Grammars`**
composes them: a job is a compressor, a text and its options; `GrowTree`,
`Substitution`, `Round` and `Factor` are iterations of the loops of the code, then
`Encode` and `Decode`.

The `MC*` modules define constants and bounds, and three of them put two systems into
one run: `MCStreams` the streams of `EscapeStream` and `BitStream`, `MCPhrases` LZ78 and
LZW, `MCGrammars` the grammars and edit-sensitive parsing. `LCPComp` and `LZ78Tries` need no such
module, `RestrictedBuffer` and `Inputs` carry their few values at their end.
`StreamProofs` (about `EscapeStream` and `BitStream`, whose names say `Bit` where both
have one), `RestrictedBufferProofs`, `InputsProofs`, `LZ78Proofs`, `LZWProofs`,
`LZ78TriesProofs` and `LCPCompProofs` hold the theorems (section 5), and `DataProofs`
what several of them need about the data: the escape tables and the layout of an
escaped text, powers and widths, the coder of `RangeCoder`, texts in parts, and the
phrases of `PhraseDict`.

## 3. Runs

* **`streams`** (`MCStreams`), two systems that share only the channel they
  implement. *Bits*: every payload of up to 9 bits, each continued by up to
  25 ones (`PayloadShape`). How a file ends depends on the number
  of bits in its last byte and on the last two bytes; 9 free bits cover every
  count, every content of the byte that may be confused with a marker and a
  flushed byte before it, and the ones are the worst continuation: bytes that end
  in 111, which imitate the marker of an extra byte, up to five bytes deep.
  Checked: `RoundTrip`, `ExactEof`, the inductive invariant `IInv` of the proofs, and
  `BitChannelSpec`. *Escaping*: texts of up to four characters from {0, a
  plain byte, the escape byte, a replacement byte}, under six restrictions, among
  them two forbidden bytes, a forbidden byte of the pool, and the terminator
  alone. Four characters allow an escape pair, a held-back 0, another 0 and the
  terminator in any order. Checked: nothing forbidden reaches the compressor and
  what does is the escaped text (`Restricted`), the output side ends clean
  (`CleanEnd`, the `DCHECK` of `~RestrictedOStreamBuf`), `ChannelSpec`.
* **`buffer`** (`RestrictedBuffer`). Texts of up to three bytes from views, files
  with or without a tail, and streams with a page of two bytes, so that the map
  grows during loading; any sequence of conversions between four restrictions.
  Checked: neither direction destroys what it has yet to read or leaves the data
  (`ConversionInPlace`), the view is right after every history (`ViewRestricted`),
  every conversion ends (`ConversionEnds`).
* **`inputs`** (`Inputs`). Up to three inputs, that is every chain and every pair of
  slices and restrictions of a source, two readers open at a time, and sizes, in
  every order, over three texts with something to escape at every place. Two
  readers suffice for sharing, refusal, and a chunk that was closed by one
  reader and reopened while the other still holds the old one; they are
  symmetric. Checked: `ReadersRight`, an open reader always shows the restricted
  form of its slice, and remembered sizes are right; `RefusedOnlyWhenInUse`, the
  `CHECK` against copying a stream only fires when an open reader needs the text
  as it is. The texts hold the escape byte, so slices whose bounds the code translates
  wrongly are opened too, sized and shared; `ReadersRight` asks nothing of their own
  bytes (`Translatable`, section 6), but of every other reader beside them. A
  slice without an end is understood as one to the end of the source, as the code does.
* **`coders`** (`MCCoders`). All integer codes with pairs of 4-bit integers, block
  widths 1 and 3 (several blocks, zero blocks in the middle) and ranges that
  start above 0, hold one value, or need more than five bits; literals of texts
  of up to six symbols with integers between them through Huffman, arithmetic
  and k-mer coder, texts with up to 65 different literals that reach every class
  of ranks, and one with Fibonacci frequencies for a deep tree. Checked: the
  decoder meets the end with the last item (`EofExact`), `HuffmanOptimal`,
  `ChannelSpec`. The arithmetic coder gets texts it counts right (section 6).
* **`lz78_lzw`** (`MCPhrases`). All binary texts of up to 11 characters through LZ78
  with the binary coder: the factor count passes 1, 2 and 4, where the width of a
  code grows, and texts end at every depth of a phrase; the same with a coder that
  ignores ranges, where a left-over of the upper half stands on the wire as a number
  below 0. Up to 10 characters
  through LZW in two setups: the binary coder without a limit, and a universal
  coder with a dictionary of four entries over an alphabet of two, so that both
  sides reset every other factor. Checked: `DictsAgree` (no phrase twice, the
  phrases make up the text, the decoder's dictionary is the encoder's, with the
  lag of one entry in LZW, and meets no invalid code), `ChannelSpec`.
* **`tries`** (`LZ78Tries`). Four implementations, three characters, up to five nodes:
  three siblings below one node come in all orders, so that a node is put in
  front, in the middle and behind, and a second level exists; resets at any time.
  Checked: `LookupSpec` (refinement of `LZ78Dictionary`; only the hash trie's `clear`
  is excused, which does nothing), `NodesReachableOnce` with the order of siblings.
* **`lcpcomp`** (`LCPComp`). All texts of up to eight symbols over {1, 2} and the
  final 0, and of up to ten for `plcp`, whose repairs of overlapped peaks need
  them (`ShortTexts`); thresholds 1 and 2, nine strategies, with and without flattening, all
  decoders, up to two lazy scans. Eight symbols hold overlapping repetitions
  (`1212121`), a factor that refers to itself, forward references and chains of
  two. Checked: `FactorsSound` (disjoint, long enough, equal to their source,
  ordered so that references form no circle), `CandidatesExact` (after every round
  the queues hold what is left of each match), `GreedyChoice` (three strategies
  take the longest match left), `NoWildSlot`, and `Restored` (every position is
  known and right in the end).
* **`driver`** (`MCDriver`). Sessions of two commands over eight algorithms with four
  byte values: a text is compressed with any of some twenty ids, among them
  chains of up to three, nested chains, options by position and by name, and ids
  that fail at each stage; then any command follows. Texts of up to two bytes and
  longer ones with runs and repeats. Checked: `RoundTrip`, whatever selects the
  algorithm; `FailedKeepsFiles`; `RegistryAgrees` (printing and parsing, listing,
  building). Windows are powers of two, and texts with 0 or 255 are excepted where
  `bwt` runs (section 6).
* **`grammars`** (`MCGrammars`). All texts of up to six symbols over two letters and
  five longer ones with repeats in repeats, for every compressor, `lfs2` with
  exact and inexact counts and minimal lengths 1 and 2, `lz78u` with thresholds 1
  to 3. Checked: `TreeSound` (suffixes, branching and suffix links after every
  symbol), `BinaryImplements`, `NodesInArrays`, `SymbolsSound`, `LongestRepeatFirst`,
  `NodesNameFactors`, `CodesFit`, `ReadsBack`. `LongestRepeatFirst` leaves out `esa`
  (section 6). With two bins to start with (`FirstBins`, 200 in the code) the bins of
  `st` grow on most texts, twice on some, and one text is deep enough to write behind
  them in one order of the walk and not in another. Re-Pair is not run on the empty
  text (section 6).
  The other half of the run is edit-sensitive parsing: all texts of up to ten
  symbols over two letters and up to six over three, and up to 64 different
  symbols in three orders, so that rounds have alphabets of 2 to 64 and alphabet
  reduction and landmarks of both kinds occur; all three `ipd` maps; all coders on
  a smaller set. Checked: `BlocksSound`, `RoundsDerive`, `SubsequencesLongest`,
  `TextBack`. Deadlock is checked for both halves.
* **`lzw_reset_binary`**, **`heap_overlap`** and **`slices`** expect a violation: section
  6. `slices` is `inputs` with the property `EverySliceRight`; `heap_overlap` is `LCPComp` with the one text `HeapTexts`, 40 letters on which the order of
  the heap is broken; the texts of `lcpcomp` are too short for that.

Each passing run takes between a few seconds and three minutes on two cores.

## 4. Fairness, deadlock and mutants

The code is sequential, so fairness only says that a call that was started runs
on. The writing side of a channel is never fair: nobody has to write or to close.
`BitStream`, `Coders`, `LZ78` and `LZW` assume weak fairness of the reader
(decompressors loop until `eof()`), `EscapeStream` of both adapters (a compressor
reads its input to the end), `RestrictedBuffer` of the steps inside an operation,
not of `ChangeRestrictions`. In `LCPComp` every step is one of a terminating program;
its `Progress` is weak fairness of `Next` written out for a specification in which
only finished states cannot take a step: TLC checks that by checking deadlock,
with `Done` as the step of a finished state. `Esp` is checked for deadlock in the
same way. `Driver`, `Grammars`, `LZ78Tries`, `Inputs` and `Esp` assume no fairness:
what is asked of them is safety, a run that does not end being a state of its own.

The other configurations say `CHECK_DEADLOCK FALSE` because their systems stop:
a writer that has reached its bound, a reader at the end, a trie that is full, a
program that has failed a check. The bounds (`MaxBits`, `MaxLen`, `MaxSize`, `MemSize`,
`Scans`, `MaxCommands`, `MaxInputs`) are in the guards of the actions that would
exceed them.

For each property of a passing run `PROJECT.json` names a mutant: a definition of
the model and a variant with a plausible bug (a flush one bit late, an entry that
is not shortened, a sibling that forgets its successor), under which TLC finds
the property violated. The variants stand beside the originals, marked `Mutant`.

## 5. Proofs

| module | theorem | statement |
|---|---|---|
| `StreamProofs`, bits | `InductiveInvariant` | `BitSafeSpec => []IInv` |
| | `TypeCorrect` | `BitSpec => []BitTypeOK` |
| | `RoundTripHolds` | `BitSpec => []RoundTrip` |
| | `ExactEofHolds` | `BitSpec => []ExactEof` |
| | `FileSizeHolds` | `BitSpec => []FileSize` |
| | `BitsImplementChannel` | `BitSpec => BitChannel!SafeSpec` |
| `DataProofs` | `EscapeTables` | replacements are neither forbidden nor 0, and are read back |
| `StreamProofs`, adapters | `StreamInvariant` | `SafeSpec => []StreamInv` |
| | `RestrictedHolds` | `SafeSpec => []Restricted` |
| | `CleanEndHolds` | `SafeSpec => []CleanEnd` |
| | `ImplementsChannel` | `SafeSpec => Channel!SafeSpec` |
| `RestrictedBufferProofs` | `BufferInvariant` | `SafeSpec => []BufferInv` |
| | `ConversionStaysInPlace` | `SafeSpec => []ConversionInPlace` |
| | `ViewIsRestricted` | `SafeSpec => []ViewRestricted` |
| `InputsProofs` | `InputsInvariant` | `Spec => []InputsInv` |
| | `ReadersRightHolds` | `Spec => []ReadersRight` |
| | `RefusedOnlyWhenInUseHolds` | `Spec => []RefusedOnlyWhenInUse` |
| `LZ78Proofs` | `LZ78Invariant` | `SafeSpec => []LZ78Inv` |
| | `DictsAgreeHolds` | `SafeSpec => []DictsAgree` |
| | `LZ78Lossless` | `SafeSpec => Channel!SafeSpec` |
| | `LZ78Complete` | `SafeSpec => []ReadToTheEnd` |
| `LZWProofs` | `LZWInvariant` | `SafeSpec => []LZWInv` |
| | `DecoderKeepsUpHolds` | `SafeSpec => []DecoderKeepsUp` |
| | `LZWLossless` | `SafeSpec => Channel!SafeSpec` |
| | `RoundTripHolds` | `SafeSpec => []RoundTrip` |
| | `LZWComplete` | `SafeSpec => []ReadToTheEnd` |
| | `MCDictsAgree` | `MCSpec => []DictsAgree`, both compressors |
| | `MCLossless` | `MCSpec => Channel!SafeSpec`, both compressors |
| `LZ78TriesProofs` | `TriesReachNodesOnce` | `RootsApart` and `Spec => []NodesReachableOnce` |
| | `PointerTriesAreDictionaries` | `Spec => D!Spec`, without the hash trie |
| | `HashTrieIsDictionary` | `RootsApart` and `Spec => LookupSpec`, with it |
| `LCPCompProofs` | `SuffixArrayIs` | suffix array and inverse order the suffixes of every text |
| | `PLCPIs` | `PLCPFromPhi` finds every match of a suffix with its predecessor |
| | `FlattenedIs` | flattening keeps factors sound, and where they are |
| | `FactorsSoundHolds` | `Spec => []FactorsSound`, every strategy |
| | `CandidatesExactHolds` | `Spec => []CandidatesExact` |
| | `GreedyChoiceHolds` | `Spec => GreedyChoice` |

A theorem about `SafeSpec` holds of `Spec`, which only adds fairness.

**Assumptions.** `BitStream`: `Bits \subseteq {0, 1}` and `MaxBits \in Nat`.
`EscapeMap`: the pool is a sequence of distinct positive bytes, as
`ESCAPE_BYTE_POOL` is. `EscapeStream`: bytes are natural numbers, and the pool
suffices for every restriction, which is the `DCHECK` of `EscapeMap`.
`RestrictedBuffer`: in addition a byte 0, a page of at least one byte, memory for
twice the text and the terminator and for two pages, and no restriction by a
terminator alone, for which the statement is false (section 6). The length of
texts and files, the page, the pool and the restrictions are arbitrary. `Inputs`:
texts of natural numbers, a pool that suffices for every union of the
restrictions that may be asked for, none of which is a terminator alone; the
numbers of readers and of inputs are arbitrary. `LZ78`: `Sizes`, an alphabet of at
least one letter, no limit of the dictionary (the default; with one the code
stops in `DCHECK(false)`, section 6), and, for the binary coder, an alphabet that is a
power of two, as bytes are, and alphabet and text within 2^64, the range of `bits_for`.
The other kind of coder restores a left-over below 0 as well: ASCII writes a literal
as one byte (`ASCIICoder.hpp:42-43`), and gamma and delta write 64 bits, the length
`bits_for` gives it, of which the reader, whose literal is a byte, keeps the last
eight: what the shift of a `char` in `BitOStream.hpp:98-102` makes of the bits above
is not relied upon. These are the coders registered for LZ78
(`etc/registry_config.py:13-18`, `:233`). `LZW`: `Sizes` too, for every set of options
the run may choose from. Without a limit, literals and text together are fewer
than `DmsMax`, the sentinel; with one, it is above the number of roots, below which
it names a root; and with the binary coder, limit and number of roots have as
many bits. The run `lzw_reset_binary` has options without this last condition, and
`RoundTrip` fails there: the decoder restarts its count a factor later than the
encoder, and asks for a code of another width (section 6). `RoundTripHolds` says
that nothing else is wrong. A text of 2^32 factors is outside the theorems, as
the numbers of its nodes do not fit into `factorid_t`. `DataProofs` brings the assumption
on the pool along to every module that extends it; the theorems about LZ78 and LZW
use nothing of it.

`LCPComp`: symbols are positive numbers, thresholds are positive (with 0 the loop of
`ArraysComp` wraps, section 6), and texts are sequences of symbols; which symbols,
texts, thresholds, strategies and decoders a run may choose is arbitrary.

**Bits.** `RoundTrip` and `ExactEof` are not inductive: they say nothing of where the
bits are. `IInv` adds it. While the writer is open (`WriterInv`), bit `c` of byte `r`
of the file is payload bit `8r - c`, the bits above the cursor of the byte being
filled are the next ones, and the rest of that byte is 0 (without the last part,
or-ing the count into it could not be undone). Once it is closed (`FileInv`), the
count in the last byte, at most 5 or more, says how many bytes hold payload and
how many bits. The reader (`ReaderInv`) consumes a byte `Row` of those; it knows
that it is at the end exactly when `Row` is the last of them, and until then the
byte it holds in advance is the next of the file. There is a lemma per action;
`CloseWriterIInv`, `ReadNextFacts` with `ReaderAfterReadNext`, and `ReadBitIInv` carry
the weight. The arithmetic of positions is in lemmas without state
(`PayloadAppend`, `PartialGrows`, `PayloadMarker`).

**Escape tables.** `m_replacement_bytes[k]` is the pool's k-th byte that is not
forbidden. `DataProofs` counts: lemmas on ranks in finite sets of numbers
(`RankGrows`, `RankInjective`, `RankTaken`) give that the replacements exist and
differ, hence `EscapeTables`. `Offset(r, text, i)`, the number of bytes in front of
the i-th character, is a cardinality rather than a recursion, so that it can be
reasoned about: `OffsetNext` (one byte or two further), `OffsetGrows`,
`OffsetOrder` (pairs do not overlap), and `LayoutKept`, `LayoutExtends` for writing
beside or behind what is laid out.

**Streams.** `Restricted` does not say how the look-ahead stands to the text. In
`StreamInv`, `Pull` is all the adapter has pulled: the wire and its two buffers.
`InputInv` says that `Pull` is the layout of the text read so far, and how far the
hand-out is behind it (by two, one or no bytes, depending on the buffers) and
when the terminator is in them. `OutputInv` says how many characters the other
adapter has taken from the wire: as many as it wrote, or one more, a 0 held back
(`Taken`), or all and the terminator (`AllTaken`), plus half of a pair if it saw the
escape byte. `CleanEnd` follows from both at the end of the wire.

**Buffers.** `BufferInv` has one conjunct per phase. While a text is escaped, its end
is already laid out and its beginning unread, and the write pointer is where the
layout of the next character ends (`EscapeInv`): this is why the loop never writes
over what it has not read. While it is unescaped, a prefix of the text is in
place and the read pointer is at the pair or byte of the next character
(`UnescapeInv`), so it cannot straddle the end. `EscapeStepGood` and
`UnescapeStepGood` are the two long lemmas; loading, growing and changing the
restrictions have one each.

**Inputs.** `ReadersRight` is not inductive: a chunk that no reader looks at may be
found again, and a slice shows bytes of a buffer that belongs to another chunk.
`InputsInv` therefore speaks of every live chunk (`ChunkInv`): it shows its slice
of the text as its owner's buffer restricts it. `OneRoot` says that all chunks of
a stream belong to one root, which is in the pool; with it, a root that `Unique`
allows to be converted has no slices whose view could change. `ReaderInv` ties
readers to their chunks, and `HeldInv` keeps slices alive only under readers, which
is what `RefusedOnlyWhenInUse` needs: a root that is not unique is needed by a
reader. `SliceRestricted` and `TranslatedRight` are the lemmas about data: the bytes
between two translated bounds are the restricted form of the slice
(`OffsetShift`, `CountedCharacters`), for the bounds that are `Translatable`; of others
`ChunkInv` only says that they are in order and inside the root (`TranslatedBound`,
`SliceBounds`), so that a slice at the wrong place disturbs no other chunk. A size that
such a slice remembers is exempt in the same way.

**LZ78.** `LZ78Inv` says that there are boundaries `b` of phrases in the text and
boundaries `at` of words on the wire (`Parsed`, `Coded`) such that each phrase is a
former one and a character, what the phrases do not reach is the phrase of the
current node (`TextInv`), the words between the boundaries on the wire are the
codes of the factors, each for the range of its time, and the decompressor
stands at the boundary of the factor it will read and has written the text up to
the same one (`ReadInv`). The existence of the boundaries replaces a recursion over
the text. A phrase is inserted only where the trie has no child, so no entry
comes twice, hence no phrase (`PhrasesDistinct`). `ReadBack` is the coder: bits as
wide as the range are read back if both sides use the same range and it fits
into 64 bits. The functions of the model that are recursive are met with their
solutions: the equation of `Walk`, `Cat` or `Phrases` has one (`SpellingUnique`,
`ExpandIs`, `PhrasesAre`, `JoinIs`), because two would differ at a least argument
(`LeastNumber`, from the well-foundedness of the natural numbers), and there they
do not. This takes the place of induction, whose theorems in the library need a
prover that is not used here. The existence half is `2 ^ n` (`PowerNext`), which is
the number of subsets of a set of `n` elements.

**LZW.** `LZWInv` has the same boundaries and a sequence `ks` of nodes: the `i`-th factor
codes `ks[i]`, ends at `b[i]` in the text and at `at[i]` on the wire. The dictionary is
not stored in it. After `m` factors it is a `Window` of the last `Age(limit, m)` of
them, `m` itself without a limit and `m` modulo what fits below the limit
otherwise; an entry is the node of a factor with the first character of the next
one. This is what makes resets and the lag of the decoder expressible: the
encoder stands at `m` (`EncInv`), the decoder at `r` with the window of `r - 2` and one
more entry (`DecInv`), and both windows are cut from the same factors. A code the
decoder does not know yet is the entry it is about to complete; its first
character is that of the previous factor, because the phrase of an entry begins
with the phrase of its parent (`FactorCompletes`). `Current` empties the decoder's
dictionary when the window of `r - 1` is empty (`CurrentIs`), a factor after the
encoder did; the range it uses is then one that the encoder did not use, with the
same width by `Sizes` (`SameWidth`). `InvFirst`, `InvDescend`, `InvInsert`, `InvFinish` and
`InvDecode` are the steps. `MCDictsAgree` and `MCLossless` put both invariants side by
side for the specification that is checked.

**Tries.** `NodesReachableOnce` is about what the searches find, and says nothing of
the links between. `TrieInv` gives a linked trie, beside its links, the parent `up`
of every node and for every slot (a link of a node) the set `W` of letters whose
search comes by it: all of them at `first`, and behind a sibling those the search
goes that way for (`LettersOK`). `Shape` says that a slot is `Undef` exactly when no
child of its owner has a letter in its set, and points to such a child otherwise
(`SlotOK`), and that a letter has one end below a node (`OneEnd`). With it a search
ends, at the child or at the slot where a new one belongs (`SearchEnds`; a measure is
the number of children still in front of it), and an insertion into that slot
keeps the shape whether it goes to the front, between two siblings or behind
(`GrowKeepsShape`). `BelowIsKids` turns the sets into the order of siblings. For the hash
trie the invariant is a bijection of keys and nodes (`HashShape`). `StandsFor` reads the
dictionary off either, and `StepLinked` and `StepHashed` compare the answers. The pointer tries
need no assumption but those of the module, and `PointerTriesAreDictionaries` says of
them all that `LZ78Trie.hpp` promises, `clear` included. The hash trie keeps less:
`HashTrieIsDictionary` assumes `RootsApart`, that with the hash trie no letter is the
number of a root, and excuses `clear`. Neither can be left out: a root is stored under
the key of an edge from node 0, and is found there, and `clear` erases nothing
(section 6). For LZ78, with one root, `RootsApart` forbids the character 0; for LZW,
with 256 roots, every byte, although only node 0 is affected, so that nothing is
proved of LZW with the hash trie.

**lcpcomp.** The proofs start at the arrays. Suffixes are totally ordered, because no
two of them agree to the end of a text that ends with its only 0 (`MatchExists`,
`LessTotal`, `LessTransitive`), and a rank is the number of smaller ones (`Numbered`).
`PLCPFromPhi` begins the search for each match one before the end of the last:
`MatchesShrinkByOne` is the fact it rests on, and in `PLCPIs` the invariant of its
loop. A factor refers to a smaller suffix, or, in `lzss_lcp`, to an earlier position;
for `lzss_lcp` that needs the two searches for the nearest smaller ranks
(`NearNext`, `UpwardsIs`, `DownIs`). `FlattenedIs` follows the chains: each link
goes to a smaller suffix, so they end (`DescentEnds`).

`FactorsSound` is not inductive, as it says nothing of what is still to be taken. `Inv`
has a part for each way of searching. `CursorGood`: the strategies that go through
the text have no factor behind their cursor. `QueueExact`: what is in the list or
the binary heap is what is *left* of each match (`Remaining`), no more and no less.
The corrections after a factor look one factor length back; that is enough
because the factor was a longest one, so that nothing further in front reaches
it, and what reached it ends where it begins (`CorrectIs`, `LeftAfter`,
`RestAfter`). The same facts serve `ArraysComp`, which leaves entries where they were
filed until their turn (`ArraysExact`: an entry waits where its key files it, or
above). `GreedyChoice` is read off these two. `PeaksGood`: the peaks that are alive
start in the order of the text, none ends before the one in front of it, and they
keep off the factors, so `TakePeak` need only repair its neighbours (`RightIs`,
`LeftIsFine`). `HeapGood` only says that the heap holds candidates without
repetition: its order is not an invariant (section 6), and percolation is shown to
permute (`ClimbsAre`, `FallsAre`), removal to remove one item (`HeapRemoved`). So
soundness of factors is proved of `heap` too, disjointness of all but `heap`, which is
where the run `heap_overlap` finds it violated. `CandidatesExact` includes the types of
the compressor's variables; those of the decoders (`BuffersOK`) are part of
`NoWildSlot`, which TLC checks.

Model-checked only: the liveness half of `ChannelSpec`, `ConversionEnds` and
`Restored` (fairness and `ENABLED` are beyond the prover), `NoWildSlot` of the lcpcomp
decoders, and the modules without a row above, because what they compute (suffix
trees, grammars, locally consistent parsings, codes of a Huffman tree) would need a
theory of its own for each.

## 6. Disagreements found

Three are runs that must be violated, with their `findings` entries:

* **`lzw_reset_binary`.** The decoder resets its dictionary and its range counter one
  factor after the encoder. With the default binary coder the widths differ at
  that factor as soon as `dict_size` needs more bits than the alphabet
  (`RoundTrip`). With a coder that ignores ranges the same reset is lossless: that
  is the second setup of `lz78_lzw`.
* **`heap_overlap`.** `ArrayMaxHeap::remove` moves the last item into the gap and only
  downwards; in another subtree it may have to go up, so that the first item need
  not be the largest. `MaxHeapStrategy` looks for entries to shorten only one length
  of the new factor in front of it, which is enough if no longer entry is left. The
  two together leave an entry that reaches into a factor and is emitted later:
  the factors at 5 with length 14 and at 26 with length 6 are followed by one at
  19 with length 8 (`FactorsDisjoint`). The encoder asserts the opposite
  (`LZSSCoding.hpp:66`). The other strategies keep `FactorsDisjoint`, which is a part
  of `FactorsSound`; on the short texts of `lcpcomp` the order of the heap never
  breaks.

* **`slices`.** The bounds of a slice of a stream are found in the escaped buffer by
  counting bytes that are not the escape byte (`InputAlloc.hpp:236-257`): an escape
  byte of the text, a pair without any other byte, is not counted, and a bound at the
  end of a text without a terminator is not found and stays 0. The slice is opened and
  shows other bytes than those between its bounds (`EverySliceRight`,
  `Input.hpp:241`). Views and files are cut first and escaped then, and the driver only
  slices off its header, so streams are concerned whose text has the escape byte, 255
  by default, before a bound.

The others were met while modelling. The models contain the behaviour, and the
inputs of the runs, or a guard with a comment, keep them out of the properties'
way; where a hazard names them, it says so.

* Inputs. A slice without an end of a bounded slice reaches to
  the end of the source (`InputSize.hpp:65`), although it is to be relative to the
  current size (`Input.hpp:103`). A view that outlives the last input fails in its
  destructor (`InputAlloc.hpp:354`).
* Buffers. A restriction by a terminator alone has no escape byte; `unrestrict`
  takes 255 for it and drops those bytes. No registered algorithm asks for such a
  restriction, the tests do. The constructor of a file map copies to the end of
  the file, not of the map (`MMapHandle.hpp:159`).
* Coders. `ArithmeticCoder` leaves out the largest byte and miscounts texts in which
  0 is rarer than every other literal; 256 equally frequent literals wrap the
  count of codewords of one length in the Huffman table (`HuffmanCoder.hpp:184`).
* LZ78. The left-over is passed as a plain `char` (`LZ78Compressor.hpp:126`), without
  the cast of line 102: a byte above 127 is coded as a number below 0. The coders
  registered for LZ78 give back its low bits; the ternary coder, which is not, would
  lose it. The reset at `dict_size` stops with `DCHECK(false)`, "broken right now".
  `HashTrie::add_rootnode` stores a root under the key of the edge from node 0 with
  its character, so that with the character 0 in the text `find_or_insert(root, 0)`
  finds the root itself (the theorems assume `RootsApart`); its `clear` erases nothing. LZW's `dict_size` is also the
  sentinel of `rebuild_string`, and a valid root when it is below 256.
* lcpcomp. `PLCPStrategy` asks for `i + 1 == n` in a loop that ends before, so
  peaks at the end of the text are not replaced. With threshold 0 the loop of
  `ArraysComp` counts an unsigned number below 0.
* Byte transformations and the driver. `rle` does not end on a text that ends with
  two bytes 255; `bwt` does not restore texts with the byte 255; a window of sliding
  LZSS that is no power of two codes lengths with too few bits; headers of more
  than 1023 characters are not read.
* Edit-sensitive parsing. The `CHECK` of `DRCoder.hpp:397` ends the program for the
  `range_fit` coder on texts as short as the bytes 1, 2.
* Grammars. The `esa` strategy misses longest repeats that overlap themselves
  (`aaaa`); Re-Pair subtracts 1 from the length of an empty input. `STStrategy`
  doubles its bins once per node, from 200 (`STStrategy.hpp:57-61`): a node of string
  depth 400 or more, met while there are 200, is put behind the last bin.

## 7. What is not modelled

Formatting, logging, allocation and growth policies; third-party code
(divsufsort, cedar, sdsl, Judy, Boost) beyond what its callers rely on; input that
no encoder produced. File errors end the program; the driver models those it
checks for, other modules leave them out. Parts with status `not_modelled` or
`partly`, with their reasons:

* `TextDS` decides by template flags at compile time which arrays are built,
  shared, compressed, taken over in place or discarded. The arrays are modelled
  by `TextIndex`; which of them exist at run time is not.
* `SparseISA`, `CompressedLCP` and `LCPSada` are other representations of arrays that
  `TextIndex` computes. `IntVector` and the hash tables are containers without
  control of their own; the widths their callers choose are modelled with the
  callers.
* The rolling tries answer by a fingerprint and are right only with high
  probability, which is not a matter of model checking; `cedar.hpp` and Judy are
  third-party.
* Memory maps: handles, protection modes and error paths. Outputs: a path or a
  vector and the adapter of `EscapeStream`. The streams of views and files share
  nothing with other readers, so `Inputs` leaves them out.
* `ModifiedRunLengthEncoder.hpp` does not compile at this commit: `compress` declares
  `mapping` inside a lambda that captures nothing (lines 90-92) and uses it outside
  (line 131).
* Statistics phases have no influence on what is compressed; generators are pure
  functions that print texts.

In the hazard list, those without properties say why.

## 8. Plan

Done, the most used first: bit streams with their proof, codes, the escaping
adapters and buffers with theirs, inputs, LZ78 and LZW with their tries, lcpcomp
with queues, factors and decoders, the byte transformations with registry,
driver and chains, edit-sensitive parsing, the grammar compressors, and the
statistical coders.

What would come next:

1. `TextLifecycle`: `TextDS` with an abstract specification "what is required is
   there, and is what its name says".
2. Theorems: the decoders of `LCPComp`, that what a buffer holds is the text, with
   `SoundRefs` of the factors they are sent; the round trip of the codes in
   `IntegerCodes`.
3. Larger alphabets in `grammars`, where rounds with mixed metablocks grow
   with the length of the text.
