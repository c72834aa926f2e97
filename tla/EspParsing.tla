----------------------------- MODULE EspParsing -----------------------------
(***************************************************************************)
(* One round of edit-sensitive parsing (compressors/esp/): how the string  *)
(* of the round is cut into metablocks (RoundContextImpl.hpp) and these    *)
(* into blocks of at most three symbols (meta_blocks.hpp, landmarks.hpp),  *)
(* and how blocks of one symbol are merged with their neighbours           *)
(* (BlockAdjust.hpp).  A block is its length and the type of the metablock *)
(* that made it: 1 repeats one symbol, 2 does not repeat, 3 is the start   *)
(* of a metablock of type 2, for which no landmarks can be computed.       *)
(***************************************************************************)
EXTENDS Integers, Sequences, SequencesExt

Block(len, type) == [len |-> len, type |-> type]
TotalLen(blocks) == FoldLeft(LAMBDA n, b : n + b.len, 0, blocks)
-----------------------------------------------------------------------------
(* Metablocks *)

\* split_where: where the metablock that starts behind i symbols ends.
SplitWhere(s, stops, max) == IF stops = {} THEN Len(s) ELSE Min(stops) + max
NonRepeatingEnd(s, i) == SplitWhere(s, {j \in i .. Len(s) - 2 : s[j + 1] = s[j + 2]}, 0)
RepeatingEnd(s, i) == SplitWhere(s, {j \in i .. Len(s) - 2 : s[j + 1] # s[j + 2]}, 1)

\* eager_mb13: blocks of three; of the last four two each.
EagerMB13(size, type) ==
  LET B[n \in 0 .. size] ==
        IF n = 0 THEN <<>>
        ELSE IF n = 4 THEN <<Block(2, type), Block(2, type)>>
        ELSE IF n < 4 THEN <<Block(n, type)>>
        ELSE <<Block(3, type)>> \o B[n - 3]
  IN  B[size]
-----------------------------------------------------------------------------
(* Alphabet reduction *)

\* iter_log: how often label must be applied until there are at most 6 symbols.
IterLog(n) ==
  IF n < 7 THEN 0 ELSE IF n < 9 THEN 1 ELSE IF n < 17 THEN 2 ELSE IF n < 257 THEN 3 ELSE 4

\* label: the lowest bit in which two numbers (of at most 16 bits) differ, and
\* that bit of the second one.
Label(left, right) ==
  LET Bit(v, b) == (v \div 2 ^ b) % 2
      l == Min({b \in 0 .. 15 : Bit(left, b) # Bit(right, b)})
  IN  2 * l + Bit(right, l)

\* eager_mb2, first loop: every pass makes the buffer one symbol shorter.
ReducedToSix(s, passes) ==
  LET Buf[k \in 0 .. passes] ==
        IF k = 0 THEN s
        ELSE LET prev == Buf[k - 1]
             IN  [i \in 1 .. Len(prev) - 1 |-> Label(prev[i], prev[i + 1])]
  IN  Buf[passes]

\* do_for_neighbors
Neighbors(buf, i) == {buf[j] : j \in {i - 1, i + 1} \cap DOMAIN buf}

\* eager_mb2, second loop: from left to right, for the symbols 3, 4 and 5 in turn.
ReducedToThree(buf) ==
  LET Replaced(b, i, symbol) ==
        IF b[i] = symbol THEN [b EXCEPT ![i] = Min((0 .. 2) \ Neighbors(b, i))] ELSE b
      Pass(b, symbol) ==
        FoldLeft(LAMBDA c, i : Replaced(c, i, symbol), b, [i \in DOMAIN buf |-> i])
  IN  FoldLeft(Pass, buf, <<3, 4, 5>>)
-----------------------------------------------------------------------------
(* Landmarks *)

\* The symbols that no neighbour exceeds, and then from left to right those that
\* exceed no neighbour and have no landmark beside them.
Landmarks(buf) ==
  LET high == {i \in DOMAIN buf : \A n \in Neighbors(buf, i) : n <= buf[i]}
      IsLow(marked, i) ==
        /\ \A n \in Neighbors(buf, i) : n >= buf[i]
        /\ {i - 1, i + 1} \cap marked = {}
  IN  FoldLeft(LAMBDA marked, i : IF IsLow(marked, i) THEN marked \cup {i} ELSE marked,
               high, [i \in DOMAIN buf |-> i])

\* landmark_spanner: a block is a landmark with its neighbours; a neighbour of two
\* landmarks belongs to the right one (tie).
LandmarkSpanner(size, marked) ==
  LET marks == SelectSeq([i \in 1 .. size |-> i], LAMBDA i : i \in marked)
      Left(k) == IF marks[k] = 1 THEN 1 ELSE marks[k] - 1
      Right(k) == IF marks[k] = size THEN size ELSE marks[k] + 1
      Tied(k) == k < Len(marks) /\ Left(k + 1) = Right(k)
  IN  [k \in DOMAIN marks |->
         Block((IF Tied(k) THEN Right(k) - 1 ELSE Right(k)) - Left(k) + 1, 2)]

\* What is left of a metablock s of type 2 for the landmarks.
ReducedBuffer(s, alphabet) == ReducedToThree(ReducedToSix(s, IterLog(alphabet)))

\* eager_mb2
EagerMB2(s, alphabet) ==
  LET prefix == Min({IterLog(alphabet), Len(s)})
  IN  EagerMB13(prefix, 3)
      \o (IF prefix = Len(s) THEN <<>>
          ELSE LandmarkSpanner(Len(s) - prefix, Landmarks(ReducedBuffer(s, alphabet))))

\* split: metablocks of type 2 and of type 1 in turn.
SplitBlocks(s, alphabet) ==
  LET From[i \in 0 .. Len(s)] ==
        IF i = Len(s) THEN <<>>
        ELSE LET j == NonRepeatingEnd(s, i)
             IN  IF j # i
                 THEN EagerMB2(SubSeq(s, i + 1, j), alphabet) \o From[j]
                 ELSE LET k == RepeatingEnd(s, i)
                      IN  EagerMB13(k - i, 1) \o From[k]
  IN  From[0]
-----------------------------------------------------------------------------
(* Merging blocks of one symbol: up to three blocks are looked at.         *)

NeedsMerge(a, b) == a.len = 1 \/ b.len = 1

\* merge: together they have two to four symbols.
Merge(a, b, type) ==
  IF a.len + b.len = 4 THEN <<Block(2, type), Block(2, type)>>
  ELSE <<Block(a.len + b.len, type)>>

\* Mutant: the start of a metablock of type 2 is not merged with what follows it.
MergeTypeOfTwo(a, b) ==
  IF ~NeedsMerge(a, b) THEN 0
  ELSE IF a.type = 2 /\ b.type = 2 THEN 2
  ELSE IF a.type = 1 \/ b.type = 1 THEN 1
  ELSE 0

\* The type a merged pair gets, 0 when the pair is not to be merged.
MergeType(a, b) ==
  IF ~NeedsMerge(a, b) THEN 0
  ELSE IF a.type = 2 /\ b.type = 2 THEN 2
  ELSE IF a.type = 3 THEN 3
  ELSE IF a.type = 1 \/ b.type = 1 THEN 1
  ELSE 0

\* The last two of three blocks are merged first, when both have type 2.
MergesTail(q) == Len(q) = 3 /\ NeedsMerge(q[2], q[3]) /\ q[2].type = 2 /\ q[3].type = 2
MergesHead(q) == Len(q) >= 2 /\ MergeType(q[1], q[2]) # 0

\* adjust_blocks, what its function does to the queue when it returns true.
Merged(q) ==
  IF MergesTail(q) THEN <<q[1]>> \o Merge(q[2], q[3], 2)
  ELSE Merge(q[1], q[2], MergeType(q[1], q[2])) \o SubSeq(q, 3, Len(q))
HasSingle(q) == \E i \in DOMAIN q : q[i].len = 1
Merges(q) == HasSingle(q) /\ (MergesTail(q) \/ MergesHead(q))

\* "should not be reached": the function returns true without a change.
Stuck(q) == HasSingle(q) /\ ~Merges(q) /\ q[1].len = 1
-----------------------------------------------------------------------------
(***************************************************************************)
(* The rules of one round of edit-sensitive parsing                        *)
(* (compressors/esp/GrammarRules.hpp): every pair of symbols gets a number *)
(* when it is first seen, and a block of three symbols is a pair whose     *)
(* left symbol is the number of another pair.  The pairs are kept in an    *)
(* IPD map: std_unordered_map and hash_map are maps of 64 bit integers,    *)
(* dynamic_size starts with 8 bits and moves to a wider map when a key or  *)
(* a value needs more (DynamicSizeIPD.hpp).  A hash map marks its free     *)
(* buckets with the key of ones, which therefore cannot be stored in it.   *)
(***************************************************************************)

IpdKinds == {"std_unordered_map", "hash_map", "dynamic_size"}
InitialBits == 8
FullBits == 64

\* bits_for
BitsFor(v) == IF v = 0 THEN 1 ELSE CHOOSE n \in 1 .. 30 : 2 ^ (n - 1) <= v /\ v < 2 ^ n

\* SizeAdjust::cast_to, for numbers of at most 30 bits.
Cast(v, bits) == IF bits > 30 THEN v ELSE v % 2 ^ bits
CastKey(key, bits) == <<Cast(key[1], bits), Cast(key[2], bits)>>
IsEmptyKey(key, bits) == bits <= 30 /\ key = <<2 ^ bits - 1, 2 ^ bits - 1>>

NewMap(ipd) ==
  [bits |-> IF ipd = "dynamic_size" THEN InitialBits ELSE FullBits, entries |-> <<>>]

Larger(a, b) == IF a > b THEN a ELSE b

\* can_fit_key, can_fit_value
CanFitKey(map, key) ==
  /\ ~IsEmptyKey(CastKey(key, map.bits), map.bits)
  /\ BitsFor(Larger(key[1], key[2])) <= map.bits
CanFitValue(map, v) == BitsFor(v) <= map.bits

\* The map itself: 0 is the value of a new entry; the key of ones is not kept.
Stored(map, key) ==
  IF CastKey(key, map.bits) \in DOMAIN map.entries THEN map.entries[CastKey(key, map.bits)] ELSE 0
Store(map, key, v) ==
  IF IsEmptyKey(CastKey(key, map.bits), map.bits) THEN map
  ELSE [map EXCEPT !.entries = (CastKey(key, map.bits) :> Cast(v, map.bits)) @@ @]

\* resize: to the next width that is wide enough, a multiple of 8 bits.
Resized(map, bits) == [map EXCEPT !.bits = ((Larger(bits, @ + 1) + 7) \div 8) * 8]

\* access, for the updater of GrammarRules: a new entry gets the counter.
MakeRoomForKey(map, key) ==
  IF CanFitKey(map, key) THEN map ELSE Resized(map, BitsFor(Larger(key[1], key[2])))
ValueFor(map, key, counter) == IF Stored(map, key) = 0 THEN counter ELSE Stored(map, key)
StoreFitting(map, key, v) ==
  IF CanFitValue(map, v) THEN Store(map, key, v)
  ELSE Store(Resized(Store(map, key, 0), BitsFor(v)), key, v)

\* Mutant: the first number is also the one of the last symbol of the alphabet.
NewRulesFromAlphabet(ipd, alphabet) ==
  [map |-> NewMap(ipd), counter |-> alphabet, initial |-> alphabet]

\* GrammarRules: counter is the next value; values start above the alphabet.
NewRules(ipd, alphabet) ==
  [map |-> NewMap(ipd), counter |-> alphabet + 1, initial |-> alphabet + 1]
RulesCount(gr) == gr.counter - gr.initial

\* add, of two symbols: the result is one less than the value.
AddPair(gr, key) ==
  LET map == MakeRoomForKey(gr.map, key)
      v == ValueFor(map, key, gr.counter)
  IN  [gr |-> [gr EXCEPT !.map = StoreFitting(map, key, v),
                         !.counter = IF v = gr.counter THEN v + 1 ELSE @],
       name |-> v - 1]

\* add, of a block: of three symbols the first two are a pair of their own.
Add(gr, block) ==
  CHOOSE r \in {IF Len(block) = 2 THEN p ELSE AddPair(p.gr, <<p.name, block[3]>>) :
                p \in {AddPair(gr, SubSeq(block, 1, 2))}} : TRUE

\* The names that make the next string start from 0.
NameInRound(gr, name) == name - (gr.initial - 1)

\* for_all, as the rules numbered from 0 in the order of their values.  A pair
\* that was not kept leaves its rule as it was allocated.
RuleOf(gr, k) ==
  LET keys == {key \in DOMAIN gr.map.entries : gr.map.entries[key] = gr.initial + k}
  IN  IF keys = {} THEN <<0, 0>> ELSE CHOOSE key \in keys : TRUE
=============================================================================
