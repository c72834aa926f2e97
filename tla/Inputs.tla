------------------------------- MODULE Inputs -------------------------------
(***************************************************************************)
(* io/Input.hpp and io/InputAlloc.hpp: the inputs that are derived from    *)
(* one source by slicing and restricting, the views and streams that are   *)
(* opened on them, and the pool of allocations all of them share.          *)
(*                                                                         *)
(* A view or a file can be loaded again and again.  A stream is read once: *)
(* its whole text stays in one root chunk, which is rewritten in place     *)
(* when other restrictions are asked for, and slices point into it.        *)
(* Chunks are reference counted: a chunk lives while the pool, a reader or *)
(* a slice refers to it.  What a buffer does to its text is its contract   *)
(* here (RestrictedForm); RestrictedBuffer shows that it keeps it.         *)
(***************************************************************************)
EXTENDS EscapeMap

CONSTANTS Texts,         \* the texts of the source
          Restrictions,  \* the restrictions that may be asked for
          Readers,       \* the views and streams that may be open at a time
          MaxInputs      \* bound on the number of inputs derived from the source

\* What inputs can ask for: any of the restrictions together, or nothing.
Merged(R) == [escape |-> UNION {r.escape : r \in R}, null |-> \E r \in R : r.null]

\* As for RestrictedBuffer, a terminator alone is left out.
ASSUME InputsAssumption ==
  /\ Texts \subseteq Seq(Nat)
  /\ \A R \in SUBSET Restrictions : PoolSuffices(Merged(R))
  /\ \A r \in Restrictions : r.escape = {} => ~r.null
  /\ MaxInputs \in Nat \ {0}

npos == -1
NoRestriction == [escape |-> {}, null |-> FALSE]
Closed == [of |-> 0, id |-> 0]

VARIABLES
  kind,     \* the kind of source
  text,     \* its text
  inputs,   \* the inputs (Input::Variant), the first is the source itself
  shared,   \* FALSE: all inputs are gone, and with them the pool
  heap,     \* what the inputs share, see below
  reader,   \* the open views and streams, with the input they were opened on
  outcome   \* why the program ended, if it did, and the input it was asked for

\* heap.pool  : the chunks of InputAlloc, by their ids
\* heap.chunk : the chunks that are alive; owner is the chunk whose buffer
\*              (plain, restr) the view [lo, hi) shows, an owner is its own
\* heap.left  : what the stream still delivers
vars == <<kind, text, inputs, shared, heap, reader, outcome>>

\* The character whose bytes are the k-th to be written, and that byte.
CharAt(r, s, k) ==
  CHOOSE i \in 1 .. Len(s) : Offset(r, s, i) < k /\ k <= Offset(r, s, i + 1)
ByteOf(r, s, k, i) ==
  IF s[i] \notin Escaped(r) THEN s[i]
  ELSE IF k = Offset(r, s, i) + 1 THEN EscapeByte(r) ELSE Replacement(r)[s[i]]

RestrictedForm(r, s) ==
  LET end == Offset(r, s, Len(s) + 1)
  IN  [k \in 1 .. end + Noff(r) |->
         IF k > end THEN 0 ELSE ByteOf(r, s, k, CharAt(r, s, k))]

Source == [from |-> 0, to |-> npos, restr |-> NoRestriction, size |-> npos]

Until(v) == IF v.to = npos THEN Len(text) ELSE v.to
SourceSlice(v) == SubSeq(text, v.from + 1, Until(v))
Whole(v) == v.from = 0 /\ v.to = npos

Owner(h, id) == h.chunk[h.chunk[id].owner]
View(h, id) ==
  SubSeq(RestrictedForm(Owner(h, id).restr, Owner(h, id).plain),
         h.chunk[id].lo + 1, h.chunk[id].hi)

\* Chunks that nothing refers to are freed.
Collected(h, rd) ==
  LET held == h.pool \cup ({rd[x].id : x \in Readers} \ {0})
  IN  [h EXCEPT !.chunk = Restrict(@, held \cup {@[id].owner : id \in held})]

Init ==
  /\ kind \in {"view", "file", "stream"} /\ text \in Texts
  /\ inputs = <<Source>>
  /\ shared = TRUE
  /\ heap = [pool |-> {}, chunk |-> <<>>, left |-> text]
  /\ reader = [x \in Readers |-> Closed]
  /\ outcome = [why |-> "running", asked |-> Source]
-----------------------------------------------------------------------------
(* InputAllocHandle::find_or_construct *)

Fresh(h) == CHOOSE id \in 1 .. Cardinality(DOMAIN h.chunk) + 1 : id \notin DOMAIN h.chunk

Pushed(h, id, c) ==
  [h EXCEPT !.pool = @ \cup {id},
            !.chunk = [k \in DOMAIN @ \cup {id} |-> IF k = id THEN c ELSE @[k]]]

Owned(id, from, to, plain, r) ==
  [from |-> from, to |-> to, owner |-> id, plain |-> plain, restr |-> r,
   lo |-> 0, hi |-> Len(RestrictedForm(r, plain))]

Roots(h) == {id \in h.pool : h.chunk[id].from = 0 /\ h.chunk[id].to = npos}

\* Mutant: nobody else is expected to look at the root.
UniqueAlways(h, id) == TRUE

\* parent.unique(): neither a reader nor a slice refers to the root.
Unique(h, id) ==
  /\ \A x \in Readers : reader[x].id # id
  /\ \A k \in DOMAIN h.chunk \ {id} : h.chunk[k].owner # id

\* The translation of a position of the text into the escaped buffer: the
\* first byte with n bytes before it that are not the escape byte, or 0.
Translated(r, s, n) ==
  LET found == {i \in 0 .. Len(s) - 1 :
                  Cardinality({j \in 1 .. i : s[j] # EscapeByte(r)}) = n}
  IN  IF ~HasEscapeRestrictions(r) THEN n
      ELSE IF found = {} THEN 0 ELSE Min(found)

CreateRef(h, root, v) ==
  LET s == View(h, root)
  IN  Pushed(h, Fresh(h),
        [from |-> v.from, to |-> v.to, owner |-> root, plain |-> <<>>, restr |-> NoRestriction,
         lo |-> Translated(v.restr, s, v.from),
         hi |-> IF v.to = npos THEN Len(s) ELSE Translated(v.restr, s, v.to)])

Found(h, id) == [failed |-> FALSE, why |-> "", heap |-> h, id |-> id]
Refused(why) == [failed |-> TRUE, why |-> why, heap |-> heap, id |-> 0]

\* The heap after create_stream, or the check that fails: the last is the
\* DCHECK of slice that its bounds are in order, which they need not be after
\* the translation.
CreateStream(h, v) ==
  LET read == IF Roots(h) # {} THEN h
              ELSE [Pushed(h, Fresh(h), Owned(Fresh(h), 0, npos, h.left, v.restr))
                      EXCEPT !.left = <<>>]
      root == CHOOSE id \in Roots(read) : TRUE
      set == [read EXCEPT !.chunk[root] = Owned(root, 0, npos, @.plain, v.restr)]
      made == CreateRef(set, root, v)
      new == made.chunk[Fresh(set)]
  IN  IF read.chunk[root].restr # v.restr /\ ~Unique(read, root) THEN Refused("copy")
      ELSE IF Whole(v) THEN Found(set, root)
      ELSE IF v.to # npos /\ v.restr.null THEN Refused("slice")
      ELSE IF new.lo > new.hi THEN Refused("bounds")
      ELSE Found(made, Fresh(set))

CreateBuffer(h, v) ==
  Found(Pushed(h, Fresh(h), Owned(Fresh(h), v.from, v.to, SourceSlice(v), v.restr)), Fresh(h))

Matching(h, v) ==
  {id \in h.pool : /\ h.chunk[id].from = v.from /\ h.chunk[id].to = v.to
                          /\ Owner(h, id).restr = v.restr}

FindOrConstruct(h, v) ==
  IF Matching(h, v) # {}
  THEN Found(h, CHOOSE id \in Matching(h, v) : TRUE)
  ELSE IF kind = "stream" THEN CreateStream(h, v) ELSE CreateBuffer(h, v)

\* Mutant: only what was loaded from views and files is taken out of the pool.
UnregisteredLoads(h, id) ==
  IF kind = "stream" THEN h ELSE [h EXCEPT !.pool = @ \ {id}]

\* unregister_alloc_chunk_handle: the root of a stream stays.
Unregistered(h, id) ==
  IF kind = "stream" /\ h.chunk[id].from = 0 /\ h.chunk[id].to = npos THEN h
  ELSE [h EXCEPT !.pool = @ \ {id}]
-----------------------------------------------------------------------------
(* Deriving inputs *)

Running == outcome.why = "running" /\ shared

\* The bounds are relative to those of the input.  A slice without an end
\* reaches to the end of the source, also when the input ended before.
SliceInput(i, a, b) ==
  LET v == inputs[i]
  IN  /\ Running /\ Len(inputs) < MaxInputs
      /\ v.from + a <= Until(v)
      /\ b # npos => a <= b /\ v.from + b <= Until(v)
      /\ inputs' = Append(inputs, [from |-> v.from + a,
                                   to |-> IF b = npos THEN npos ELSE v.from + b,
                                   restr |-> v.restr, size |-> npos])
      /\ UNCHANGED <<kind, text, shared, heap, reader, outcome>>

RestrictInput(i, r) ==
  /\ Running /\ Len(inputs) < MaxInputs
  /\ inputs' = Append(inputs, [inputs[i] EXCEPT !.restr = MergeRestrictions(@, r),
                                                !.size = npos])
  /\ UNCHANGED <<kind, text, shared, heap, reader, outcome>>
-----------------------------------------------------------------------------
(* Opening and closing them *)

Fail(why, v) ==
  /\ outcome' = [why |-> why, asked |-> v]
  /\ UNCHANGED <<kind, text, inputs, shared, heap, reader>>

\* A view keeps its chunk in the pool.
OpenView(i, x) ==
  LET found == FindOrConstruct(heap, inputs[i])
  IN  /\ Running /\ reader[x] = Closed
      /\ IF found.failed THEN Fail(found.why, inputs[i])
         ELSE /\ reader' = [reader EXCEPT ![x] = [of |-> i, id |-> found.id]]
              /\ heap' = Collected(found.heap, reader')
              /\ UNCHANGED <<kind, text, inputs, shared, outcome>>

\* The temporary that as_stream moves from still has its handle, and takes
\* the chunk out of the pool.  Views and files are streamed from the source.
OpenStream(i, x) ==
  LET found == FindOrConstruct(heap, inputs[i])
  IN  /\ Running /\ reader[x] = Closed /\ kind = "stream"
      /\ IF found.failed THEN Fail(found.why, inputs[i])
         ELSE /\ reader' = [reader EXCEPT ![x] = [of |-> i, id |-> found.id]]
              /\ heap' = Collected(Unregistered(found.heap, found.id), reader')
              /\ UNCHANGED <<kind, text, inputs, shared, outcome>>

\* The size is counted once, in a stream if there is something to escape; the
\* DCHECK of as_stream refuses a slice that ends before its file.
InputSize(i) ==
  LET v == inputs[i]
      found == FindOrConstruct(heap, v)
      Known(n) == inputs' = [inputs EXCEPT ![i].size = n]
  IN  /\ Running /\ v.size = npos
      /\ IF kind = "file" /\ HasRestrictions(v.restr) /\ v.to # npos THEN Fail("slice", v)
         ELSE IF kind # "stream"
         THEN /\ Known(IF HasRestrictions(v.restr)
                       THEN Len(RestrictedForm(v.restr, SourceSlice(v)))
                       ELSE Until(v) - v.from)
              /\ UNCHANGED <<kind, text, shared, heap, reader, outcome>>
         ELSE IF found.failed THEN Fail(found.why, inputs[i])
         ELSE /\ Known(Len(View(found.heap, found.id)))
              /\ heap' = Collected(Unregistered(found.heap, found.id), reader)
              /\ UNCHANGED <<kind, text, shared, reader, outcome>>

\* The destructor of a view or a stream: the pool must still exist, except
\* for the root of a stream.
CloseReader(x) ==
  LET id == reader[x].id
      root == kind = "stream" /\ heap.chunk[id].from = 0 /\ heap.chunk[id].to = npos
  IN  /\ outcome.why = "running" /\ reader[x] # Closed
      /\ IF ~shared /\ ~root THEN Fail("expired", inputs[reader[x].of])
         ELSE /\ reader' = [reader EXCEPT ![x] = Closed]
              /\ heap' = Collected(Unregistered(heap, id), reader')
              /\ UNCHANGED <<kind, text, inputs, shared, outcome>>

\* The last input goes out of scope while views and streams may be open.
DropInputs ==
  /\ Running
  /\ shared' = FALSE
  /\ heap' = Collected([heap EXCEPT !.pool = {}], reader)
  /\ UNCHANGED <<kind, text, inputs, reader, outcome>>
-----------------------------------------------------------------------------
Next ==
  \/ \E i \in DOMAIN inputs, a \in 0 .. Len(text), b \in {npos} \cup 0 .. Len(text) :
        SliceInput(i, a, b)
  \/ \E i \in DOMAIN inputs, r \in Restrictions : RestrictInput(i, r)
  \/ \E i \in DOMAIN inputs, x \in Readers : OpenView(i, x) \/ OpenStream(i, x)
  \/ \E i \in DOMAIN inputs : InputSize(i)
  \/ \E x \in Readers : CloseReader(x)
  \/ DropInputs

Spec == Init /\ [][Next]_vars
-----------------------------------------------------------------------------
(* Properties *)

TypeOK ==
  /\ \A k \in DOMAIN inputs : inputs[k].from \in 0 .. Len(text) /\ inputs[k].size >= npos
  /\ heap.pool \subseteq DOMAIN heap.chunk
  /\ \A x \in Readers : reader[x] = Closed \/ reader[x].id \in DOMAIN heap.chunk
  /\ outcome.why \in {"running", "copy", "slice", "bounds", "expired"}

\* The bounds of a slice of a stream survive the escaping: no character before
\* them is the escape byte, whose pair has no other byte to count, and a byte
\* follows.
Translatable(r, v) ==
  LET exact(n) == \/ n = 0
                  \/ /\ \A j \in 1 .. n : text[j] # EscapeByte(r)
                     /\ n < Len(text) \/ r.null
  IN  kind = "stream" /\ ~Whole(v) /\ HasEscapeRestrictions(r)
        => exact(v.from) /\ (v.to # npos => exact(v.to))

ShowsSlice(x) ==
  LET v == inputs[reader[x].of]
  IN  IsRestricted(v.restr, SourceSlice(v), View(heap, reader[x].id))

\* Whatever the other inputs and their readers do with the shared buffers, an
\* open reader shows its slice of the source in the restricted form its input
\* asked for, and so does the size that an input remembers.  The slices of an
\* escaped stream whose bounds create_stream translates wrongly are left out
\* (see EverySliceRight); a slice without an end is one to the end of the
\* source, also when it was taken of an input that ends before.
ReadersRight ==
  /\ TypeOK
  /\ \A x \in Readers : reader[x] # Closed =>
        LET v == inputs[reader[x].of] IN Translatable(v.restr, v) => ShowsSlice(x)
  /\ \A k \in DOMAIN inputs : inputs[k].size # npos =>
        LET v == inputs[k]
        IN  Translatable(v.restr, v) => v.size = Len(RestrictedForm(v.restr, SourceSlice(v)))

\* What the constructor of a slice promises (Input.hpp: it exposes only the
\* data in from to to), of every open reader.
EverySliceRight == \A x \in Readers : reader[x] # Closed => ShowsSlice(x)

\* The refusal to copy a stream (the CHECK of create_stream) is never caused
\* by what closed readers and computed sizes left behind: a reader is open on
\* an input with other restrictions than the ones that were asked for.  And
\* bounds out of order come from no slice that can be translated.
RefusedOnlyWhenInUse ==
  /\ outcome.why = "copy" =>
       \E x \in Readers : /\ reader[x] # Closed
                          /\ inputs[reader[x].of].restr # outcome.asked.restr
  /\ outcome.why = "bounds" => ~Translatable(outcome.asked.restr, outcome.asked)

-----------------------------------------------------------------------------
(* Values of the constants for TLC. *)

MCPool == <<255, 254, 192, 193>>
\* Nothing, and something to escape at every place, with the escape byte before
\* and behind the bounds of a slice.
MCTexts == {<<>>, <<255, 0>>, <<97, 0, 255>>}
MCRestrictions == {
  [escape |-> {0}, null |-> TRUE],
  [escape |-> {0}, null |-> FALSE]}

ReaderSymmetry == Permutations(Readers)
=============================================================================
