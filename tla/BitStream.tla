----------------------------- MODULE BitStream -----------------------------
(***************************************************************************)
(* io/BitOStream.hpp and io/BitIStream.hpp: bits packed MSB first into the *)
(* bytes of a file, and read back.                                         *)
(*                                                                         *)
(* The file carries no bit count.  The destructor of the writer stores the *)
(* number of payload bits of the last byte in the three low bits of that   *)
(* byte, or, when they are taken (6 or 7 payload bits), in an extra byte;  *)
(* the reader must recognise the end by looking one byte ahead.            *)
(*                                                                         *)
(* A byte is a function from bit positions (7 is the most significant) to  *)
(* bits.  bitsSent and bitsGot are history variables: the bits passed to   *)
(* write_bit and those read_bit returned before eof().                     *)
(*                                                                         *)
(* The names say which stream they belong to: the proofs extend this       *)
(* module and EscapeStream together.                                       *)
(***************************************************************************)
EXTENDS Integers, Sequences

CONSTANTS Bits,      \* the bits the client writes, a subset of {0, 1}
          MaxBits    \* bound on the number of bits written

ASSUME BitsAssumption == Bits \subseteq {0, 1}
ASSUME MaxBitsAssumption == MaxBits \in Nat

VARIABLES
  file,     \* the bytes of the underlying stream
  wr,       \* BitOStream: [next, cursor, dirty]
  closed,   \* ~BitOStream has run
  rd,       \* BitIStream: [current, next, isFinal, finalBits, cursor, pos]
  reading,  \* the BitIStream has been constructed
  bitsSent, bitsGot \* history

bitVars == <<file, wr, closed, rd, reading, bitsSent, bitsGot>>

Bit == {0, 1}
MSB == 7
Octet == [0 .. MSB -> Bit]
ZeroByte == [i \in 0 .. MSB |-> 0]

Writer == [next : Octet, cursor : 0 .. MSB, dirty : BOOLEAN]
Reader == [current : Octet, next : Octet, isFinal : BOOLEAN,
           finalBits : 0 .. 7, cursor : 0 .. MSB, pos : Nat]

\* m_next |= set for a count 0..7: it only touches the three low bits.
OrCount(byte, count) ==
  [i \in 0 .. MSB |-> IF \/ i = 2 /\ count \div 4 = 1
                         \/ i = 1 /\ (count \div 2) % 2 = 1
                         \/ i = 0 /\ count % 2 = 1
                      THEN 1 ELSE byte[i]]

\* byte & 0x7
FinalCount(byte) == 4 * byte[2] + 2 * byte[1] + byte[0]

FreshWriter == [next |-> ZeroByte, cursor |-> MSB, dirty |-> FALSE]
NewReader(next, isFinal, pos) ==
  [current |-> ZeroByte, next |-> next, isFinal |-> isFinal,
   finalBits |-> 0, cursor |-> 0, pos |-> pos]
FreshReader == NewReader(ZeroByte, FALSE, 0)

BitInit ==
  /\ file = <<>>
  /\ wr = FreshWriter
  /\ closed = FALSE
  /\ rd = FreshReader
  /\ reading = FALSE
  /\ bitsSent = <<>>
  /\ bitsGot = <<>>
-----------------------------------------------------------------------------
(* The writer *)

\* write_bit; the eighth bit of a byte also runs write_next.
WriteBit(bit) ==
  LET filled == IF bit = 1 THEN [wr.next EXCEPT ![wr.cursor] = 1] ELSE wr.next
  IN  /\ ~closed
      /\ Len(bitsSent) < MaxBits
      /\ bitsSent' = Append(bitsSent, bit)
      /\ IF wr.cursor > 0
         THEN /\ wr' = [next |-> filled, cursor |-> wr.cursor - 1, dirty |-> TRUE]
              /\ file' = file
         ELSE /\ wr' = FreshWriter
              /\ file' = Append(file, filled)
      /\ UNCHANGED <<closed, rd, reading, bitsGot>>

\* ~BitOStream
CloseWriter ==
  LET count == MSB - wr.cursor
      flushed == IF wr.dirty THEN Append(file, wr.next) ELSE file
  IN  /\ ~closed
      /\ file' = IF wr.cursor >= 2
                 THEN Append(file, OrCount(wr.next, count))
                 ELSE Append(flushed, OrCount(ZeroByte, count))
      /\ wr' = FreshWriter
      /\ closed' = TRUE
      /\ UNCHANGED <<rd, reading, bitsSent, bitsGot>>
-----------------------------------------------------------------------------
(* The reader *)

\* Mutant: the extra byte that only holds a count of 6 or 7 is not recognised.
ReadNextPlain(r) ==
  LET more == r.pos < Len(file)
  IN  [current   |-> r.next,
       next      |-> IF more THEN file[r.pos + 1] ELSE ZeroByte,
       isFinal   |-> r.isFinal \/ ~more,
       finalBits |-> IF more THEN r.finalBits ELSE FinalCount(r.next),
       cursor    |-> MSB,
       pos       |-> IF more THEN r.pos + 1 ELSE r.pos]

\* read_next: take over the byte looked ahead and look at the following one.
\* The last byte may hold nothing but a count; then the end is known early.
ReadNext(r) ==
  LET more   == r.pos < Len(file)
      last   == r.pos + 1 = Len(file)
      ahead  == file[r.pos + 1]
      marker == last /\ FinalCount(ahead) >= 6
  IN  [current   |-> r.next,
       next      |-> IF more /\ ~marker THEN ahead ELSE ZeroByte,
       isFinal   |-> r.isFinal \/ ~more \/ marker,
       finalBits |-> IF ~more THEN FinalCount(r.next)
                     ELSE IF last THEN FinalCount(ahead) ELSE r.finalBits,
       cursor    |-> MSB,
       pos       |-> IF more THEN r.pos + 1 ELSE r.pos]

\* Mutants: one bit too many, one bit too few.
AtEofLate(r) == r.isFinal /\ r.cursor < MSB - r.finalBits
AtEofEarly(r) == r.isFinal /\ r.cursor <= MSB + 1 - r.finalBits

AtEof(r) == r.isFinal /\ r.cursor <= MSB - r.finalBits

\* The constructor; the decompressor opens what the compressor has closed.
OpenReader ==
  /\ closed
  /\ ~reading
  /\ reading' = TRUE
  /\ rd' = IF file = <<>>
           THEN NewReader(ZeroByte, TRUE, 0)
           ELSE ReadNext(NewReader(file[1], FALSE, 1))
  /\ UNCHANGED <<file, wr, closed, bitsSent, bitsGot>>

\* read_bit before the end.  (At the end it returns 0 and changes nothing.)
ReadBit ==
  /\ reading
  /\ ~AtEof(rd)
  /\ bitsGot' = Append(bitsGot, rd.current[rd.cursor])
  /\ rd' = IF rd.cursor > 0 THEN [rd EXCEPT !.cursor = rd.cursor - 1]
                            ELSE ReadNext(rd)
  /\ UNCHANGED <<file, wr, closed, reading, bitsSent>>

\* An input no writer produced: the decompressor is given an empty file.
OpenEmptyFile ==
  /\ ~closed
  /\ bitsSent = <<>>
  /\ closed' = TRUE
  /\ reading' = TRUE
  /\ rd' = NewReader(ZeroByte, TRUE, 0)
  /\ UNCHANGED <<file, wr, bitsSent, bitsGot>>
-----------------------------------------------------------------------------
WriterStep == CloseWriter \/ \E bit \in Bits : WriteBit(bit)
ReaderStep == OpenReader \/ ReadBit

BitNext == WriterStep \/ ReaderStep \/ OpenEmptyFile

BitSafeSpec == BitInit /\ [][BitNext]_bitVars

\* Sequential code: a decompressor that was started reads on until eof().
BitSpec == BitSafeSpec /\ WF_bitVars(ReaderStep)
-----------------------------------------------------------------------------
(* Properties *)

\* The fields of both streams keep their C++ ranges: cursors are bit
\* positions, the final count fits three bits.
BitTypeOK ==
  /\ file \in Seq(Octet)
  /\ wr \in Writer
  /\ closed \in BOOLEAN
  /\ rd \in Reader
  /\ reading \in BOOLEAN
  /\ bitsSent \in Seq(Bit)
  /\ bitsGot \in Seq(Bit)

\* Whatever the reader has delivered is what was written, bit by bit: no bit
\* of the end marker is ever delivered as payload and none is skipped.
RoundTrip ==
  /\ Len(bitsGot) <= Len(bitsSent)
  /\ \A k \in 1 .. Len(bitsGot) : bitsGot[k] = bitsSent[k]

\* eof() is exact: it holds when and only when every written bit has been
\* delivered, whatever the payload's last bits look like (they may imitate an
\* end marker) and however full the last byte is.
ExactEof == reading => (AtEof(rd) <=> Len(bitsGot) = Len(bitsSent))

\* The first n payload bits s are those of the m bytes f: bit 8r - c of the
\* payload (counting from 1) is bit c of byte r.
PayloadBits(s, f, n, m) ==
  \A r \in 1 .. m, c \in 0 .. MSB : 8 * r - c <= n => s[8 * r - c] = f[r][c]

\* The payload bits after the first m bytes are those of byte b above cursor.
PartialBits(s, b, m, cursor) ==
  \A c \in 0 .. MSB : c > cursor => s[8 * (m + 1) - c] = b[c]

\* The writer's side of the inductive invariant.
WriterInv ==
  ~closed =>
    /\ ~reading /\ bitsGot = <<>> /\ rd = FreshReader
    /\ Len(bitsSent) = 8 * Len(file) + MSB - wr.cursor
    /\ wr.dirty <=> wr.cursor < MSB
    /\ PayloadBits(bitsSent, file, Len(bitsSent), Len(file))
    /\ PartialBits(bitsSent, wr.next, Len(file), wr.cursor)
    /\ \A c \in 0 .. MSB : c <= wr.cursor => wr.next[c] = 0

\* The number of bytes that hold payload once the file is closed.
PayloadBytes == IF FinalCount(file[Len(file)]) <= 5 THEN Len(file) ELSE Len(file) - 1

\* A closed file determines the length of its payload, by the count in its
\* last byte, and every bit of it.
FileInv ==
  closed =>
    /\ ~reading => bitsGot = <<>>
    /\ file = <<>> => bitsSent = <<>> /\ reading
    /\ file # <<>> =>
         /\ PayloadBytes >= 1
         /\ Len(bitsSent) = 8 * (PayloadBytes - 1) + FinalCount(file[Len(file)])
         /\ PayloadBits(bitsSent, file, Len(bitsSent), Len(file))

\* The byte the reader consumes.
Row == IF rd.isFinal THEN PayloadBytes ELSE rd.pos - 1

\* The reader knows the end exactly when the byte it consumes is the last one
\* with payload; bitsGot ends where its cursor stands.
ReaderInv ==
  reading =>
    /\ closed
    /\ file = <<>> => rd.isFinal /\ rd.finalBits = 0 /\ bitsGot = <<>>
    /\ file # <<>> =>
         /\ Row \in 1 .. PayloadBytes
         /\ rd.current = file[Row]
         /\ Len(bitsGot) = 8 * (Row - 1) + MSB - rd.cursor
         /\ rd.isFinal => /\ rd.finalBits = FinalCount(file[Len(file)])
                          /\ rd.cursor >= MSB - rd.finalBits
         /\ ~rd.isFinal => /\ rd.pos \in 1 .. Len(file)
                           /\ rd.next = file[rd.pos]
                           /\ Row < PayloadBytes

\* The inductive invariant of the proofs: both streams agree on the place of
\* every payload bit at every moment.
IInv == BitTypeOK /\ RoundTrip /\ WriterInv /\ FileInv /\ ReaderInv

\* The destructor costs at most one byte over the packed payload.
FileSize == closed /\ file # <<>> =>
  8 * Len(file) \in Len(bitsSent) + 3 .. Len(bitsSent) + 10

\* The pair of streams implements the abstract lossless channel.
BitChannel == INSTANCE LosslessChannel WITH Symbol <- Bit, sent <- bitsSent, got <- bitsGot
BitChannelSpec == BitChannel!Spec
-----------------------------------------------------------------------------
(* Model checking *)

\* Every combination of the first 9 bits, over a byte boundary and an end
\* marker; behind them only ones, for files of up to five bytes.
PayloadShape == \A i \in 10 .. Len(bitsSent) : bitsSent[i] = 1
=============================================================================
