----------------------------- MODULE RawEncoder -----------------------------
(***************************************************************************)
(* RawFormatEncoder with the contents of its buffer, and RawFormatReader,  *)
(* which copies the acquisition out in pieces as large as each response    *)
(* allows.  An entry is a sample followed through its chars: the char at   *)
(* offset o of the entry with sample s is <<s, o>>.                        *)
(* (CHAR_BIT = 8: no dilation of the chars.)                               *)
(***************************************************************************)
EXTENDS RawFormat, Sequences

CONSTANTS EntrySizes,     \* sizes of the entries of the configurations tried
          Samples,        \* samples the logged items can take
          ReadSizes,      \* room for chars and CRC in a ReadAcquisition response
          CrcSize         \* bytes of the CRC that ends the last response (4 in the code)

ASSUME EncoderAssumption ==
    /\ EntrySizes \subseteq Nat /\ CrcSize \in Nat \ {0}
    /\ ReadSizes \subseteq Nat /\ \A n \in ReadSizes : n >= CrcSize
    /\ Samples \subseteq Nat \ {0}

VARIABLES enc,            \* RawFormatEncoder, see RawFormat
          buffer,         \* m_buffer, from cursors to chars
          reader,         \* RawFormatReader
          output,         \* the chars copied out since the reader was reset
          reading,        \* "no", "yes": reading_in_progress, "complete": the last
                          \* response was sent and no entry was written since
          entries         \* history: the samples the buffer should hold, oldest first

vars == <<enc, buffer, reader, output, reading, entries>>

Cells == 0 .. BufferSize - 1
Garbage == <<0, 0>>                           \* a char never written since power-up

ReaderReset(e) == [cursor |-> GetReadCursor(e), finished |-> FALSE, started |-> FALSE]

Init ==
    /\ enc = EncoderReset(0)
    /\ buffer = [i \in Cells |-> Garbage]
    /\ reader = ReaderReset(EncoderReset(0))
    /\ output = << >> /\ reading = "no" /\ entries = << >>

\* reset(), from DataLogger::configure().
Reset(size) ==
    /\ enc' = EncoderReset(size)
    /\ reader' = ReaderReset(enc')
    /\ output' = << >> /\ reading' = "no" /\ entries' = << >>
    /\ UNCHANGED buffer

\* Where encode_next_entry() writes an entry with sample s.
WriteEntry(s) ==
    [i \in Cells |-> LET o == i - GetWriteCursor(enc) IN
                     IF GetWriteCursor(enc) <= i /\ i < GetWriteCursor(enc) + enc.entry_size
                     THEN <<s, o>> ELSE buffer[i]]

Encode(s) ==
    /\ reading # "yes" /\ ~EncoderError(enc)
    /\ buffer' = WriteEntry(s)
    /\ enc' = EncodeNextEntry(enc)
    /\ entries' = Append(IF Len(entries) < enc.max_entries THEN entries ELSE Tail(entries), s)
    /\ reading' = "no"
    /\ UNCHANGED <<reader, output>>

\* The first ReadAcquisition of a completed acquisition: reader->reset().
StartReading ==
    /\ reading # "yes" /\ ~EncoderError(enc)
    /\ reading' = "yes"
    /\ reader' = ReaderReset(enc)
    /\ output' = << >>
    /\ UNCHANGED <<enc, buffer, entries>>

\* Faulty variants (names starting with Faulty) are not part of the model: each is
\* a slip that the properties are sensitive to.
FaultyCopySizeWholeBuffer(c, n) ==
    LET end == IF GetWriteCursor(enc) > c THEN GetWriteCursor(enc) ELSE BufferSize
    IN IF end - c < n THEN end - c ELSE n

\* One iteration of the loop of read_dilate_8bits(), from read cursor c with room
\* for n chars: the number of chars copied and the next cursor.
CopySize(c, n) ==
    LET end == IF GetWriteCursor(enc) > c THEN GetWriteCursor(enc) ELSE GetBufferEffectiveSize(enc)
    IN IF end - c < n THEN end - c ELSE n

FaultyNextCursorNoWrap(c) == c

NextCursor(c) ==
    IF c > GetWriteCursor(enc) /\ c >= GetBufferEffectiveSize(enc)
    THEN c - GetBufferEffectiveSize(enc) ELSE c

Copied(c, k) == [i \in 1 .. k |-> buffer[c + i - 1]]

\* encode_response_datalogging_read_acquisition(): the CRC goes behind the k bytes
\* read if it still fits; otherwise one more response is needed.
CrcFits(k, n) == k + CrcSize <= n

\* A ReadAcquisition response with room for n bytes: read_dilate_8bits(n), whose
\* second iteration takes place only after a wrap, then the CRC if the reader has
\* finished.
Read(n) ==
    LET nothing_left == reader.cursor = GetWriteCursor(enc) /\ reader.started
        k1 == IF nothing_left THEN 0 ELSE CopySize(reader.cursor, n)
        c1 == NextCursor(reader.cursor + k1)
        again == ~nothing_left /\ c1 # GetWriteCursor(enc) /\ k1 < n
        k2 == IF again THEN CopySize(c1, n - k1) ELSE 0
        c2 == IF again THEN NextCursor(c1 + k2) ELSE c1
        finished == reader.finished \/ c2 = GetWriteCursor(enc)
    IN /\ reading = "yes"
       /\ output' = output \o Copied(reader.cursor, k1) \o Copied(c1, k2)
       /\ reader' = [cursor |-> c2, started |-> TRUE, finished |-> finished]
       /\ reading' = IF finished /\ CrcFits(k1 + k2, n) THEN "complete" ELSE "yes"
       /\ UNCHANGED <<enc, buffer, entries>>

Next ==
    \/ \E size \in EntrySizes : Reset(size)
    \/ \E s \in Samples : Encode(s)
    \/ StartReading
    \/ \E n \in ReadSizes : Read(n)

Spec == Init /\ [][Next]_vars

\* The server goes on asking for the rest of the acquisition.
FairSpec == Spec /\ WF_vars(\E n \in ReadSizes : Read(n))

-----------------------------------------------------------------------------
(* Properties *)

CharsOf(ss) == IF enc.entry_size = 0 THEN << >>
               ELSE [i \in 1 .. Len(ss) * enc.entry_size |->
                       <<ss[((i - 1) \div enc.entry_size) + 1], (i - 1) % enc.entry_size>>]

\* Type correctness: the indices stay inside the buffer.
TypeOK ==
    /\ enc.max_entries = 0 => enc.next = 0 /\ enc.first = 0
    /\ enc.max_entries > 0 => enc.next < enc.max_entries /\ enc.first < enc.max_entries
    /\ enc.full \in BOOLEAN /\ enc.counter \in 0 .. SizeModulus - 1
    /\ \A i \in Cells : buffer[i] = Garbage \/ buffer[i] \in Samples \X (0 .. BufferSize)
    /\ reader.cursor \in 0 .. BufferSize
    /\ reading \in {"no", "yes", "complete"}
    /\ Len(entries) <= BufferSize

\* Whatever the sizes of the responses, the pieces read so far are the first chars
\* of the latest entries in the order they were taken, across the wrap of the
\* ring, and the response that announces the end comes exactly when all were given.
\* An acquisition without any entry (its timeout came first) is left out: equal cursors
\* with nothing started mean a full ring to the reader, which gives the stale buffer
\* while get_total_size_char() is 0.
ReadsTheEntries ==
    (reading # "no" /\ GetEntryCount(enc) > 0) =>
       /\ output = SubSeq(CharsOf(entries), 1, Len(output))
       /\ Len(output) <= Len(CharsOf(entries))
       /\ reader.finished <=> Len(output) = Len(CharsOf(entries))
       /\ reading = "complete" => reader.finished

\* A reading that goes on gets to its last response, also when the CRC does not
\* fit behind the last chars.
ReadingEnds == reading = "yes" ~> reading # "yes"

\* The samples in the slots of the ring, from the first valid one.
Stored == [k \in 1 .. GetEntryCount(enc) |->
              buffer[((enc.first + k - 1) % enc.max_entries) * enc.entry_size][1]]

\* The ring implements a window on the latest entries.
Window == INSTANCE EntryWindow WITH capacity <- enc.max_entries, window <- Stored
ImplementsWindow == Window!WindowSpec
=============================================================================
