------------------------------ MODULE RawFormat ------------------------------
(***************************************************************************)
(* The bookkeeping of RawFormatEncoder: which slots of the datalogging     *)
(* buffer hold entries.  The buffer holds BufferSize chars, all counters   *)
(* have the width of buffer_size_t.                                        *)
(***************************************************************************)
EXTENDS Naturals

CONSTANTS BufferSize,     \* m_buffer_size
          SizeModulus     \* buffer_size_t is modulo this: 2^16 or 2^32 in the code

ASSUME BufferAssumption == BufferSize \in Nat \ {0} /\ SizeModulus \in Nat /\ BufferSize < SizeModulus

\* reset() for a configuration whose entries take size chars; an entry that does
\* not fit, or is empty, is an error.
EncoderReset(size) ==
    [entry_size |-> size,
     max_entries |-> IF size > 0 THEN BufferSize \div size ELSE 0,
     next |-> 0,               \* m_next_entry_write_index
     first |-> 0,              \* m_first_valid_entry_index
     full |-> FALSE,
     counter |-> 0]            \* m_entry_write_counter

EncoderError(e) == e.max_entries = 0

\* Faulty variants (names starting with Faulty) are not part of the model: each is
\* a slip that the properties are sensitive to.
FaultyNextIndexPastEnd(e, i) == IF i + 1 > e.max_entries THEN 0 ELSE i + 1

NextIndex(e, i) == IF i + 1 >= e.max_entries THEN 0 ELSE i + 1

FaultyEncodeKeepsOldest(e) ==
    [e EXCEPT !.next = NextIndex(e, @),
              !.full = e.full \/ e.next + 1 >= e.max_entries,
              !.counter = (@ + 1) % SizeModulus]

\* encode_next_entry(), without the data: the oldest entry is given up when the
\* buffer is full, the entry goes to slot e.next.
EncodeNextEntry(e) ==
    [e EXCEPT !.first = IF e.next = e.first /\ e.full THEN NextIndex(e, @) ELSE @,
              !.next = NextIndex(e, @),
              !.full = e.full \/ e.next + 1 >= e.max_entries,
              !.counter = (@ + 1) % SizeModulus]

ResetWriteCounter(e) == [e EXCEPT !.counter = 0]

GetDataWriteCounter(e) == (e.counter * e.entry_size) % SizeModulus
GetReadCursor(e) == e.first * e.entry_size
GetWriteCursor(e) == e.next * e.entry_size
GetEntryCount(e) == IF e.full THEN e.max_entries ELSE e.next
GetBufferEffectiveSize(e) == e.entry_size * e.max_entries
RemainingBytesToFull(e) == IF e.full THEN 0 ELSE GetBufferEffectiveSize(e) - GetWriteCursor(e)
=============================================================================
