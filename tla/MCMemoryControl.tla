-------------------------- MODULE MCMemoryControl --------------------------
(***************************************************************************)
(* Instances of MemoryControl for TLC: five addresses, one forbidden, two  *)
(* read-only, reads of two blocks, the second short, writes of one block,  *)
(* and some requests of two or three items cut at any byte.                *)
(***************************************************************************)
EXTENDS MemoryControl, SequencesExt

CONSTANT TxSizes           \* transmit buffers tried

MCForbidden == {[start |-> 3, end |-> 3]}
MCReadonly == {[start |-> a, end |-> a] : a \in {0, 4}}
MCRpvSize == [id \in {1, 3} |-> IF id = 1 THEN 1 ELSE 8]

MCConfigs ==
    [memory_write : {TRUE}, read_rpv : {TRUE}, write_rpv : {TRUE}, tx : TxSizes]
    \union {[memory_write |-> FALSE, read_rpv |-> FALSE, write_rpv |-> FALSE, tx |-> 8]}

\* Those at the end of the memory go on at its start.
Blocks(n) == [addr : Addresses, length : 0 .. n]

Fill(b, source, mask) ==
    [addr |-> b.addr, length |-> b.length,
     source |-> [i \in 0 .. b.length - 1 |-> source], mask |-> [i \in 0 .. b.length - 1 |-> mask]]

WriteBlocks == {Fill(b, {2}, Bits) : b \in Blocks(2)}
MaskedBlocks == WriteBlocks \union {Fill(b, s, {1}) : b \in Blocks(1), s \in {{}, {1}}}
Short == {Fill([addr |-> a, length |-> n], {2}, Bits) : a \in {1, 3}, n \in {0, 1}}
Empty == {Fill([addr |-> a, length |-> 0], {}, {}) : a \in {0, 2}}

\* A request with all its items, and its cuts up to one byte more than it takes.
All(subfunction, items) ==
    LET items_of(n) == [subfunction |-> subfunction, items |-> items, data_length |-> n] IN
    items_of(SizeOf(items_of(0), Len(items)))
Cuts(req) == {[req EXCEPT !.data_length = n] : n \in 0 .. req.data_length + 1}

RpvItems == [id : 1 .. 3, value : {0}]
Other == [subfunction |-> "Other", items |-> << >>, data_length |-> 0]

RequestSets ==
    {All("Read", <<b, c>>) : b \in Blocks(4), c \in [addr : {0, 3}, length : {0, 1}]}
    \union {All("Write", <<b>>) : b \in WriteBlocks}
    \union {All("WriteMasked", <<b>>) : b \in MaskedBlocks}
    \union UNION {Cuts(All(f, s)) : f \in MemorySubfunctions, s \in SeqOf(Short, 2)}
    \union UNION {Cuts(All(f, s)) : f \in MemorySubfunctions, s \in SeqOf(Empty, 3)}
    \union UNION {Cuts(All(f, s)) : f \in RpvSubfunctions, s \in SeqOf(RpvItems, 2)}
    \union {All("ReadRPV", [i \in 1 .. 3 |-> [id |-> 3, value |-> 0]])}
    \union {All("WriteRPV", [i \in 1 .. 3 |-> [id |-> 1, value |-> 0]])}
    \union {Other}

MCRequests == {req : req \in RequestSets}     \* enumerated once
=============================================================================
