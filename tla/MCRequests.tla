------------------------------- MODULE MCRequests -------------------------------
(***************************************************************************)
(* Requests with the sizes and lengths of the code, addresses of two bytes *)
(* and two devices: one with everything and the smallest transmit buffer,  *)
(* one with almost nothing.                                                *)
(***************************************************************************)
EXTENDS Requests

Name(length) == [i \in 1 .. length |-> 65 + (i % 26)]
Region(first, last) == [start |-> first, end |-> last]
MCSoftwareId == [i \in 1 .. 16 |-> 16 * i - 1]
MCProtocolVersion == <<1, 0>>

\* uint16, bool, float32, sint64, ...
RpvTypes == <<17, 63, 34, 3>>
Full ==
    [rx_buffer_size |-> 257, tx_buffer_size |-> 18, max_bitrate |-> 115200,
     memory_write |-> TRUE, read_published_values |-> TRUE, user_command |-> <<<<1, 2, 3>>>>,
     readonly |-> <<Region(770, 780)>>, forbidden |-> <<Region(300, 303), Region(512, 512)>>,
     rpvs |-> [i \in 1 .. 8 |-> [id |-> 255 * i, type |-> RpvTypes[1 + (i % 4)]]],
     loops |-> <<[name |-> Name(3), timestep |-> 70000, datalogging |-> TRUE],
                 [name |-> Name(40), timestep |-> 0, datalogging |-> FALSE]>>,
     display_name |-> Name(0), datalogging_buffer |-> 256]
Bare ==
    [Full EXCEPT !.tx_buffer_size = 300, !.display_name = Name(70), !.memory_write = FALSE,
                 !.read_published_values = FALSE, !.user_command = <<>>, !.readonly = <<>>,
                 !.forbidden = <<>>, !.rpvs = <<>>,
                 !.loops = <<[name |-> Name(33), timestep |-> 1, datalogging |-> TRUE]>>]
Chatty == [Bare EXCEPT !.user_command = <<Name(301)>>, !.datalogging_buffer = 0, !.loops = <<>>]
MCDevices == {Full, Bare, Chatty}

Literal(v) == [kind |-> "Literal", val |-> v]
Rpv(id) == [kind |-> "Rpv", id |-> id]
Var(type, addr) == [kind |-> "Var", datatype |-> type, addr |-> addr]
VarBit(type, addr, offset, size) ==
    [kind |-> "VarBit", datatype |-> type, addr |-> addr, bitoffset |-> offset, bitsize |-> size]
Memory(addr, size) == [kind |-> "Memory", addr |-> addr, size |-> size]
Time == [kind |-> "Time"]

Operands ==
    {Literal(16256), Literal(255 * 2^23), Rpv(255), Rpv(256),
     Var(18, 296), Var(18, 297), Var(20, 100), VarBit(16, 299, 0, 8), VarBit(16, 299, 4, 5),
     VarBit(18, 292, 31, 1), VarBit(18, 296, 0, 33), Var(63, 304), VarBit(1, 298, 3, 13)}
Items == {Memory(304, 4), Memory(296, 5), Memory(511, 2), Rpv(510), Rpv(2), Time}

Config(condition, operands, items) ==
    [decimation |-> 258, probe_location |-> 128, timeout |-> 66051, condition |-> condition,
     hold_time |-> 16909060, operand_count |-> Len(operands), operands |-> operands,
     items_count |-> Len(items), items |-> items]
Request(c) == [loop_id |-> 0, config_id |-> 772, config |-> c]
Base == Request(Config(1, <<Var(18, 296), Literal(16256)>>, <<Memory(304, 4), Time>>))

MCConfigurations ==
    {Base, [Base EXCEPT !.loop_id = 1], [Base EXCEPT !.loop_id = 2],
     [Base EXCEPT !.config.decimation = 0]}
    \union {Request(Config(c, <<>>, <<Time>>)) : c \in {0, 1, 9}}
    \union {Request(Config(2, <<o, Literal(16256)>>, <<Time>>)) : o \in Operands}
    \union {Request(Config(8, <<Var(18, 296), Rpv(255), o>>, <<Time, Rpv(510)>>)) : o \in {Rpv(256), Literal(1)}}
    \union {Request(Config(0, <<>>, <<Memory(304, 4), i>>)) : i \in Items}
    \union {Request(Config(1, <<Var(18, 297), Literal(1)>>, <<Rpv(2)>>)),
            Request(Config(8, <<Literal(1), Literal(1), Literal(1), Literal(1)>>, <<Time>>)),
            Request(Config(0, <<>>, <<>>)),
            Request(Config(0, <<>>, <<Time, Time, Time, Time>>))}

MCStatuses == {[state |-> 3, bytes_to_acquire |-> 66051, write_counter |-> 255]}
MCAcquisitions ==
    {<<>>, <<[acquisition_id |-> 258, config_id |-> 772, points |-> 66051, data_size |-> 197637,
              points_after_trigger |-> 17]>>}
=============================================================================
