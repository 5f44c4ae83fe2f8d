--------------------------- MODULE MCFrameReception ---------------------------
(***************************************************************************)
(* FrameReception with frames that tell the cases of the reception apart.  *)
(***************************************************************************)
EXTENDS FrameReception

Request(c, s, d) == [command |-> c, subfunction |-> s, data |-> d]

Noise(bytes) == [k \in 1 .. Len(bytes) |-> WireByte(bytes[k], NoRequest)]
Frame(r) == LET bytes == RequestFrame(r)
            IN [k \in 1 .. Len(bytes) |-> WireByte(bytes[k], IF k = Len(bytes) THEN r ELSE NoRequest)]

DiscoverRequest == Request(CommControl, Discover, DiscoverMagic)
ConnectRequest == Request(CommControl, ConnectFunction, <<>>)
WorkRequest == Request(3, 1, <<\h7E>>)
LongRequest == Request(3, 2, <<1, 2, 3, 4, 5>>)

\* The last byte of a frame changed: nothing is sent intact.
Corrupt(frame) == LET n == Len(frame) IN
    Noise([Values(frame) EXCEPT ![n] = (@ + 1) % 256])

MCBursts ==
    {Frame(DiscoverRequest), Frame(WorkRequest),
     Frame(ConnectRequest) \o Frame(WorkRequest),       \* two requests at once
     Corrupt(Frame(ConnectRequest)) \o Frame(LongRequest),
     Noise(<<1, 1, 1, 2>>)}                             \* a length of two bytes, too large

MCResponses ==
    {[command |-> 3, subfunction |-> 1, code |-> 0, data |-> <<130>>],
     [command |-> 3, subfunction |-> 1, code |-> 0, data |-> <<1, 2>>]}     \* too long
=============================================================================
