------------------------------- MODULE FrameLink -------------------------------
(***************************************************************************)
(* What the framing of the CommHandler promises: of the requests that the  *)
(* server sent intact, some are lost, and the others are heard in the      *)
(* order they were sent, each at most once, one at a time.                 *)
(***************************************************************************)
EXTENDS Naturals, Sequences

CONSTANTS
    Messages,       \* what the server may send at once: sequences of requests
    NoRequest

VARIABLES
    pending,    \* requests sent, neither heard nor lost
    heard       \* the request the device holds, or NoRequest

Init == pending = <<>> /\ heard = NoRequest

Send == \E m \in Messages : pending' = pending \o m /\ UNCHANGED heard

Lose == \E n \in 1 .. Len(pending) :
    pending' = SubSeq(pending, n + 1, Len(pending)) /\ UNCHANGED heard

Hear == \E n \in 1 .. Len(pending) :
    /\ heard = NoRequest
    /\ heard' = pending[n]
    /\ pending' = SubSeq(pending, n + 1, Len(pending))

\* The device is done with the request, or drops it.
Release == heard # NoRequest /\ heard' = NoRequest /\ UNCHANGED pending

Next == Send \/ Lose \/ Hear \/ Release

Spec == Init /\ [][Next]_<<pending, heard>>
=============================================================================
