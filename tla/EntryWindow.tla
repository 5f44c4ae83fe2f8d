----------------------------- MODULE EntryWindow -----------------------------
(***************************************************************************)
(* What the datalogging buffer is for: it remembers the latest entries, in *)
(* order, as many as fit, and forgets the oldest one to make room.         *)
(***************************************************************************)
EXTENDS Naturals, Sequences

CONSTANTS Samples           \* the values an entry can have

VARIABLES capacity,         \* how many entries fit
          window            \* the entries remembered, the oldest first

windowVars == <<capacity, window>>

WindowInit == capacity = 0 /\ window = << >>

Clear == capacity' \in Nat /\ window' = << >>

Remember(s) ==
    /\ capacity > 0
    /\ window' = IF Len(window) < capacity THEN Append(window, s) ELSE Append(Tail(window), s)
    /\ UNCHANGED capacity

WindowNext == Clear \/ \E s \in Samples : Remember(s)

WindowSpec == WindowInit /\ [][WindowNext]_windowVars
=============================================================================
