------------------------------- MODULE Timebase -------------------------------
(***************************************************************************)
(* Timebase: a free-running counter of 100 ns ticks that wraps around.     *)
(* There is one in MainHandler and one in each LoopHandler.                *)
(***************************************************************************)
EXTENDS Naturals

CONSTANT ClockModulus       \* timestamp_t is modulo this (2^32 in the code)

ASSUME ModulusAssumption == ClockModulus \in Nat \ {0}

Times == 0 .. ClockModulus - 1

\* step()
Step(t, dt) == (t + dt) % ClockModulus

\* elapsed_since(), an unsigned difference
Elapsed(t, ts) == (t + ClockModulus - ts) % ClockModulus

\* has_expired()
HasExpired(t, ts, timeout) == Elapsed(t, ts) >= timeout
=============================================================================
