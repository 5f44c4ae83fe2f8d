--------------------------- MODULE DataloggerLease ---------------------------
(***************************************************************************)
(* What the ownership protocol of MainHandler and LoopHandler promises of  *)
(* the one DataLogger object they share: at any time it is leased to a     *)
(* single party, the main handler (0) or a loop.  Only the holder touches  *)
(* it; it goes to a loop only right after having been configured for that  *)
(* loop; and only the loop that holds it gives it back.                    *)
(***************************************************************************)
EXTENDS Naturals

CONSTANT LoopCount      \* m_loop_count: loops are numbered 1..LoopCount, 0 is the main handler

VARIABLES holder,       \* the party that may touch the DataLogger
          state,        \* DataLogger::m_state
          timebase      \* the loop whose timebase the DataLogger uses (0: none yet)

leaseVars == <<holder, state, timebase>>

LeaseLoops == 1 .. LoopCount

LeaseInit == holder = 0 /\ state = "Idle" /\ timebase = 0

\* The main handler configures the DataLogger for loop l, or resets it.
MainConfigures(l) ==
    /\ holder = 0
    /\ state' = "Configured" /\ timebase' = l
    /\ UNCHANGED holder

MainResets ==
    /\ holder = 0
    /\ state' = "Idle" /\ timebase' \in {timebase} \cup LeaseLoops
    /\ UNCHANGED holder

\* The lease passes from the main handler to the loop it was configured for.
Grant(l) ==
    /\ holder = 0 /\ state = "Configured" /\ timebase = l
    /\ holder' = l
    /\ UNCHANGED <<state, timebase>>

\* The holder runs the acquisition: whatever it does, it never deconfigures.
LoopWorks(l) ==
    /\ holder = l
    /\ state' \in {"Configured", "Armed", "Triggered", "AcquisitionCompleted", "Error"}
    /\ UNCHANGED <<holder, timebase>>

GiveBack(l) ==
    /\ holder = l
    /\ holder' = 0
    /\ UNCHANGED <<state, timebase>>

LeaseNext ==
    \/ MainResets
    \/ \E l \in LeaseLoops : \/ MainConfigures(l)
                             \/ Grant(l)
                             \/ LoopWorks(l)
                             \/ GiveBack(l)

LeaseSpec == LeaseInit /\ [][LeaseNext]_leaseVars
=============================================================================
