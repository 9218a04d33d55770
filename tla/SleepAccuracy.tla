---------------------------- MODULE SleepAccuracy ----------------------------
(***************************************************************************)
(* How exact is SYSCALL_SLEEP_MS?  Scheduler with a history variable that  *)
(* measures, for each sleep, how far the countdown in timeDelta has run    *)
(* ahead of the timer.  A tick that arrives after ForceSwitch set          *)
(* switchForced is taken for the forced interrupt and not counted; the     *)
(* interrupt ForceSwitch then raises is taken for a tick and counted, but  *)
(* only when its thread runs again, perhaps during somebody else's sleep.  *)
(***************************************************************************)
EXTENDS Scheduler, FiniteSets

VARIABLE drift      \* ticks counted minus ticks passed since a sleep began

sleepVars == <<vars, drift>>

(* How far drift is followed below zero; a sleeper may be arbitrarily late. *)
DriftFloor == -1

SleepInit == Init /\ drift = [t \in Thread |-> 0]

SleepTick ==
    /\ Tick
    /\ drift' = [t \in Thread |->
                   IF switchForced /\ Sleeping(t) /\ drift[t] > DriftFloor
                     THEN drift[t] - 1 ELSE drift[t]]

SleepForceSwitch ==
    \/ \E t \in Thread : ForceAssign(t) /\ UNCHANGED drift
    \/ \E t \in Thread :
          /\ SoftInterrupt(t)
          /\ drift' = [u \in Thread |->
                         IF ~switchForced /\ Sleeping(u) THEN drift[u] + 1 ELSE drift[u]]

(* Any system call; a new sleep is measured from its own start, and nobody  *)
(* asks for the drift of one that is over or was cut short by Unblock.      *)
SleepSyscall(t) ==
    /\ Syscall(t)
    /\ drift' = [u \in Thread |-> IF u # t /\ Sleeping(u)' THEN drift[u] ELSE 0]

SleepNext == \/ (BootStep \/ Dispatch) /\ UNCHANGED drift
             \/ SleepTick \/ SleepForceSwitch
             \/ \E t \in Thread : SleepSyscall(t)

SleepSpec == SleepInit /\ [][SleepNext]_sleepVars
-----------------------------------------------------------------------------
(* The last sleep of t is over; drift is 0 if it was cut short. *)
Woken(t) == /\ t \in Listed /\ State(t) = "Ready"
            /\ thread[t].blockedState = "SleepMS" /\ thread[t].timeDelta = 0

(* A sleep never ends more milliseconds early than there are other threads: *)
(* each of them, caught inside ForceSwitch, carries over at most one tick   *)
(* swallowed before the sleep began (scheduler.cpp:27-30,158-161).  The     *)
(* longest sleep must exceed the number of threads for this to say much.    *)
SleepErrorBounded ==
    \A t \in Thread : Sleeping(t) \/ Woken(t) =>
        drift[t] < Cardinality(Thread)
=============================================================================
