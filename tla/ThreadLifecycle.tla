--------------------------- MODULE ThreadLifecycle ---------------------------
(***************************************************************************)
(* What the scheduler promises the rest of the kernel about threads: who   *)
(* may be given the CPU and what may become of a thread, without queue,    *)
(* ticks or interrupts.  Scheduler implements it.                          *)
(***************************************************************************)
CONSTANTS Thread, NoThread

VARIABLES life,     \* "absent", "runnable", "waiting" or "dead"
          running   \* the thread that owns the CPU, or NoThread at boot

lifeVars == <<life, running>>

LifeInit == life = [t \in Thread |-> "absent"] /\ running = NoThread

Spawn(t, l) ==
    /\ life[t] = "absent" /\ l \in {"runnable", "waiting"}
    /\ life' = [life EXCEPT ![t] = l]
    /\ UNCHANGED running

(* The first thread is made and entered in one step. *)
SpawnFirst(t) ==
    /\ running = NoThread
    /\ life[t] = "absent"
    /\ life' = [life EXCEPT ![t] = "runnable"]
    /\ running' = t

(* Only the thread that owns the CPU can make itself wait. *)
Wait ==
    /\ running # NoThread /\ life[running] = "runnable"
    /\ life' = [life EXCEPT ![running] = "waiting"]
    /\ UNCHANGED running

Wake(W) ==
    /\ \A t \in W : life[t] = "waiting"
    /\ life' = [t \in Thread |-> IF t \in W THEN "runnable" ELSE life[t]]
    /\ UNCHANGED running

(* A process ends itself: its threads, the running one among them, die. *)
Die(D) ==
    /\ running \in D /\ \A t \in D : life[t] # "absent"
    /\ life' = [t \in Thread |-> IF t \in D THEN "dead" ELSE life[t]]
    /\ UNCHANGED running

(* Whoever kept a pointer to a dead thread can wake it.  Nothing else can. *)
Revive(t) ==
    /\ life[t] = "dead" /\ t # running
    /\ life' = [life EXCEPT ![t] = "runnable"]
    /\ UNCHANGED running

(* A dead thread's memory is reused only after it lost the CPU. *)
Reclaim(t) ==
    /\ life[t] = "dead" /\ t # running
    /\ life' = [life EXCEPT ![t] = "absent"]
    /\ UNCHANGED running

SwitchCPU(t) ==
    /\ life[t] = "runnable"
    /\ running' = t
    /\ life' = [u \in Thread |-> IF u = running /\ life[u] = "dead"
                                   THEN "absent" ELSE life[u]]

LifeNext ==
    \/ Wait
    \/ \E t \in Thread : SpawnFirst(t) \/ Revive(t) \/ Reclaim(t) \/ SwitchCPU(t)
    \/ \E t \in Thread, l \in {"runnable", "waiting"} : Spawn(t, l)
    \/ \E W \in SUBSET Thread : Wake(W) \/ Die(W)

LifeSpec == LifeInit /\ [][LifeNext]_lifeVars
=============================================================================
