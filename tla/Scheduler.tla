------------------------------ MODULE Scheduler ------------------------------
(***************************************************************************)
(* The pre-emptive round-robin scheduler of libcx/kernelcc                 *)
(* (src/system/tasking/scheduler.cpp) with the system calls that drive it. *)
(*                                                                         *)
(* There is one CPU.  The code of the current thread advances one          *)
(* statement at a time and interrupt 0x20 may arrive between any two of    *)
(* them: a system call runs with interrupts enabled (syscalls.cpp:20).     *)
(* Interrupt 0x20 has two sources, the 1000 Hz timer (Tick) and the `int`  *)
(* instruction at the end of ForceSwitch (SoftInterrupt), and one handler, *)
(* HandleInterrupt, which runs with interrupts disabled.                   *)
(***************************************************************************)
EXTENDS Integers, Sequences, SequencesExt

CONSTANTS
    Thread,         \* addresses the kernel heap hands out for Thread objects
    Process,        \* addresses it hands out for Process objects
    KernelProcess, IdleThread,      \* made once at boot, never removed
    InitProcess, InitThread,        \* the first user process
    NoThread,       \* the null pointer
    frequency,      \* SCHEDULER_FREQUENCY: timer ticks per time slice
    MaxSleep        \* bound: longest sleep a thread asks for

ASSUME ConstantsAssumption ==
    /\ IdleThread \in Thread /\ InitThread \in Thread
    /\ IdleThread # InitThread /\ NoThread \notin Thread
    /\ KernelProcess \in Process /\ InitProcess \in Process
    /\ KernelProcess # InitProcess
    /\ frequency \in Nat \ {0}
    /\ MaxSleep \in Nat

VARIABLES
    tickCount, switchForced, Enabled, threadsList, currentThread,
    thread,         \* the fields of the Thread object at each address
    Processes,      \* ProcessHelper::Processes
    pc,             \* next kernel statement of a thread, "run" in user code
    isr,            \* "off", or "switch" inside the switch of HandleInterrupt
    boot,           \* progress of kernelMain
    panicked,       \* System::Panic was called
    ran,            \* history: the thread has been dispatched before
    revived         \* history: removed with its process, made Ready since

schedVars == <<tickCount, switchForced, Enabled>>
vars == <<schedVars, threadsList, currentThread, thread, Processes, pc, isr,
          boot, panicked, ran, revived>>

ForceStatement == {"switchForced", "Enabled", "tickCount", "int"}

(* The scheduler tells SleepMS from the other reasons to block, "Unkown" *)
(* here, only.                                                           *)
ThreadObject ==
    [state        : {"Blocked", "Ready", "Stopped", "Started", "Free"},
     blockedState : {"SleepMS", "Unkown"},
     timeDelta    : Nat,
     parent       : Process]

(* An address that holds no Thread; nothing reads the other fields. *)
Free == [state |-> "Free", blockedState |-> "Unkown", timeDelta |-> 0,
         parent |-> KernelProcess]

Listed == ToSet(threadsList)
State(t) == thread[t].state
IsUserspace(t) == thread[t].parent # KernelProcess

(***************************************************************************)
(* kernelMain: the scheduler is constructed disabled, the idle thread is   *)
(* added, then either the init process is entered directly or, without a   *)
(* boot partition, the idle thread is forced in.                           *)
(***************************************************************************)
Init ==
    /\ tickCount = 0 /\ switchForced = FALSE /\ Enabled = FALSE
    /\ threadsList = <<>> /\ currentThread = NoThread
    /\ thread = [t \in Thread |-> Free]
    /\ Processes = {}
    /\ pc = [t \in Thread |-> "run"]
    /\ isr = "off" /\ boot = "start" /\ panicked = FALSE
    /\ ran = [t \in Thread |-> FALSE] /\ revived = {}

(* CreateFromFunction at a free address for process p, then AddThread; the *)
(* caller leaves the new thread in state s.                                *)
NewThread(t, p, s) ==
    /\ State(t) = "Free"
    /\ thread' = [thread EXCEPT ![t] = [Free EXCEPT !.state = s, !.parent = p]]
    /\ threadsList' = Append(threadsList, t)

BootIdle ==
    /\ boot = "start" /\ isr = "off"
    /\ boot' = "idle"
    /\ Processes' = {KernelProcess}
    /\ NewThread(IdleThread, KernelProcess, "Ready")
    /\ UNCHANGED <<schedVars, currentThread, pc, isr, panicked, ran, revived>>

(* AddThread(thread, true) for init.bin ends in InitialThreadUserJump. *)
BootInit ==
    /\ boot = "idle" /\ isr = "off"
    /\ boot' = "done"
    /\ Processes' = Processes \cup {InitProcess}
    /\ NewThread(InitThread, InitProcess, "Ready")
    /\ currentThread' = InitThread
    /\ Enabled' = TRUE
    /\ ran' = [ran EXCEPT ![InitThread] = TRUE]
    /\ UNCHANGED <<tickCount, switchForced, pc, isr, panicked, revived>>

(* No boot partition: ForceSwitch from kernelMain, which is never resumed. *)
BootNoDisk ==
    /\ boot = "idle" /\ isr = "off"
    /\ boot' = "done"
    /\ switchForced' = FALSE /\ Enabled' = TRUE /\ tickCount' = 0
    /\ isr' = "switch"
    /\ UNCHANGED <<threadsList, currentThread, thread, Processes, pc, panicked, ran, revived>>

(***************************************************************************)
(* HandleInterrupt.  The first part counts the tick, lets sleeping threads *)
(* advance unless the interrupt counts as forced, and decides whether the  *)
(* time slice is over.                                                     *)
(***************************************************************************)
(* Mutant: the counter of a sleep that is over goes on counting down. *)
SleepingUnderflow(t) ==
    /\ t \in Listed
    /\ State(t) = "Blocked" /\ thread[t].blockedState = "SleepMS"

Sleeping(t) ==
    /\ t \in Listed
    /\ State(t) = "Blocked" /\ thread[t].blockedState = "SleepMS"
    /\ thread[t].timeDelta > 0

ProcessSleepingThreads ==
    thread' = [t \in Thread |->
        IF Sleeping(t)
          THEN [thread[t] EXCEPT
                  !.timeDelta = @ - 1,
                  !.state = IF thread[t].timeDelta = 1 THEN "Ready" ELSE @]
          ELSE thread[t]]

(* Mutant: switchForced is never cleared. *)
CountTickKeepForced ==
    /\ tickCount' = IF tickCount + 1 = frequency THEN 0 ELSE tickCount + 1
    /\ IF switchForced THEN UNCHANGED thread ELSE ProcessSleepingThreads
    /\ isr' = IF tickCount + 1 = frequency /\ threadsList # <<>> /\ Enabled
                THEN "switch" ELSE "off"
    /\ UNCHANGED <<switchForced, Enabled, threadsList, currentThread, Processes,
                   boot, panicked, ran, revived>>

CountTick ==
    /\ tickCount' = IF tickCount + 1 = frequency THEN 0 ELSE tickCount + 1
    /\ switchForced' = FALSE
    /\ IF switchForced THEN UNCHANGED thread ELSE ProcessSleepingThreads
    /\ isr' = IF tickCount + 1 = frequency /\ threadsList # <<>> /\ Enabled
                THEN "switch" ELSE "off"
    /\ UNCHANGED <<Enabled, threadsList, currentThread, Processes, boot, panicked, ran, revived>>

(* The timer raised interrupt 0x20 one millisecond after the last time. *)
Tick ==
    /\ isr = "off" /\ ~panicked
    /\ CountTick
    /\ UNCHANGED pc

(* List::IndexOf counted from 1: 0 stands for the code's -1. *)
IndexOf(t) ==
    IF t \in Listed THEN CHOOSE i \in DOMAIN threadsList : threadsList[i] = t
                    ELSE 0

(* Mutant: the search starts at the current thread, not after it. *)
FirstProbeAtCurrent ==
    LET i == IF currentThread # NoThread THEN IndexOf(currentThread) ELSE 1
    IN  IF i > Len(threadsList) THEN 1 ELSE i

(* Mutant: the search always starts at the head of the queue. *)
FirstProbeAtHead == 1

FirstProbe ==
    LET i == 1 + (IF currentThread # NoThread THEN IndexOf(currentThread) ELSE 1)
    IN  IF i > Len(threadsList) THEN 1 ELSE i

(* The probes the loop of GetNextReadyThread makes before it looks at i. *)
ProbesBefore(i) ==
    IF i >= FirstProbe THEN i - FirstProbe ELSE i - FirstProbe + Len(threadsList)

(* Mutant: the next thread in turn, blocked or not. *)
IsNextInTurn(i) == i \in DOMAIN threadsList /\ ProbesBefore(i) = 0

(***************************************************************************)
(* GetNextReadyThread returns threadsList[i]: the first thread, in cyclic  *)
(* order after the current one, that is not blocked.  With every thread    *)
(* blocked the code spins for ever; the model then has no next step.       *)
(***************************************************************************)
IsNextReady(i) ==
    /\ i \in DOMAIN threadsList
    /\ State(threadsList[i]) # "Blocked"
    /\ \A j \in DOMAIN threadsList :
          ProbesBefore(j) < ProbesBefore(i) => State(threadsList[j]) = "Blocked"

(* threadsList.Remove(t); delete t *)
Delete(t) ==
    /\ threadsList' = IF t \in Listed THEN RemoveAt(threadsList, IndexOf(t))
                                      ELSE threadsList
    /\ pc' = [pc EXCEPT ![t] = "run"]
    /\ revived' = revived \ {t}

(* One turn of the loop that removes stopped threads in front of the queue. *)
RemoveStopped(i) ==
    /\ isr = "switch" /\ IsNextReady(i)
    /\ State(threadsList[i]) = "Stopped"
    /\ Delete(threadsList[i])
    /\ thread' = [thread EXCEPT ![threadsList[i]] = Free]
    /\ ran' = [ran EXCEPT ![threadsList[i]] = FALSE]
    /\ UNCHANGED <<schedVars, currentThread, Processes, isr, boot, panicked>>

CurrentStopped == currentThread # NoThread /\ State(currentThread) = "Stopped"

(* A Started user thread is entered in user mode at its saved instruction   *)
(* pointer.                                                                 *)
Fresh(t) == State(t) = "Started" /\ IsUserspace(t)

(***************************************************************************)
(* Whether the first instruction of t faults, and the handler panics.  It  *)
(* does for a Ready user thread that was never entered, whose saved        *)
(* registers have no stack segment, and for a Started one inside the       *)
(* kernel, whose code user mode may not fetch.  A Started thread that gave *)
(* the CPU away inside its last call is in the kernel, too; one that was   *)
(* pre-empted is not.  A thread that was removed with its process would    *)
(* run on a freed stack and freed pages; the model ends there as well.     *)
(***************************************************************************)
FaultsAtEntry(t) ==
    CASE \/ t \in revived
         \/ State(t) = "Ready" /\ IsUserspace(t) /\ ~ran[t]
         \/ Fresh(t) /\ pc[t] # "run" -> {TRUE}
      [] OTHER -> {FALSE} \cup {Fresh(t) /\ ran[t]}

(* The current thread is removed if it stopped and its registers are saved  *)
(* if not; then threadsList[i] runs.                                        *)
SwitchTo(i) ==
    LET next  == threadsList[i]
        fresh == Fresh(next)
        after(t) == IF CurrentStopped /\ t = currentThread THEN Free
                    ELSE IF fresh /\ t = next THEN [thread[t] EXCEPT !.state = "Ready"]
                    ELSE thread[t]
    IN
    /\ isr = "switch" /\ IsNextReady(i)
    /\ State(next) # "Stopped"
    /\ IF CurrentStopped THEN Delete(currentThread)
                         ELSE UNCHANGED <<threadsList, pc, revived>>
    /\ thread' = [t \in Thread |-> after(t)]
    /\ ran' = [t \in Thread |-> IF CurrentStopped /\ t = currentThread THEN FALSE
                                ELSE ran[t] \/ t = next]
    /\ currentThread' = next
    /\ Enabled' = (Enabled \/ fresh)
    /\ panicked' \in FaultsAtEntry(next)
    /\ isr' = "off"
    /\ UNCHANGED <<tickCount, switchForced, Processes, boot>>

(***************************************************************************)
(* The code of the current thread: ForceSwitch, statement by statement.    *)
(***************************************************************************)
Running(t) == isr = "off" /\ ~panicked /\ currentThread = t
InUser(t) == Running(t) /\ pc[t] = "run"
Enter(t, stmt) == pc' = [pc EXCEPT ![t] = stmt]

(* Mutant: ForceSwitch does not enable the scheduler. *)
ForceAssignNoEnable(t) ==
    /\ Running(t)
    /\ \/ /\ pc[t] = "switchForced" /\ Enter(t, "tickCount")
          /\ switchForced' = TRUE /\ UNCHANGED tickCount
       \/ /\ pc[t] = "tickCount" /\ Enter(t, "int")
          /\ tickCount' = frequency - 1 /\ UNCHANGED switchForced
    /\ UNCHANGED <<Enabled, threadsList, currentThread, thread, Processes, isr,
                   boot, panicked, ran, revived>>

(* Mutant: ForceSwitch does not announce its interrupt as forced. *)
ForceAssignUnannounced(t) ==
    /\ Running(t)
    /\ \/ /\ pc[t] = "switchForced" /\ Enter(t, "tickCount")
          /\ Enabled' = TRUE /\ UNCHANGED tickCount
       \/ /\ pc[t] = "tickCount" /\ Enter(t, "int")
          /\ tickCount' = frequency - 1 /\ UNCHANGED Enabled
    /\ UNCHANGED <<switchForced, threadsList, currentThread, thread, Processes, isr,
                   boot, panicked, ran, revived>>

ForceAssign(t) ==
    /\ Running(t)
    /\ \/ /\ pc[t] = "switchForced" /\ Enter(t, "Enabled")
          /\ switchForced' = TRUE /\ UNCHANGED <<Enabled, tickCount>>
       \/ /\ pc[t] = "Enabled" /\ Enter(t, "tickCount")
          /\ Enabled' = TRUE /\ UNCHANGED <<switchForced, tickCount>>
       \/ /\ pc[t] = "tickCount" /\ Enter(t, "int")
          /\ tickCount' = frequency - 1 /\ UNCHANGED <<switchForced, Enabled>>
    /\ UNCHANGED <<threadsList, currentThread, thread, Processes, isr, boot,
                   panicked, ran, revived>>

(* int $0x20: the handler cannot tell it from a timer tick. *)
SoftInterrupt(t) ==
    /\ Running(t) /\ pc[t] = "int" /\ Enter(t, "run")
    /\ CountTick

(***************************************************************************)
(* The system calls of a user thread.  Yield is also the idle thread's     *)
(* loop and the busy wait of a thread that reads its standard input.       *)
(***************************************************************************)
(* Mutant: the idle thread makes system calls, too. *)
CallerOrIdle(t) == InUser(t)

Caller(t) == InUser(t) /\ t # IdleThread

Yield(t) ==
    /\ InUser(t) /\ Enter(t, "switchForced")
    /\ UNCHANGED <<schedVars, threadsList, currentThread, thread, Processes,
                   isr, boot, panicked, ran, revived>>

(* The Threads list of process p. *)
ThreadsOf(p) ==
    {u \in Thread : /\ State(u) \notin {"Free", "Stopped"} /\ u \notin revived
                    /\ thread[u].parent = p}

(* Block(CurrentThread(), reason), up to its call of ForceSwitch. *)
Block(t, reason, delta) ==
    /\ thread' = [thread EXCEPT ![t] =
                    [@ EXCEPT !.state = "Blocked", !.blockedState = reason,
                              !.timeDelta = delta]]
    /\ Enter(t, "switchForced")
    /\ UNCHANGED <<schedVars, threadsList, currentThread, Processes, isr, boot,
                   panicked, ran, revived>>

SleepMS(t, ms) == Caller(t) /\ Block(t, "SleepMS", ms)

(* HandleReceive and BeginListing block their caller until Unblock. *)
WaitEvent(t) == Caller(t) /\ Block(t, "Unkown", thread[t].timeDelta)

(* thread->state = s.  Why the thread was blocked and what is left of a     *)
(* sleep this cuts short are never read again: scheduler.cpp:197 looks at   *)
(* them in blocked threads only, and whoever blocks a thread stores its     *)
(* own.  The model forgets them.                                            *)
SetState(t, s) ==
    /\ thread' = [thread EXCEPT ![t] = [@ EXCEPT !.state = s, !.timeDelta = 0,
                                                !.blockedState = "Unkown"]]
    /\ UNCHANGED <<schedVars, threadsList, currentThread, Processes, pc, isr,
                   boot, panicked, ran>>

(* Unblock(thread) from HandleSend or EndListing stores Ready, whatever the *)
(* thread is doing.  waitingQueue keeps its pointers for ever and so do the *)
(* descriptors of processes that ended, and a new Thread may lie at an old  *)
(* address: it may be any thread but the idle one, which never waits.       *)
Unblock(t, u) ==
    /\ Caller(t)
    /\ u \in Listed \ {IdleThread}
    /\ SetState(u, "Ready")
    /\ revived' = IF State(u) = "Stopped" THEN revived \cup {u} ELSE revived

(* SYSCALL_UNBLOCK names a thread in the Threads list of a live process and *)
(* stores Started.                                                          *)
SyscallUnblock(t, u) ==
    /\ Caller(t)
    /\ u \in ThreadsOf(thread[u].parent) /\ thread[u].parent \in Processes
    /\ SetState(u, "Started")
    /\ UNCHANGED revived

(* SYSCALL_RUN_PROC: a process with one thread, blocked if so requested.    *)
(* No interrupt sees the new thread before AddThread.  A file that is       *)
(* missing or not executable changes nothing; the interrupts that Create    *)
(* then leaves off (process.cpp:38-49) the iret of the call turns on.       *)
RunProc(t, p, u, block) ==
    /\ Caller(t)
    /\ p \notin Processes
    /\ Processes' = Processes \cup {p}
    /\ NewThread(u, p, IF block THEN "Blocked" ELSE "Started")
    /\ UNCHANGED <<schedVars, currentThread, pc, isr, boot, panicked, ran, revived>>

(* SYSCALL_START_THREAD: one more thread for the caller's process. *)
StartThread(t, u, force) ==
    /\ Caller(t)
    /\ NewThread(u, thread[t].parent, "Started")
    /\ Enter(t, IF force THEN "switchForced" ELSE "run")
    /\ UNCHANGED <<schedVars, currentThread, Processes, isr, boot, panicked, ran, revived>>

SetScheduler(t, active) ==
    /\ Caller(t)
    /\ Enabled' = active
    /\ UNCHANGED <<tickCount, switchForced, threadsList, currentThread, thread,
                   Processes, pc, isr, boot, panicked, ran, revived>>

StopThreads(p) ==
    thread' = [u \in Thread |->
                 IF u \in ThreadsOf(p)
                   THEN [thread[u] EXCEPT !.state = "Stopped"] ELSE thread[u]]

(* SYSCALL_EXIT: RemoveProcess stops every thread of the caller's process   *)
(* with interrupts off; only then, with interrupts on again, ForceSwitch.   *)
Exit(t) ==
    LET p == thread[t].parent IN
    /\ Caller(t)
    /\ Processes' = Processes \ {p}
    /\ StopThreads(p)
    /\ Enter(t, "switchForced")
    /\ UNCHANGED <<schedVars, threadsList, currentThread, isr, boot, panicked, ran, revived>>

Syscall(t) ==
    \/ Yield(t)
    \/ \E ms \in 0..MaxSleep : SleepMS(t, ms)
    \/ WaitEvent(t)
    \/ \E u \in Thread : Unblock(t, u) \/ SyscallUnblock(t, u)
    \/ \E p \in Process, u \in Thread, block \in BOOLEAN : RunProc(t, p, u, block)
    \/ \E u \in Thread, force \in BOOLEAN : StartThread(t, u, force)
    \/ \E active \in BOOLEAN : SetScheduler(t, active)
    \/ Exit(t)

BootStep == BootIdle \/ BootInit \/ BootNoDisk

Dispatch == \E i \in DOMAIN threadsList : RemoveStopped(i) \/ SwitchTo(i)

ForceSwitch == \E t \in Thread : ForceAssign(t) \/ SoftInterrupt(t)

Next == BootStep \/ Tick \/ Dispatch \/ ForceSwitch \/ \E t \in Thread : Syscall(t)

Spec == Init /\ [][Next]_vars

(* The CPU keeps executing kernel code and the idle thread, which never     *)
(* waits, keeps running its loop.  The timer keeps ticking, and the         *)
(* interrupt controller latches a tick that comes while interrupts are off: *)
(* it is delivered as soon as they are on, so strong fairness.              *)
Fairness == /\ WF_vars(BootStep) /\ SF_vars(Tick) /\ WF_vars(Dispatch)
            /\ WF_vars(ForceSwitch) /\ WF_vars(Yield(IdleThread))

FairSpec == Spec /\ Fairness
-----------------------------------------------------------------------------
TypeOK ==
    /\ tickCount \in 0..(frequency - 1)
    /\ switchForced \in BOOLEAN /\ Enabled \in BOOLEAN
    /\ threadsList \in Seq(Thread)
    /\ currentThread \in Thread \cup {NoThread}
    /\ thread \in [Thread -> ThreadObject]
    /\ Processes \subseteq Process
    /\ pc \in [Thread -> {"run"} \cup ForceStatement]
    /\ isr \in {"off", "switch"}
    /\ boot \in {"start", "idle", "done"}
    /\ panicked \in BOOLEAN
    /\ ran \in [Thread -> BOOLEAN] /\ revived \subseteq Thread

(* The kernel never works on a Thread it deleted: the queue holds exactly   *)
(* the allocated threads, each once, and the current thread is one of them. *)
(* HandleInterrupt deletes threads while it still uses currentThread.       *)
NoDanglingThread ==
    /\ \A t \in Thread : t \in Listed <=> State(t) # "Free"
    /\ \A i, j \in DOMAIN threadsList : threadsList[i] = threadsList[j] => i = j
    /\ currentThread # NoThread => currentThread \in Listed

(* The search of GetNextReadyThread and the removal loop around it end:     *)
(* whenever HandleInterrupt switches, some thread is neither blocked nor    *)
(* stopped.                                                                 *)
RunnableExists ==
    isr = "switch" =>
        \E i \in DOMAIN threadsList : State(threadsList[i]) \notin {"Blocked", "Stopped"}

(* A thread that blocked or stopped itself does not get back to user code   *)
(* before somebody stores another state: although a timer tick may come     *)
(* between any two statements of ForceSwitch and the scheduler may have     *)
(* been disabled, its ForceSwitch does give the CPU away.                   *)
WaiterDoesNotReturn ==
    \A t \in Thread : InUser(t) => State(t) \notin {"Blocked", "Stopped", "Free"}

(* Round robin starves nobody: a ready thread runs, unless its process is   *)
(* removed first or the system panics, as long as nobody keeps the          *)
(* scheduler disabled.                                                      *)
ReadyRuns ==
    <>[]Enabled =>
        \A t \in Thread : State(t) = "Ready" ~>
            (currentThread = t \/ State(t) \in {"Stopped", "Free"} \/ panicked)

(* Every thread RemoveProcess stopped is deleted in the end, unless a late  *)
(* Unblock revives it first or the system panics.  (The idle thread neither *)
(* stops nor sleeps.)                                                       *)
StoppedReclaimed ==
    <>[]Enabled =>
        \A t \in Thread \ {IdleThread} :
            State(t) = "Stopped" ~> (State(t) = "Free" \/ t \in revived \/ panicked)

(* A sleep of at least one millisecond ends, unless the system panics,      *)
(* although ticks that arrive while a switch is being forced are not        *)
(* counted (scheduler.cpp:27).                                              *)
SleeperWakes ==
    \A t \in Thread \ {IdleThread} : Sleeping(t) ~> (~Sleeping(t) \/ panicked)

-----------------------------------------------------------------------------
(* The life of a thread as ThreadLifecycle sees it. *)
LifeOf(s) == CASE s = "Free" -> "absent"
               [] s = "Blocked" -> "waiting"
               [] s = "Stopped" -> "dead"
               [] s \in {"Ready", "Started"} -> "runnable"

Abstract == INSTANCE ThreadLifecycle
              WITH life <- [t \in Thread |-> LifeOf(State(t))], running <- currentThread

(* The scheduler implements ThreadLifecycle: every interrupt, system call   *)
(* and switch is one of its steps or changes nothing it can see.            *)
ImplementsLifecycle == Abstract!LifeSpec
=============================================================================
