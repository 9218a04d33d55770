--------------------------- MODULE SchedulerProofs ---------------------------
(***************************************************************************)
(* Proofs about Scheduler and SleepAccuracy, for any number of threads and *)
(* processes, any length of a time slice and any sleep times: the          *)
(* inductive invariant and what it implies, that Scheduler implements      *)
(* ThreadLifecycle, and how exact a sleep is.                              *)
(***************************************************************************)
EXTENDS SleepAccuracy, FiniteSetTheorems, TLAPS

(* Zenon proves the steps that name no prover. *)
USE Zenon
-----------------------------------------------------------------------------
(***************************************************************************)
(* Sequences.                                                              *)
(***************************************************************************)
LEMMA SeqItems ==
  ASSUME NEW S, NEW s \in Seq(S)
  PROVE  /\ Len(s) \in Nat /\ DOMAIN s = 1..Len(s) /\ \A i \in 1..Len(s) : s[i] \in S
         /\ s # <<>> => Len(s) >= 1 /\ Head(s) = s[1]
BY SMT

LEMMA AppendItems ==
  ASSUME NEW S, NEW s \in Seq(S), NEW x \in S
  PROVE  /\ Append(s, x) \in Seq(S) /\ Len(Append(s, x)) = Len(s) + 1
         /\ \A i \in 1..Len(s) : Append(s, x)[i] = s[i]
         /\ Append(s, x)[Len(s) + 1] = x
BY SMT

LEMMA ConcatItems ==
  ASSUME NEW S, NEW a \in Seq(S), NEW b \in Seq(S)
  PROVE  /\ a \o b \in Seq(S) /\ Len(a \o b) = Len(a) + Len(b)
         /\ \A i \in 1..(Len(a) + Len(b)) :
              (a \o b)[i] = IF i <= Len(a) THEN a[i] ELSE b[i - Len(a)]
BY SMT

LEMMA ItemsBefore ==
  ASSUME NEW S, NEW s \in Seq(S), NEW i \in 1..Len(s)
  PROVE  /\ SubSeq(s, 1, i - 1) \in Seq(S) /\ Len(SubSeq(s, 1, i - 1)) = i - 1
         /\ \A k \in 1..(i - 1) : SubSeq(s, 1, i - 1)[k] = s[k]
BY SMT

LEMMA ItemsBehind ==
  ASSUME NEW S, NEW s \in Seq(S), NEW i \in 1..Len(s)
  PROVE  /\ SubSeq(s, i + 1, Len(s)) \in Seq(S) /\ Len(SubSeq(s, i + 1, Len(s))) = Len(s) - i
         /\ \A k \in 1..(Len(s) - i) : SubSeq(s, i + 1, Len(s))[k] = s[i + k]
BY SMT

(* RemoveAt drops one element and keeps the others in their order. *)
LEMMA RemoveAtItems ==
  ASSUME NEW S, NEW s \in Seq(S), NEW i \in 1..Len(s)
  PROVE  /\ RemoveAt(s, i) \in Seq(S)
         /\ Len(RemoveAt(s, i)) = Len(s) - 1
         /\ \A k \in 1..(Len(s) - 1) :
               RemoveAt(s, i)[k] = IF k < i THEN s[k] ELSE s[k + 1]
<1>1. Len(s) \in Nat /\ i \in Int
  BY SMT
<1>2. PICK a : a = SubSeq(s, 1, i - 1)
  OBVIOUS
<1>3. PICK b : b = SubSeq(s, i + 1, Len(s))
  OBVIOUS
<1>4. a \in Seq(S) /\ Len(a) = i - 1 /\ \A k \in 1..(i - 1) : a[k] = s[k]
  BY <1>2, ItemsBefore
<1>5. b \in Seq(S) /\ Len(b) = Len(s) - i /\ \A k \in 1..(Len(s) - i) : b[k] = s[i + k]
  BY <1>3, ItemsBehind
<1>6. /\ a \o b \in Seq(S) /\ Len(a \o b) = Len(a) + Len(b)
      /\ \A k \in 1..(Len(a) + Len(b)) :
            (a \o b)[k] = IF k <= Len(a) THEN a[k] ELSE b[k - Len(a)]
  BY <1>4, <1>5, ConcatItems
<1>7. /\ (i - 1) + (Len(s) - i) = Len(s) - 1
      /\ \A k \in 1..(Len(s) - 1) :
            /\ k <= i - 1 <=> k < i
            /\ k < i => k \in 1..(i - 1)
            /\ ~(k < i) => k - (i - 1) \in 1..(Len(s) - i) /\ i + (k - (i - 1)) = k + 1
  BY <1>1, SMT
<1>8. a \o b \in Seq(S) /\ Len(a \o b) = Len(s) - 1
  BY <1>4, <1>5, <1>6, <1>7
<1>9. ASSUME NEW k \in 1..(Len(s) - 1)
      PROVE  (a \o b)[k] = IF k < i THEN s[k] ELSE s[k + 1]
  <2>1. (a \o b)[k] = IF k < i THEN a[k] ELSE b[k - (i - 1)]
    BY <1>4, <1>5, <1>6, <1>7
  <2> QED
    BY <1>4, <1>5, <1>7, <2>1
<1> QED
  BY <1>2, <1>3, <1>8, <1>9 DEF RemoveAt
-----------------------------------------------------------------------------
(***************************************************************************)
(* The inductive invariant.                                                *)
(***************************************************************************)
(* The idle thread can always run: nobody blocks it and, being the only     *)
(* thread of the kernel process, nobody stops it.                           *)
IdleAlive ==
    /\ boot # "start" => /\ State(IdleThread) \in {"Ready", "Started"}
                         /\ thread[IdleThread].parent = KernelProcess
                         /\ KernelProcess \in Processes
    /\ \A t \in Thread : t # IdleThread /\ State(t) # "Free" => IsUserspace(t)

(* Before kernelMain hands over, timer ticks switch nothing. *)
BootQuiet ==
    /\ boot # "done" => ~Enabled /\ currentThread = NoThread /\ isr = "off" /\ revived = {}
    /\ boot = "start" => Processes = {} /\ \A t \in Thread : State(t) = "Free"

(* A current thread that blocked or stopped itself is inside ForceSwitch,   *)
(* and what ForceSwitch stored is still there when `int` is executed.       *)
WaiterIsLeaving ==
    \A t \in Thread :
        isr = "off" /\ currentThread = t /\ State(t) \in {"Blocked", "Stopped"} =>
            /\ pc[t] \in ForceStatement
            /\ pc[t] \in {"tickCount", "int"} => Enabled
            /\ pc[t] = "int" => tickCount = frequency - 1

(* A thread that outlives its process is stopped (RemoveThread), unless an  *)
(* Unblock that still had its address revived it; and a revived thread is   *)
(* not followed beyond the switch to it.                                    *)
OrphansAreStopped ==
    /\ \A t \in Listed : State(t) # "Stopped" => thread[t].parent \in Processes \/ t \in revived
    /\ currentThread \in revived => panicked

IInv == /\ TypeOK /\ NoDanglingThread /\ OrphansAreStopped
        /\ IdleAlive /\ BootQuiet /\ WaiterIsLeaving
-----------------------------------------------------------------------------
(* The queue as a set. *)
LEMMA ListedElements ==
  ASSUME TypeOK
  PROVE  /\ DOMAIN threadsList = 1..Len(threadsList) /\ Len(threadsList) \in Nat
         /\ \A i \in DOMAIN threadsList : threadsList[i] \in Listed
         /\ \A t \in Listed : \E i \in DOMAIN threadsList : threadsList[i] = t
         /\ Listed \subseteq Thread
<1>1. threadsList \in Seq(Thread)
  BY DEF TypeOK
<1>2. DOMAIN threadsList = 1..Len(threadsList) /\ Len(threadsList) \in Nat
  BY <1>1, SeqItems
<1>3. \A i \in 1..Len(threadsList) : threadsList[i] \in Thread
  BY <1>1, SeqItems
<1> QED
  BY <1>2, <1>3 DEF Listed, ToSet

(* AddThread puts a new thread at the end of the queue. *)
LEMMA NewThreadListed ==
  ASSUME TypeOK, NoDanglingThread,
         NEW t \in Thread, NEW p \in Process, NEW s \in {"Ready", "Started", "Blocked"},
         NewThread(t, p, s)
  PROVE  /\ threadsList' \in Seq(Thread) /\ thread' \in [Thread -> ThreadObject]
         /\ Listed' = Listed \cup {t}
         /\ \A i, j \in DOMAIN threadsList' : threadsList'[i] = threadsList'[j] => i = j
         /\ State(t) = "Free" /\ State(t)' = s /\ thread'[t].parent = p
         /\ \A u \in Thread \ {t} : thread'[u] = thread[u]
<1>1. /\ threadsList \in Seq(Thread) /\ thread \in [Thread -> ThreadObject]
      /\ threadsList' = Append(threadsList, t)
      /\ State(t) = "Free"
  BY DEF TypeOK, NewThread
<1>2. /\ Free \in ThreadObject
      /\ [Free EXCEPT !.state = s, !.parent = p] \in ThreadObject
      /\ [Free EXCEPT !.state = s, !.parent = p].state = s
      /\ [Free EXCEPT !.state = s, !.parent = p].parent = p
  BY ConstantsAssumption DEF Free, ThreadObject
<1>3. /\ thread' \in [Thread -> ThreadObject]
      /\ State(t)' = s /\ thread'[t].parent = p
      /\ \A u \in Thread \ {t} : thread'[u] = thread[u]
  BY <1>1, <1>2 DEF NewThread, State
<1>4. /\ threadsList' \in Seq(Thread)
      /\ Len(threadsList') = Len(threadsList) + 1
      /\ \A i \in 1..Len(threadsList) : threadsList'[i] = threadsList[i]
      /\ threadsList'[Len(threadsList) + 1] = t
      /\ DOMAIN threadsList' = 1..(Len(threadsList) + 1)
  BY <1>1, AppendItems, SeqItems, SMT
<1>5. /\ DOMAIN threadsList = 1..Len(threadsList) /\ Len(threadsList) \in Nat
  BY ListedElements
<1>6. Listed' = Listed \cup {t}
  BY <1>4, <1>5, SMT DEF Listed, ToSet
<1>7. t \notin Listed
  BY <1>1 DEF NoDanglingThread
<1>8. \A i \in DOMAIN threadsList : threadsList[i] # t
  BY <1>7, ListedElements
<1>9. \A i, j \in DOMAIN threadsList' : threadsList'[i] = threadsList'[j] => i = j
  BY <1>4, <1>5, <1>8, SMT DEF NoDanglingThread
<1> QED
  BY <1>1, <1>3, <1>4, <1>6, <1>9

(* threadsList.Remove(t) takes exactly t out of the queue. *)
LEMMA DeleteListed ==
  ASSUME TypeOK, NoDanglingThread, NEW t \in Listed, Delete(t)
  PROVE  /\ threadsList' \in Seq(Thread)
         /\ Listed' = Listed \ {t}
         /\ \A i, j \in DOMAIN threadsList' : threadsList'[i] = threadsList'[j] => i = j
         /\ pc' = [pc EXCEPT ![t] = "run"] /\ revived' = revived \ {t}
<1> DEFINE n == Len(threadsList)
           k == IndexOf(t)
<1>1. /\ k \in DOMAIN threadsList /\ threadsList[k] = t
  BY ListedElements DEF IndexOf
<1>2. /\ threadsList' = RemoveAt(threadsList, k) /\ pc' = [pc EXCEPT ![t] = "run"]
      /\ revived' = revived \ {t}
  BY DEF Delete
<1>3. threadsList \in Seq(Thread) /\ n \in Nat /\ DOMAIN threadsList = 1..n
  BY ListedElements DEF TypeOK
<1> HIDE DEF k
<1>4. /\ threadsList' \in Seq(Thread) /\ Len(threadsList') = n - 1
      /\ \A m \in 1..(n - 1) : threadsList'[m] = IF m < k THEN threadsList[m]
                                                ELSE threadsList[m + 1]
  BY <1>1, <1>2, <1>3, RemoveAtItems
<1>5. DOMAIN threadsList' = 1..(n - 1)
  BY <1>4, SeqItems
<1>6. \A i, j \in 1..n : threadsList[i] = threadsList[j] => i = j
  BY <1>3 DEF NoDanglingThread
<1> HIDE DEF n
<1>7. \A i, j \in 1..(n - 1) : threadsList'[i] = threadsList'[j] => i = j
  BY <1>1, <1>3, <1>4, <1>6, SMT
<1>8. Listed' = Listed \ {t}
  <2>1. ASSUME NEW m \in 1..(n - 1)
        PROVE  threadsList'[m] \in Listed \ {t}
    <3>1. CASE m < k
      <4>1. m \in 1..n /\ m # k
        BY <1>1, <1>3, <3>1, SMT
      <4> QED
        BY <1>1, <1>3, <1>4, <1>6, <3>1, <4>1, ListedElements
    <3>2. CASE ~(m < k)
      <4>1. m + 1 \in 1..n /\ m + 1 # k
        BY <1>1, <1>3, <3>2, SMT
      <4> QED
        <5>1. threadsList'[m] = threadsList[m + 1]
          BY <1>4, <3>2
        <5>2. threadsList[m + 1] # t
          BY <1>1, <1>3, <1>6, <4>1
        <5> QED
          BY <1>3, <4>1, <5>1, <5>2, ListedElements
    <3> QED
      BY <3>1, <3>2
  <2>2. ASSUME NEW u \in Listed \ {t}
        PROVE  \E m \in 1..(n - 1) : threadsList'[m] = u
    <3>1. PICK i \in 1..n : threadsList[i] = u
      BY <1>3, ListedElements
    <3>2. i # k
      BY <1>1, <3>1
    <3>3. CASE i < k
      <4>1. i \in 1..(n - 1)
        BY <1>1, <1>3, <3>3, SMT
      <4> QED
        BY <1>4, <3>1, <3>3, <4>1
    <3>4. CASE i > k
      <4>1. i - 1 \in 1..(n - 1) /\ ~(i - 1 < k) /\ (i - 1) + 1 = i
        BY <1>1, <1>3, <3>4, SMT
      <4>2. threadsList'[i - 1] = threadsList[(i - 1) + 1]
        BY <1>4, <4>1
      <4> QED
        BY <3>1, <4>1, <4>2
    <3>5. i < k \/ i > k
      BY <1>1, <1>3, <3>2, SMT
    <3> QED
      BY <3>3, <3>4, <3>5
  <2>3. Listed' = {threadsList'[m] : m \in 1..(n - 1)}
    BY <1>5 DEF Listed, ToSet
  <2> QED
    BY <2>1, <2>2, <2>3
<1> QED
  BY <1>2, <1>4, <1>5, <1>7, <1>8

(***************************************************************************)
(* The loop that removes stopped threads never removes the current thread: *)
(* GetNextReadyThread looks at the current thread last, and the idle       *)
(* thread, which is not blocked, comes before it.                          *)
(***************************************************************************)
LEMMA CurrentNotRemoved ==
  ASSUME IInv, isr = "switch", NEW i \in DOMAIN threadsList,
         IsNextReady(i), State(threadsList[i]) = "Stopped"
  PROVE  threadsList[i] # currentThread
<1>1. SUFFICES ASSUME threadsList[i] = currentThread
               PROVE  FALSE
  OBVIOUS
<1> USE ListedElements
<1>2. TypeOK /\ NoDanglingThread /\ IdleAlive /\ BootQuiet
  BY DEF IInv
<1>3. boot # "start" /\ State(IdleThread) \in {"Ready", "Started"}
  BY <1>2 DEF IdleAlive, BootQuiet
<1>4. PICK j \in DOMAIN threadsList : threadsList[j] = IdleThread
  BY <1>2, <1>3, ConstantsAssumption DEF NoDanglingThread
<1>5. j # i
  BY <1>3, <1>4
<1>6. currentThread # NoThread /\ currentThread \in Listed
  BY <1>1, <1>2, ConstantsAssumption DEF TypeOK
<1>7. IndexOf(currentThread) = i
  BY <1>1, <1>2, <1>6 DEF IndexOf, NoDanglingThread
<1>8. /\ DOMAIN threadsList = 1..Len(threadsList) /\ Len(threadsList) \in Nat
      /\ i \in Int /\ j \in Int
  BY <1>2, SMT
<1>9. FirstProbe = IF 1 + i > Len(threadsList) THEN 1 ELSE 1 + i
  BY <1>6, <1>7 DEF FirstProbe
<1>10. ProbesBefore(j) < ProbesBefore(i)
  BY <1>5, <1>8, <1>9, SMT DEF ProbesBefore
<1> QED
  BY <1>3, <1>4, <1>10 DEF IsNextReady
-----------------------------------------------------------------------------
(* A time slice has at least one tick. *)
LEMMA SliceLength ==
  frequency \in Nat /\ 0 \in 0..(frequency - 1) /\ frequency - 1 \in 0..(frequency - 1)
<1>1. frequency \in Nat /\ frequency # 0
  BY ConstantsAssumption
<1> QED
  BY <1>1, SMT

(* The invariant holds when kernelMain starts. *)
LEMMA InitIInv == Init => IInv
<1> SUFFICES ASSUME Init
             PROVE  IInv
  OBVIOUS
<1> USE ConstantsAssumption
<1>0. Free \in ThreadObject
  BY DEF Free, ThreadObject
<1>1. TypeOK
  <2>1. threadsList \in Seq(Thread) /\ thread \in [Thread -> ThreadObject]
    BY <1>0, SMT DEF Init
  <2>2. pc \in [Thread -> {"run"} \cup ForceStatement] /\ ran \in [Thread -> BOOLEAN]
    BY DEF Init
  <2> QED
    BY <2>1, <2>2, SliceLength DEF Init, TypeOK
<1>2. Listed = {}
  BY SMT DEF Init, Listed, ToSet
<1>3. \A t \in Thread : State(t) = "Free"
  BY DEF Init, State, Free
<1>4. NoDanglingThread
  BY <1>2, <1>3, SMT DEF NoDanglingThread, Init
<1> QED
  BY <1>1, <1>2, <1>3, <1>4
     DEF IInv, Init, OrphansAreStopped, IdleAlive, BootQuiet, WaiterIsLeaving

(* A step that leaves queue and current thread alone and neither allocates  *)
(* nor frees a Thread keeps the queue sound.                                *)
LEMMA SameThreads ==
  ASSUME NoDanglingThread, UNCHANGED <<threadsList, currentThread>>,
         \A t \in Thread : State(t)' = "Free" <=> State(t) = "Free"
  PROVE  NoDanglingThread' /\ Listed' = Listed
<1>1. Listed' = Listed
  BY DEF Listed
<1> QED
  BY <1>1 DEF NoDanglingThread

LEMMA BootStepIInv ==
  ASSUME IInv, BootStep
  PROVE  IInv'
<1> USE ConstantsAssumption
<1>0. TypeOK /\ NoDanglingThread /\ OrphansAreStopped /\ IdleAlive /\ BootQuiet
  BY DEF IInv
<1>1. CASE BootIdle
  <2>1. /\ threadsList' \in Seq(Thread) /\ thread' \in [Thread -> ThreadObject]
        /\ Listed' = Listed \cup {IdleThread}
        /\ \A i, j \in DOMAIN threadsList' : threadsList'[i] = threadsList'[j] => i = j
        /\ State(IdleThread)' = "Ready" /\ thread'[IdleThread].parent = KernelProcess
        /\ \A u \in Thread \ {IdleThread} : thread'[u] = thread[u]
    BY <1>0, <1>1, NewThreadListed DEF BootIdle
  <2>2. \A u \in Thread \ {IdleThread} : State(u)' = "Free" /\ State(u) = "Free"
    BY <1>0, <1>1, <2>1 DEF BootIdle, BootQuiet, State
  <2>3. Listed = {}
    BY <1>0, <1>1, ListedElements DEF BootIdle, BootQuiet, NoDanglingThread
  <2>4. TypeOK'
    BY <1>0, <1>1, <2>1 DEF BootIdle, TypeOK, schedVars
  <2>5. NoDanglingThread'
    BY <1>0, <1>1, <2>1, <2>2, <2>3 DEF BootIdle, NoDanglingThread, BootQuiet
  <2>6. OrphansAreStopped' /\ IdleAlive'
    BY <1>0, <1>1, <2>1, <2>2, <2>3 DEF BootIdle, OrphansAreStopped, IdleAlive, BootQuiet
  <2>7. BootQuiet' /\ WaiterIsLeaving'
    BY <1>0, <1>1 DEF BootIdle, BootQuiet, WaiterIsLeaving, schedVars
  <2> QED
    BY <2>4, <2>5, <2>6, <2>7 DEF IInv
<1>2. CASE BootInit
  <2>1. /\ threadsList' \in Seq(Thread) /\ thread' \in [Thread -> ThreadObject]
        /\ Listed' = Listed \cup {InitThread}
        /\ \A i, j \in DOMAIN threadsList' : threadsList'[i] = threadsList'[j] => i = j
        /\ State(InitThread)' = "Ready" /\ thread'[InitThread].parent = InitProcess
        /\ \A u \in Thread \ {InitThread} : thread'[u] = thread[u]
    BY <1>0, <1>2, NewThreadListed DEF BootInit
  <2>2. \A u \in Thread \ {InitThread} : State(u)' = State(u)
    BY <2>1 DEF State
  <2>3. TypeOK'
    BY <1>0, <1>2, <2>1 DEF BootInit, TypeOK
  <2>4. NoDanglingThread'
    BY <1>0, <1>2, <2>1, <2>2 DEF BootInit, NoDanglingThread
  <2>5. OrphansAreStopped'
    BY <1>0, <1>2, <2>1, <2>2, ListedElements DEF BootInit, OrphansAreStopped, BootQuiet
  <2>6. IdleAlive'
    BY <1>0, <1>2, <2>1, <2>2 DEF BootInit, IdleAlive, IsUserspace
  <2>7. BootQuiet' /\ WaiterIsLeaving'
    BY <1>2, <2>1 DEF BootInit, BootQuiet, WaiterIsLeaving
  <2> QED
    BY <2>3, <2>4, <2>5, <2>6, <2>7 DEF IInv
<1>3. CASE BootNoDisk
  <2>1. TypeOK'
    BY <1>0, <1>3, SliceLength DEF BootNoDisk, TypeOK
  <2>2. NoDanglingThread' /\ Listed' = Listed
    BY <1>0, <1>3, SameThreads DEF BootNoDisk, State
  <2>3. OrphansAreStopped' /\ IdleAlive' /\ BootQuiet' /\ WaiterIsLeaving'
    BY <1>0, <1>3, <2>2 DEF BootNoDisk, OrphansAreStopped, IdleAlive, BootQuiet,
       WaiterIsLeaving, State, IsUserspace
  <2> QED
    BY <2>1, <2>2, <2>3 DEF IInv
<1> QED
  BY <1>1, <1>2, <1>3 DEF BootStep

(* What one tick does to the threads: it wakes some sleepers. *)
LEMMA SleepersOnly ==
  ASSUME TypeOK, UNCHANGED thread \/ ProcessSleepingThreads
  PROVE  /\ thread' \in [Thread -> ThreadObject]
         /\ \A t \in Thread :
               /\ thread'[t].parent = thread[t].parent
               /\ State(t)' = State(t) \/ (State(t) = "Blocked" /\ State(t)' = "Ready")
<1>1. thread \in [Thread -> ThreadObject]
  BY DEF TypeOK
<1>2. CASE UNCHANGED thread
  BY <1>1, <1>2 DEF State
<1>3. CASE ProcessSleepingThreads
  <2>1. ASSUME NEW t \in Thread
        PROVE  /\ thread'[t] \in ThreadObject
               /\ thread'[t].parent = thread[t].parent
               /\ State(t)' = State(t) \/ (State(t) = "Blocked" /\ State(t)' = "Ready")
    <3>1. CASE Sleeping(t)
      <4>1. /\ thread[t] \in ThreadObject /\ thread[t].timeDelta - 1 \in Nat
            /\ thread[t].state = "Blocked"
        BY <1>1, <3>1, SMT DEF Sleeping, State, ThreadObject
      <4>2. PICK s \in {"Ready", "Blocked"} :
               thread'[t] = [thread[t] EXCEPT !.timeDelta = thread[t].timeDelta - 1,
                                              !.state = s]
        BY <1>3, <3>1, <4>1 DEF ProcessSleepingThreads
      <4> QED
        BY <4>1, <4>2 DEF State, ThreadObject
    <3>2. CASE ~Sleeping(t)
      BY <1>1, <1>3, <3>2 DEF ProcessSleepingThreads, State
    <3> QED
      BY <3>1, <3>2
  <2>2. thread' = [t \in Thread |-> thread'[t]]
    BY <1>3 DEF ProcessSleepingThreads
  <2> QED
    BY <2>1, <2>2
<1> QED
  BY <1>2, <1>3

(***************************************************************************)
(* HandleInterrupt up to the switch, with the statement pointer pc' of the *)
(* interrupted thread as it was (timer) or back in user code (`int`).      *)
(***************************************************************************)
LEMMA CountTickIInv ==
  ASSUME IInv, CountTick, isr = "off",
         UNCHANGED pc \/ \E t \in Thread : /\ currentThread = t /\ pc[t] = "int"
                                          /\ Enter(t, "run")
  PROVE  IInv'
<1>0. TypeOK /\ NoDanglingThread /\ OrphansAreStopped /\ IdleAlive /\ BootQuiet
      /\ WaiterIsLeaving
  BY DEF IInv
<1>1. /\ thread' \in [Thread -> ThreadObject]
      /\ \A t \in Thread :
            /\ thread'[t].parent = thread[t].parent
            /\ State(t)' = State(t) \/ (State(t) = "Blocked" /\ State(t)' = "Ready")
  BY <1>0, SleepersOnly DEF CountTick
<1>2. pc' \in [Thread -> {"run"} \cup ForceStatement]
  BY <1>0 DEF TypeOK, Enter
<1>3. tickCount' \in 0..(frequency - 1)
  BY <1>0, SliceLength, SMT DEF CountTick, TypeOK
<1>4. TypeOK'
  BY <1>0, <1>1, <1>2, <1>3 DEF CountTick, TypeOK
<1>5. NoDanglingThread' /\ Listed' = Listed
  BY <1>0, <1>1, SameThreads DEF CountTick
<1>6. OrphansAreStopped'
  BY <1>0, <1>1, <1>5, ListedElements DEF CountTick, OrphansAreStopped
<1>7. IdleAlive'
  BY <1>0, <1>1, ConstantsAssumption DEF CountTick, IdleAlive, IsUserspace
<1>8. BootQuiet'
  BY <1>0, <1>1 DEF CountTick, BootQuiet
<1>9. WaiterIsLeaving'
  <2> SUFFICES ASSUME NEW t \in Thread, isr' = "off", currentThread' = t,
                      State(t)' \in {"Blocked", "Stopped"}
               PROVE  /\ pc'[t] \in ForceStatement
                      /\ pc'[t] \in {"tickCount", "int"} => Enabled'
                      /\ pc'[t] = "int" => tickCount' = frequency - 1
    BY DEF WaiterIsLeaving
  <2>1. currentThread = t /\ State(t) \in {"Blocked", "Stopped"}
    BY <1>1 DEF CountTick
  <2>2. /\ pc[t] \in ForceStatement
        /\ pc[t] \in {"tickCount", "int"} => Enabled
        /\ pc[t] = "int" => tickCount = frequency - 1
    BY <1>0, <2>1 DEF WaiterIsLeaving
  <2>3. threadsList # <<>>
    <3>1. t \in Listed
      BY <1>0, <2>1, ConstantsAssumption DEF NoDanglingThread
    <3> QED
      BY <3>1, SMT DEF Listed, ToSet
  <2>4. pc[t] # "int"
    <3>1. SUFFICES ASSUME pc[t] = "int"
                   PROVE  FALSE
      OBVIOUS
    <3>2. tickCount + 1 = frequency /\ Enabled
      BY <2>2, <3>1, SliceLength, SMT
    <3> QED
      BY <2>3, <3>2 DEF CountTick
  <2>5. pc' = pc
    BY <2>1, <2>4
  <2> QED
    BY <2>2, <2>4, <2>5 DEF CountTick
<1> QED
  BY <1>4, <1>5, <1>6, <1>7, <1>8, <1>9 DEF IInv

LEMMA RemoveStoppedIInv ==
  ASSUME IInv, NEW i \in DOMAIN threadsList, RemoveStopped(i)
  PROVE  IInv'
<1>0. TypeOK /\ NoDanglingThread /\ OrphansAreStopped /\ IdleAlive /\ BootQuiet
  BY DEF IInv
<1>a. PICK t \in Thread : t = threadsList[i]
  BY <1>0, ListedElements
<1>1. t \in Listed /\ State(t) = "Stopped" /\ isr = "switch"
  BY <1>0, <1>a, ListedElements DEF RemoveStopped
<1>2. t # currentThread
  BY <1>a, CurrentNotRemoved DEF RemoveStopped
<1>3. t # IdleThread /\ boot = "done"
  BY <1>0, <1>1 DEF IdleAlive, BootQuiet
<1>4. /\ Delete(t)
      /\ thread' = [thread EXCEPT ![t] = Free] /\ ran' = [ran EXCEPT ![t] = FALSE]
      /\ UNCHANGED <<schedVars, currentThread, Processes, isr, boot, panicked>>
  BY <1>a DEF RemoveStopped
<1>5. /\ threadsList' \in Seq(Thread) /\ Listed' = Listed \ {t}
      /\ \A k, j \in DOMAIN threadsList' : threadsList'[k] = threadsList'[j] => k = j
      /\ pc' = [pc EXCEPT ![t] = "run"] /\ revived' = revived \ {t}
  BY <1>0, <1>1, <1>4, DeleteListed
<1>6. Free \in ThreadObject /\ Free.state = "Free"
  BY ConstantsAssumption DEF Free, ThreadObject
<1>7. /\ thread' \in [Thread -> ThreadObject] /\ State(t)' = "Free"
      /\ \A u \in Thread \ {t} : State(u)' = State(u) /\ thread'[u] = thread[u]
  BY <1>0, <1>1, <1>4, <1>6 DEF TypeOK, State
<1>8. TypeOK'
  BY <1>0, <1>1, <1>4, <1>5, <1>7 DEF TypeOK, schedVars
<1>9. NoDanglingThread'
  BY <1>0, <1>2, <1>4, <1>5, <1>7 DEF NoDanglingThread
<1>10. OrphansAreStopped'
  BY <1>0, <1>4, <1>5, <1>7, ListedElements DEF OrphansAreStopped
<1>11. IdleAlive'
  BY <1>0, <1>3, <1>4, <1>7, ConstantsAssumption DEF IdleAlive, IsUserspace
<1>12. BootQuiet' /\ WaiterIsLeaving'
  BY <1>1, <1>3, <1>4 DEF BootQuiet, WaiterIsLeaving
<1> QED
  BY <1>8, <1>9, <1>10, <1>11, <1>12 DEF IInv

LEMMA SwitchToIInv ==
  ASSUME IInv, NEW i \in DOMAIN threadsList, SwitchTo(i)
  PROVE  IInv'
<1>0. TypeOK /\ NoDanglingThread /\ OrphansAreStopped /\ IdleAlive /\ BootQuiet
  BY DEF IInv
<1>a. PICK next \in Thread : next = threadsList[i]
  BY <1>0, ListedElements
<1> DEFINE fresh == Fresh(next)
<1>1. /\ next \in Listed /\ isr = "switch"
      /\ State(next) \notin {"Stopped", "Blocked", "Free"}
  BY <1>0, <1>a, ListedElements DEF SwitchTo, IsNextReady, NoDanglingThread
<1>2. boot = "done"
  BY <1>0, <1>1 DEF BootQuiet
<1>3. /\ currentThread' = next /\ isr' = "off" /\ Enabled' = (Enabled \/ fresh)
      /\ panicked' \in FaultsAtEntry(next)
      /\ ran' = [t \in Thread |-> IF CurrentStopped /\ t = currentThread THEN FALSE
                                  ELSE ran[t] \/ t = next]
      /\ IF CurrentStopped THEN Delete(currentThread)
                           ELSE UNCHANGED <<threadsList, pc, revived>>
      /\ UNCHANGED <<tickCount, switchForced, Processes, boot>>
  BY <1>a DEF SwitchTo
<1>4. thread' = [t \in Thread |->
                   IF CurrentStopped /\ t = currentThread THEN Free
                   ELSE IF fresh /\ t = next THEN [thread[t] EXCEPT !.state = "Ready"]
                   ELSE thread[t]]
  BY <1>a DEF SwitchTo
<1>5. Free \in ThreadObject /\ Free.state = "Free"
  BY ConstantsAssumption DEF Free, ThreadObject
<1>6. CurrentStopped => currentThread \in Listed /\ currentThread # next
                        /\ currentThread # IdleThread
  BY <1>0, <1>1, <1>2 DEF CurrentStopped, NoDanglingThread, IdleAlive
<1>7. /\ thread' \in [Thread -> ThreadObject]
      /\ CurrentStopped => thread'[currentThread].state = "Free"
      /\ \A u \in Thread : ~(CurrentStopped /\ u = currentThread) =>
            /\ thread'[u].parent = thread[u].parent
            /\ State(u)' = State(u) \/ (State(u) = "Started" /\ State(u)' = "Ready")
  <2>1. thread \in [Thread -> ThreadObject]
    BY <1>0 DEF TypeOK
  <2>2. ASSUME NEW u \in Thread, fresh, u = next, ~(CurrentStopped /\ u = currentThread)
        PROVE  /\ thread'[u] \in ThreadObject
               /\ thread'[u].parent = thread[u].parent
               /\ State(u) = "Started" /\ State(u)' = "Ready"
    BY <1>4, <2>1, <2>2 DEF State, ThreadObject, Fresh
  <2>3. ASSUME NEW u \in Thread, ~(fresh /\ u = next), ~(CurrentStopped /\ u = currentThread)
        PROVE  thread'[u] = thread[u] /\ State(u)' = State(u)
    BY <1>4, <2>3 DEF State
  <2>4. CurrentStopped => currentThread \in Thread
    BY <1>0 DEF TypeOK, CurrentStopped
  <2>5. ASSUME NEW u \in Thread, CurrentStopped /\ u = currentThread
        PROVE  thread'[u] = Free
    BY <1>4, <2>5
  <2>6. \A u \in Thread : thread'[u] \in ThreadObject
    BY <1>5, <2>1, <2>2, <2>3, <2>5
  <2>7. thread' \in [Thread -> ThreadObject]
    BY <1>4, <2>6
  <2> QED
    BY <1>5, <2>2, <2>3, <2>4, <2>5, <2>7 DEF State
<1>8. /\ threadsList' \in Seq(Thread)
      /\ Listed' = IF CurrentStopped THEN Listed \ {currentThread} ELSE Listed
      /\ \A k, j \in DOMAIN threadsList' : threadsList'[k] = threadsList'[j] => k = j
      /\ pc' \in [Thread -> {"run"} \cup ForceStatement]
      /\ revived' = IF CurrentStopped THEN revived \ {currentThread} ELSE revived
  <2>1. CASE CurrentStopped
    BY <1>0, <1>3, <1>6, <2>1, DeleteListed DEF TypeOK
  <2>2. CASE ~CurrentStopped
    BY <1>0, <1>3, <2>2 DEF TypeOK, NoDanglingThread, Listed
  <2> QED
    BY <2>1, <2>2
<1>9. TypeOK'
  <2>1. fresh \in BOOLEAN /\ ran' \in [Thread -> BOOLEAN] /\ revived' \subseteq Thread
    BY <1>0, <1>3, <1>8 DEF TypeOK, Fresh
  <2>2. panicked' \in BOOLEAN
    BY <1>0, <1>3 DEF TypeOK, FaultsAtEntry, Fresh
  <2> QED
    BY <1>0, <1>1, <1>3, <1>7, <1>8, <2>1, <2>2 DEF TypeOK
<1>10. NoDanglingThread'
  <2>1. CASE CurrentStopped
    <3>1. \A u \in Thread : u \in Listed' <=> State(u)' # "Free"
      <4> SUFFICES ASSUME NEW u \in Thread
                   PROVE  u \in Listed' <=> State(u)' # "Free"
        OBVIOUS
      <4>1. CASE u = currentThread
        BY <1>7, <1>8, <2>1, <4>1 DEF State
      <4>2. CASE u # currentThread
        BY <1>0, <1>7, <1>8, <2>1, <4>2 DEF NoDanglingThread
      <4> QED
        BY <4>1, <4>2
    <3> QED
      BY <1>1, <1>3, <1>6, <1>8, <2>1, <3>1 DEF NoDanglingThread
  <2>2. CASE ~CurrentStopped
    BY <1>0, <1>1, <1>3, <1>7, <1>8, <2>2 DEF NoDanglingThread
  <2> QED
    BY <2>1, <2>2
<1>11. OrphansAreStopped'
  <2>1. ASSUME NEW u \in Listed', State(u)' # "Stopped"
        PROVE  thread'[u].parent \in Processes' \/ u \in revived'
    <3>1. u \in Listed /\ u \in Thread /\ ~(CurrentStopped /\ u = currentThread)
      BY <1>0, <1>8, <2>1, ListedElements
    <3>2. thread'[u].parent = thread[u].parent /\ State(u) # "Stopped"
      BY <1>7, <2>1, <3>1
    <3> QED
      BY <1>0, <1>3, <1>8, <3>1, <3>2 DEF OrphansAreStopped
  <2>2. currentThread' \in revived' => panicked'
    <3>1. next \in revived => FaultsAtEntry(next) = {TRUE}
      BY DEF FaultsAtEntry
    <3>2. next \in revived => panicked' = TRUE
      BY <1>3, <3>1
    <3>3. currentThread' = next /\ revived' \subseteq revived
      BY <1>3, <1>8
    <3> QED
      BY <3>2, <3>3
  <2> QED
    BY <2>1, <2>2 DEF OrphansAreStopped
<1>12. IdleAlive'
  <2>1. /\ State(IdleThread)' \in {"Ready", "Started"}
        /\ thread'[IdleThread].parent = KernelProcess /\ KernelProcess \in Processes'
    BY <1>0, <1>2, <1>3, <1>6, <1>7, ConstantsAssumption DEF IdleAlive
  <2>2. ASSUME NEW u \in Thread, u # IdleThread, State(u)' # "Free"
        PROVE  IsUserspace(u)'
    <3>1. ~(CurrentStopped /\ u = currentThread)
      BY <1>7, <2>2 DEF State
    <3>2. State(u) # "Free" /\ thread'[u].parent = thread[u].parent
      BY <1>7, <2>2, <3>1
    <3> QED
      BY <1>0, <2>2, <3>2 DEF IdleAlive, IsUserspace
  <2> QED
    BY <2>1, <2>2 DEF IdleAlive
<1>13. BootQuiet'
  BY <1>2, <1>3 DEF BootQuiet
<1>14. WaiterIsLeaving'
  <2>1. State(next)' \notin {"Blocked", "Stopped"}
    BY <1>1, <1>6, <1>7
  <2> QED
    BY <1>3, <2>1 DEF WaiterIsLeaving
<1> QED
  BY <1>9, <1>10, <1>11, <1>12, <1>13, <1>14 DEF IInv

LEMMA ForceAssignIInv ==
  ASSUME IInv, NEW t \in Thread, ForceAssign(t)
  PROVE  IInv'
<1>0. TypeOK /\ NoDanglingThread /\ OrphansAreStopped /\ IdleAlive /\ BootQuiet
      /\ WaiterIsLeaving
  BY DEF IInv
<1>1. /\ UNCHANGED <<threadsList, currentThread, thread, Processes, isr, boot,
                     panicked, ran, revived>>
      /\ currentThread = t /\ isr = "off"
  BY DEF ForceAssign, Running
<1>2. boot = "done"
  BY <1>0, <1>1, ConstantsAssumption DEF BootQuiet, TypeOK
<1>3. TypeOK'
  BY <1>0, <1>1, SliceLength DEF TypeOK, ForceAssign, Enter, ForceStatement
<1>4. NoDanglingThread' /\ Listed' = Listed
  BY <1>0, <1>1, SameThreads DEF State
<1>5. OrphansAreStopped' /\ IdleAlive' /\ BootQuiet'
  BY <1>0, <1>1, <1>2, <1>4 DEF OrphansAreStopped, IdleAlive, BootQuiet, State, IsUserspace
<1>6. WaiterIsLeaving'
  <2>1. pc[t] \in {"switchForced", "Enabled", "tickCount"}
    BY DEF ForceAssign
  <2>2. CASE pc[t] = "switchForced"
    BY <1>0, <1>1, <2>2 DEF ForceAssign, Enter, WaiterIsLeaving, ForceStatement, State, TypeOK
  <2>3. CASE pc[t] = "Enabled"
    BY <1>0, <1>1, <2>3 DEF ForceAssign, Enter, WaiterIsLeaving, ForceStatement, State, TypeOK
  <2>4. CASE pc[t] = "tickCount"
    BY <1>0, <1>1, <2>4 DEF ForceAssign, Enter, WaiterIsLeaving, ForceStatement, State, TypeOK
  <2> QED
    BY <2>1, <2>2, <2>3, <2>4
<1> QED
  BY <1>3, <1>4, <1>5, <1>6 DEF IInv

(* A thread in user code is runnable, and a caller of system calls is a user *)
(* thread of a live process.                                                 *)
LEMMA CallerAlive ==
  ASSUME IInv, NEW t \in Thread, InUser(t)
  PROVE  /\ State(t) \in {"Ready", "Started"} /\ t \in Listed
         /\ thread[t].parent \in Processes
         /\ boot = "done" /\ isr = "off" /\ currentThread = t
         /\ t # IdleThread => IsUserspace(t)
<1>0. TypeOK /\ NoDanglingThread /\ OrphansAreStopped /\ IdleAlive /\ BootQuiet
      /\ WaiterIsLeaving
  BY DEF IInv
<1>1. /\ isr = "off" /\ currentThread = t /\ pc[t] = "run" /\ currentThread # NoThread
      /\ ~panicked
  BY ConstantsAssumption DEF InUser, Running
<1>2. t \in Listed /\ State(t) # "Free"
  BY <1>0, <1>1 DEF NoDanglingThread
<1>3. State(t) \notin {"Blocked", "Stopped"}
  BY <1>0, <1>1 DEF WaiterIsLeaving, ForceStatement
<1>4. State(t) \in {"Blocked", "Ready", "Stopped", "Started", "Free"}
  BY <1>0 DEF TypeOK, ThreadObject, State
<1>5. boot = "done"
  BY <1>0, <1>1 DEF BootQuiet, TypeOK
<1> QED
  BY <1>0, <1>1, <1>2, <1>3, <1>4, <1>5 DEF OrphansAreStopped, IdleAlive

(* The frame of the system calls that make no thread and remove no process: *)
(* they store a state in some threads, none of them idle, and the caller    *)
(* enters ForceSwitch if it is not runnable any more.                       *)
LEMMA StoreStateIInv ==
  ASSUME IInv, NEW t \in Thread, InUser(t),
         UNCHANGED <<tickCount, switchForced, threadsList, currentThread, Processes,
                     isr, boot, panicked, ran>>,
         Enabled' \in BOOLEAN, revived \subseteq revived', revived' \subseteq Thread,
         t \in revived' => t \in revived,
         thread' \in [Thread -> ThreadObject],
         \A u \in Thread : /\ thread'[u].parent = thread[u].parent
                           /\ State(u)' = "Free" <=> State(u) = "Free"
                           /\ State(u) = "Stopped" =>
                                 State(u)' = "Stopped" \/ u \in revived',
         State(IdleThread)' \in {"Ready", "Started"},
         \/ Enter(t, "switchForced")
         \/ UNCHANGED pc /\ State(t)' \in {"Ready", "Started"}
  PROVE  IInv'
<1>0. TypeOK /\ NoDanglingThread /\ OrphansAreStopped /\ IdleAlive
  BY DEF IInv
<1>1. boot = "done" /\ currentThread = t
  BY CallerAlive
<1>2. pc' \in [Thread -> {"run"} \cup ForceStatement]
  BY <1>0 DEF TypeOK, Enter, ForceStatement
<1>3. TypeOK'
  BY <1>0, <1>2 DEF TypeOK
<1>4. NoDanglingThread' /\ Listed' = Listed
  BY <1>0, SameThreads
<1>5. OrphansAreStopped'
  <2>1. ASSUME NEW u \in Listed', State(u)' # "Stopped"
        PROVE  thread'[u].parent \in Processes' \/ u \in revived'
    <3>1. u \in Listed /\ u \in Thread
      BY <1>0, <1>4, <2>1, ListedElements
    <3> QED
      BY <1>0, <2>1, <3>1 DEF OrphansAreStopped
  <2>2. currentThread' \in revived' => panicked'
    BY <1>0, <1>1 DEF OrphansAreStopped
  <2> QED
    BY <2>1, <2>2 DEF OrphansAreStopped
<1>6. IdleAlive' /\ BootQuiet'
  BY <1>0, <1>1, ConstantsAssumption DEF IdleAlive, IsUserspace, BootQuiet
<1>7. WaiterIsLeaving'
  <2>1. CASE Enter(t, "switchForced")
    BY <1>0, <1>1, <2>1 DEF Enter, WaiterIsLeaving, ForceStatement, TypeOK
  <2>2. CASE State(t)' \in {"Ready", "Started"}
    BY <1>1, <2>2 DEF WaiterIsLeaving
  <2> QED
    BY <2>1, <2>2
<1> QED
  BY <1>3, <1>4, <1>5, <1>6, <1>7 DEF IInv

LEMMA BlockIInv ==
  ASSUME IInv, NEW t \in Thread, Caller(t),
         NEW reason \in {"SleepMS", "Unkown"}, NEW delta \in Nat,
         Block(t, reason, delta)
  PROVE  IInv'
<1>1. InUser(t) /\ t # IdleThread /\ State(t) \in {"Ready", "Started"}
  BY CallerAlive DEF Caller
<1>2. /\ thread \in [Thread -> ThreadObject] /\ Enabled \in BOOLEAN /\ IdleAlive
      /\ revived \subseteq Thread
  BY DEF IInv, TypeOK
<1>3. thread[t] \in ThreadObject
  BY <1>2
<1>4. PICK o \in ThreadObject : /\ thread' = [thread EXCEPT ![t] = o]
                                /\ o.state = "Blocked" /\ o.parent = thread[t].parent
  <2> DEFINE o == [thread[t] EXCEPT !.state = "Blocked", !.blockedState = reason,
                                    !.timeDelta = delta]
  <2>1. o \in ThreadObject /\ o.state = "Blocked" /\ o.parent = thread[t].parent
    BY <1>3 DEF ThreadObject
  <2>2. thread' = [thread EXCEPT ![t] = o]
    BY DEF Block
  <2> QED
    BY <2>1, <2>2
<1>5. /\ thread' \in [Thread -> ThreadObject]
      /\ \A u \in Thread : /\ thread'[u].parent = thread[u].parent
                           /\ State(u)' = "Free" <=> State(u) = "Free"
                           /\ State(u)' = "Stopped" <=> State(u) = "Stopped"
      /\ State(IdleThread)' = State(IdleThread)
  BY <1>1, <1>2, <1>4, ConstantsAssumption DEF State
<1>6. State(IdleThread) \in {"Ready", "Started"}
  BY <1>1, <1>2, CallerAlive DEF IdleAlive
<1> QED
  BY <1>1, <1>2, <1>5, <1>6, StoreStateIInv DEF Block, schedVars

LEMMA SetStateIInv ==
  ASSUME IInv, NEW t \in Thread, InUser(t), NEW u \in Thread,
         NEW s \in {"Ready", "Started"}, State(u) # "Free", SetState(u, s),
         revived' = IF State(u) = "Stopped" THEN revived \cup {u} ELSE revived
  PROVE  IInv'
<1>1. State(t) \in {"Ready", "Started"} /\ boot = "done"
  BY CallerAlive
<1>2. /\ thread \in [Thread -> ThreadObject] /\ Enabled \in BOOLEAN /\ IdleAlive
      /\ revived \subseteq Thread
  BY DEF IInv, TypeOK
<1>3. PICK o \in ThreadObject : /\ thread' = [thread EXCEPT ![u] = o]
                                /\ o.state = s /\ o.parent = thread[u].parent
  <2> DEFINE o == [thread[u] EXCEPT !.state = s, !.timeDelta = 0,
                                    !.blockedState = "Unkown"]
  <2>1. o \in ThreadObject /\ o.state = s /\ o.parent = thread[u].parent
    BY <1>2 DEF ThreadObject
  <2>2. thread' = [thread EXCEPT ![u] = o]
    BY DEF SetState
  <2> QED
    BY <2>1, <2>2
<1>4. /\ thread' \in [Thread -> ThreadObject]
      /\ \A v \in Thread : /\ thread'[v].parent = thread[v].parent
                           /\ State(v)' = "Free" <=> State(v) = "Free"
                           /\ State(v) = "Stopped" => State(v)' = "Stopped" \/ v \in revived'
                           /\ State(v)' = State(v) \/ State(v)' = s
  <2>1. State(u) = "Stopped" => u \in revived'
    OBVIOUS
  <2> QED
    BY <1>2, <1>3, <2>1 DEF State
<1>5. State(IdleThread)' \in {"Ready", "Started"} /\ State(t)' \in {"Ready", "Started"}
  BY <1>1, <1>2, <1>4, ConstantsAssumption DEF IdleAlive
<1>6. t \in revived' => t \in revived
  BY <1>1
<1> QED
  BY <1>2, <1>4, <1>5, <1>6, StoreStateIInv DEF SetState, schedVars

(* SYSCALL_RUN_PROC and SYSCALL_START_THREAD: one new thread u of a process *)
(* other than the kernel's.                                                 *)
LEMMA SpawnIInv ==
  ASSUME IInv, NEW t \in Thread, InUser(t),
         NEW u \in Thread, NEW p \in Process, p # KernelProcess, p \in Processes',
         NEW s \in {"Ready", "Started", "Blocked"}, NewThread(u, p, s),
         Processes \subseteq Processes', Processes' \subseteq Process,
         UNCHANGED <<schedVars, currentThread, isr, boot, panicked, ran, revived>>,
         UNCHANGED pc \/ Enter(t, "switchForced") \/ Enter(t, "run")
  PROVE  IInv'
<1>0. TypeOK /\ NoDanglingThread /\ OrphansAreStopped /\ IdleAlive
  BY DEF IInv
<1>1. /\ boot = "done" /\ currentThread = t /\ t \in Listed
      /\ State(t) \in {"Ready", "Started"}
  BY CallerAlive
<1>2. /\ threadsList' \in Seq(Thread) /\ thread' \in [Thread -> ThreadObject]
      /\ Listed' = Listed \cup {u}
      /\ \A i, j \in DOMAIN threadsList' : threadsList'[i] = threadsList'[j] => i = j
      /\ State(u) = "Free" /\ State(u)' = s /\ thread'[u].parent = p
      /\ \A v \in Thread \ {u} : thread'[v] = thread[v]
  BY <1>0, NewThreadListed, SMT
<1>3. \A v \in Thread \ {u} : State(v)' = State(v)
  BY <1>2 DEF State
<1>4. pc' \in [Thread -> {"run"} \cup ForceStatement]
  BY <1>0 DEF TypeOK, Enter, ForceStatement
<1>5. TypeOK'
  BY <1>0, <1>2, <1>4 DEF TypeOK, schedVars
<1>6. NoDanglingThread'
  BY <1>0, <1>1, <1>2, <1>3 DEF NoDanglingThread
<1>7. OrphansAreStopped'
  BY <1>0, <1>2, <1>3, ListedElements DEF OrphansAreStopped
<1>8. u # IdleThread
  BY <1>0, <1>1, <1>2 DEF IdleAlive
<1>9. IdleAlive' /\ BootQuiet'
  BY <1>0, <1>1, <1>2, <1>3, <1>8, ConstantsAssumption DEF IdleAlive, IsUserspace, BootQuiet
<1>10. WaiterIsLeaving'
  BY <1>1, <1>2, <1>3 DEF WaiterIsLeaving
<1> QED
  BY <1>5, <1>6, <1>7, <1>9, <1>10 DEF IInv

LEMMA ExitIInv ==
  ASSUME IInv, NEW t \in Thread, Exit(t)
  PROVE  IInv'
<1>0. TypeOK /\ NoDanglingThread /\ OrphansAreStopped /\ IdleAlive
  BY DEF IInv
<1>1. PICK p \in Process : p = thread[t].parent
  BY <1>0 DEF TypeOK, ThreadObject
<1>2. /\ boot = "done" /\ currentThread = t /\ t \in Listed /\ t # IdleThread
      /\ p # KernelProcess
  BY <1>1, CallerAlive DEF Exit, Caller, IsUserspace
<1>3. /\ Processes' = Processes \ {p}
      /\ thread' = [u \in Thread |->
                      IF u \in ThreadsOf(p)
                        THEN [thread[u] EXCEPT !.state = "Stopped"] ELSE thread[u]]
      /\ Enter(t, "switchForced")
      /\ UNCHANGED <<schedVars, threadsList, currentThread, isr, boot, panicked, ran, revived>>
  BY <1>1 DEF Exit, StopThreads
<1>4. /\ thread' \in [Thread -> ThreadObject]
      /\ \A u \in Thread :
            /\ thread'[u].parent = thread[u].parent
            /\ State(u)' = IF u \in ThreadsOf(p) THEN "Stopped" ELSE State(u)
  <2>1. ASSUME NEW u \in Thread
        PROVE  /\ thread'[u] \in ThreadObject /\ thread'[u].parent = thread[u].parent
               /\ State(u)' = IF u \in ThreadsOf(p) THEN "Stopped" ELSE State(u)
    <3>1. thread[u] \in ThreadObject
      BY <1>0 DEF TypeOK
    <3> QED
      BY <1>3, <3>1 DEF State, ThreadObject
  <2> QED
    BY <1>3, <2>1
<1>5. pc' \in [Thread -> {"run"} \cup ForceStatement]
  BY <1>0, <1>3 DEF TypeOK, Enter, ForceStatement
<1>6. TypeOK'
  BY <1>0, <1>3, <1>4, <1>5 DEF TypeOK, schedVars
<1>7. NoDanglingThread' /\ Listed' = Listed
  BY <1>0, <1>3, <1>4, SameThreads DEF ThreadsOf
<1>8. OrphansAreStopped'
  BY <1>0, <1>3, <1>4, <1>7, ListedElements
  DEF OrphansAreStopped, NoDanglingThread, ThreadsOf
<1>9. IdleAlive' /\ BootQuiet'
  BY <1>0, <1>2, <1>3, <1>4, ConstantsAssumption
  DEF IdleAlive, IsUserspace, BootQuiet, ThreadsOf
<1>10. WaiterIsLeaving'
  BY <1>0, <1>2, <1>3 DEF Enter, WaiterIsLeaving, ForceStatement, TypeOK
<1> QED
  BY <1>6, <1>7, <1>8, <1>9, <1>10 DEF IInv

LEMMA SyscallIInv ==
  ASSUME IInv, NEW t \in Thread, Syscall(t)
  PROVE  IInv'
<1> USE ConstantsAssumption
<1>0. TypeOK /\ NoDanglingThread /\ IdleAlive
  BY DEF IInv
<1>1. CASE Yield(t)
  <2>1. InUser(t) /\ Enter(t, "switchForced") /\ UNCHANGED thread /\ Enabled' = Enabled
    BY <1>1 DEF Yield, schedVars
  <2>2. State(IdleThread)' \in {"Ready", "Started"}
    BY <1>0, <2>1, CallerAlive DEF IdleAlive, State
  <2> QED
    BY <1>0, <1>1, <2>1, <2>2, StoreStateIInv DEF Yield, TypeOK, State, schedVars
<1>2. ASSUME NEW ms \in 0..MaxSleep, SleepMS(t, ms)
      PROVE  IInv'
  <2>1. ms \in Nat
    BY <1>2, SMT
  <2> QED
    BY <1>2, <2>1, BlockIInv DEF SleepMS
<1>3. CASE WaitEvent(t)
  <2>1. thread[t].timeDelta \in Nat
    BY <1>0 DEF TypeOK, ThreadObject
  <2> QED
    BY <1>3, <2>1, BlockIInv DEF WaitEvent
<1>4. ASSUME NEW u \in Thread, Unblock(t, u)
      PROVE  IInv'
  <2>1. State(u) # "Free"
    BY <1>0, <1>4 DEF Unblock, NoDanglingThread
  <2> QED
    BY <1>4, <2>1, SetStateIInv DEF Unblock, Caller
<1>9. ASSUME NEW u \in Thread, SyscallUnblock(t, u)
      PROVE  IInv'
  BY <1>9, SetStateIInv DEF SyscallUnblock, ThreadsOf, Caller
<1>5. ASSUME NEW p \in Process, NEW u \in Thread, NEW block \in BOOLEAN,
             RunProc(t, p, u, block)
      PROVE  IInv'
  <2>1. InUser(t) /\ p \notin Processes /\ Processes' = Processes \cup {p}
    BY <1>5 DEF RunProc, Caller
  <2>2. p # KernelProcess
    BY <1>0, <2>1, CallerAlive DEF IdleAlive
  <2>3. \E s \in {"Ready", "Started", "Blocked"} : NewThread(u, p, s)
    BY <1>5 DEF RunProc
  <2> QED
    BY <1>0, <1>5, <2>1, <2>2, <2>3, SpawnIInv DEF RunProc, TypeOK
<1>6. ASSUME NEW u \in Thread, NEW force \in BOOLEAN, StartThread(t, u, force)
      PROVE  IInv'
  <2>1. PICK p \in Process : p = thread[t].parent
    BY <1>0 DEF TypeOK, ThreadObject
  <2>2. InUser(t) /\ p # KernelProcess /\ p \in Processes
    BY <1>6, <2>1, CallerAlive DEF StartThread, Caller, IsUserspace
  <2>3. /\ NewThread(u, p, "Started") /\ Processes' = Processes
        /\ Enter(t, "switchForced") \/ Enter(t, "run")
        /\ UNCHANGED <<schedVars, currentThread, isr, boot, panicked, ran, revived>>
    BY <1>6, <2>1 DEF StartThread
  <2> QED
    BY <1>0, <2>2, <2>3, SpawnIInv DEF TypeOK
<1>7. ASSUME NEW active \in BOOLEAN, SetScheduler(t, active)
      PROVE  IInv'
  <2>1. /\ InUser(t) /\ UNCHANGED <<thread, pc>> /\ Enabled' \in BOOLEAN
    BY <1>7 DEF SetScheduler, Caller
  <2>2. State(IdleThread)' \in {"Ready", "Started"} /\ State(t)' \in {"Ready", "Started"}
    BY <1>0, <2>1, CallerAlive DEF IdleAlive, State
  <2> QED
    BY <1>0, <1>7, <2>1, <2>2, StoreStateIInv DEF SetScheduler, TypeOK, State
<1>8. CASE Exit(t)
  BY <1>8, ExitIInv
<1> QED
  BY <1>1, <1>2, <1>3, <1>4, <1>5, <1>6, <1>7, <1>8, <1>9 DEF Syscall

(* Every step of the scheduler preserves the invariant. *)
LEMMA NextIInv ==
  ASSUME IInv, [Next]_vars
  PROVE  IInv'
<1>1. CASE BootStep
  BY <1>1, BootStepIInv
<1>2. CASE Tick
  BY <1>2, CountTickIInv DEF Tick
<1>3. CASE Dispatch
  BY <1>3, RemoveStoppedIInv, SwitchToIInv DEF Dispatch
<1>4. CASE ForceSwitch
  <2>1. PICK t \in Thread : ForceAssign(t) \/ SoftInterrupt(t)
    BY <1>4 DEF ForceSwitch
  <2>2. CASE ForceAssign(t)
    BY <2>2, ForceAssignIInv
  <2>3. CASE SoftInterrupt(t)
    BY <2>3, CountTickIInv DEF SoftInterrupt, Running
  <2> QED
    BY <2>1, <2>2, <2>3
<1>5. CASE \E t \in Thread : Syscall(t)
  BY <1>5, SyscallIInv
<1>6. CASE UNCHANGED vars
  BY <1>6 DEF vars, schedVars, IInv, TypeOK, NoDanglingThread, OrphansAreStopped,
     IdleAlive, BootQuiet, WaiterIsLeaving, Listed, State, IsUserspace
<1> QED
  BY <1>1, <1>2, <1>3, <1>4, <1>5, <1>6 DEF Next

(* The inductive invariant holds in every reachable state. *)
THEOREM Invariance == Spec => []IInv
<1>1. Init => IInv
  BY InitIInv
<1>2. IInv /\ [Next]_vars => IInv'
  BY NextIInv
<1> QED
  BY <1>1, <1>2, PTL DEF Spec

(* Every variable of the scheduler keeps its type, for any constants. *)
THEOREM TypeCorrect == Spec => []TypeOK
<1>1. IInv => TypeOK
  BY DEF IInv
<1> QED
  BY <1>1, Invariance, PTL

(* HandleInterrupt deletes stopped threads, one of them possibly the thread *)
(* it is switching away from, and never uses one it deleted.                *)
THEOREM QueueSound == Spec => []NoDanglingThread
<1>1. IInv => NoDanglingThread
  BY DEF IInv
<1> QED
  BY <1>1, Invariance, PTL

(* The unbounded search of GetNextReadyThread always finds a thread. *)
THEOREM SearchEnds == Spec => []RunnableExists
<1>1. IInv => RunnableExists
  <2> SUFFICES ASSUME IInv, isr = "switch"
               PROVE  \E i \in DOMAIN threadsList :
                         State(threadsList[i]) \notin {"Blocked", "Stopped"}
    BY DEF RunnableExists
  <2>1. boot = "done" /\ State(IdleThread) \in {"Ready", "Started"}
    BY DEF IInv, BootQuiet, IdleAlive, TypeOK
  <2>2. IdleThread \in Listed
    BY <2>1, ConstantsAssumption DEF IInv, NoDanglingThread
  <2> QED
    BY <2>1, <2>2, ListedElements DEF IInv
<1> QED
  BY <1>1, Invariance, PTL

(* RemoveProcess leaves only stopped threads behind, and until the switch   *)
(* to such a thread nothing but a late Unblock makes one runnable again.    *)
THEOREM OnlyRevivedOrphansRun == Spec => []OrphansAreStopped
<1>1. IInv => OrphansAreStopped
  BY DEF IInv
<1> QED
  BY <1>1, Invariance, PTL

(* ForceSwitch gives the CPU away even when timer ticks interrupt it. *)
THEOREM WaiterGivesUpCPU == Spec => []WaiterDoesNotReturn
<1>1. IInv => WaiterDoesNotReturn
  BY CallerAlive DEF WaiterDoesNotReturn
<1> QED
  BY <1>1, Invariance, PTL
-----------------------------------------------------------------------------
(***************************************************************************)
(* Scheduler implements ThreadLifecycle under the refinement mapping of    *)
(* Scheduler!Abstract: thread states map to lives, the current thread to   *)
(* the owner of the CPU.  Every step is shown to be a step of the abstract *)
(* specification or to leave life and running alone.                       *)
(***************************************************************************)
LEMMA LifeValues ==
  /\ LifeOf("Free") = "absent" /\ LifeOf("Blocked") = "waiting"
  /\ LifeOf("Stopped") = "dead"
  /\ LifeOf("Ready") = "runnable" /\ LifeOf("Started") = "runnable"
  BY DEF LifeOf

(* A step that changes neither the life of a thread nor the current thread. *)
LEMMA Stutter ==
  ASSUME UNCHANGED currentThread, \A t \in Thread : LifeOf(State(t)') = LifeOf(State(t))
  PROVE  UNCHANGED Abstract!lifeVars
  BY DEF Abstract!lifeVars

(* A step that makes some blocked threads runnable and does nothing else. *)
LEMMA WakeStep ==
  ASSUME UNCHANGED currentThread,
         \A t \in Thread : \/ LifeOf(State(t)') = LifeOf(State(t))
                           \/ State(t) = "Blocked" /\ State(t)' \in {"Ready", "Started"}
  PROVE  Abstract!LifeNext
<1> DEFINE W == {t \in Thread : State(t) = "Blocked" /\ State(t)' \in {"Ready", "Started"}}
<1>1. \A t \in W : LifeOf(State(t)) = "waiting" /\ LifeOf(State(t)') = "runnable"
  BY LifeValues
<1>2. \A t \in Thread : LifeOf(State(t)') = IF t \in W THEN "runnable" ELSE LifeOf(State(t))
  BY <1>1
<1>3. W \in SUBSET Thread
  OBVIOUS
<1> HIDE DEF W
<1>4. Abstract!Wake(W)
  BY <1>1, <1>2, <1>3 DEF Abstract!Wake
<1> QED
  BY <1>3, <1>4 DEF Abstract!LifeNext

(* A step that makes one new thread and does nothing else. *)
LEMMA SpawnStep ==
  ASSUME TypeOK, NoDanglingThread, UNCHANGED currentThread,
         NEW u \in Thread, NEW p \in Process, NEW s \in {"Ready", "Started", "Blocked"},
         NewThread(u, p, s)
  PROVE  Abstract!LifeNext
<1>1. /\ State(u) = "Free" /\ State(u)' = s
      /\ \A v \in Thread \ {u} : thread'[v] = thread[v]
  BY NewThreadListed, SMT
<1>2. PICK l \in {"runnable", "waiting"} : l = LifeOf(s)
  BY LifeValues
<1>3. LifeOf(State(u)) = "absent" /\ LifeOf(State(u)') = l
  BY <1>1, <1>2, LifeValues
<1>4. \A v \in Thread \ {u} : LifeOf(State(v)') = LifeOf(State(v))
  BY <1>1 DEF State
<1>5. Abstract!Spawn(u, l)
  BY <1>3, <1>4 DEF Abstract!Spawn
<1> QED
  BY <1>5 DEF Abstract!LifeNext

LEMMA BootStepRefines ==
  ASSUME IInv, BootStep
  PROVE  Abstract!LifeNext \/ UNCHANGED Abstract!lifeVars
<1> USE ConstantsAssumption
<1>0. TypeOK /\ NoDanglingThread /\ BootQuiet
  BY DEF IInv
<1>1. CASE BootIdle
  BY <1>0, <1>1, SpawnStep DEF BootIdle
<1>2. CASE BootInit
  <2>1. /\ State(InitThread) = "Free" /\ State(InitThread)' = "Ready"
        /\ \A v \in Thread \ {InitThread} : thread'[v] = thread[v]
    BY <1>0, <1>2, NewThreadListed DEF BootInit
  <2>2. LifeOf(State(InitThread)) = "absent" /\ LifeOf(State(InitThread)') = "runnable"
    BY <2>1, LifeValues
  <2>3. \A v \in Thread \ {InitThread} : LifeOf(State(v)') = LifeOf(State(v))
    BY <2>1 DEF State
  <2>4. currentThread = NoThread /\ currentThread' = InitThread
    BY <1>0, <1>2 DEF BootInit, BootQuiet
  <2>5. Abstract!SpawnFirst(InitThread)
    BY <2>2, <2>3, <2>4 DEF Abstract!SpawnFirst
  <2> QED
    BY <2>5 DEF Abstract!LifeNext
<1>3. CASE BootNoDisk
  BY <1>3, Stutter DEF BootNoDisk, State
<1> QED
  BY <1>1, <1>2, <1>3 DEF BootStep

LEMMA CountTickRefines ==
  ASSUME IInv, CountTick
  PROVE  Abstract!LifeNext
<1>1. \A t \in Thread :
         State(t)' = State(t) \/ (State(t) = "Blocked" /\ State(t)' = "Ready")
  BY SleepersOnly DEF CountTick, IInv
<1>2. UNCHANGED currentThread
  BY DEF CountTick
<1> QED
  BY <1>1, <1>2, WakeStep

LEMMA DispatchRefines ==
  ASSUME IInv, Dispatch
  PROVE  Abstract!LifeNext
<1>0. TypeOK /\ NoDanglingThread
  BY DEF IInv
<1>1. PICK i \in DOMAIN threadsList : RemoveStopped(i) \/ SwitchTo(i)
  BY DEF Dispatch
<1>2. PICK t \in Thread : t = threadsList[i]
  BY <1>0, ListedElements
<1>3. CASE RemoveStopped(i)
  <2>1. /\ State(t) = "Stopped" /\ UNCHANGED currentThread
        /\ thread' = [thread EXCEPT ![t] = Free]
    BY <1>2, <1>3 DEF RemoveStopped
  <2>2. t # currentThread
    BY <1>2, <1>3, CurrentNotRemoved DEF RemoveStopped
  <2>3. /\ State(t)' = "Free"
        /\ \A u \in Thread \ {t} : State(u)' = State(u)
    BY <1>0, <2>1 DEF State, Free, TypeOK
  <2>4. LifeOf(State(t)) = "dead" /\ LifeOf(State(t)') = "absent"
    BY <2>1, <2>3, LifeValues
  <2>5. Abstract!Reclaim(t)
    BY <2>1, <2>2, <2>3, <2>4 DEF Abstract!Reclaim
  <2> QED
    BY <2>5 DEF Abstract!LifeNext
<1>4. CASE SwitchTo(i)
  <2>1. State(t) \notin {"Stopped", "Blocked", "Free"} /\ currentThread' = t
    BY <1>0, <1>2, <1>4, ListedElements DEF SwitchTo, IsNextReady, NoDanglingThread
  <2>2. State(t) \in {"Ready", "Started"}
    BY <1>0, <2>1 DEF TypeOK, ThreadObject, State
  <2>3. LifeOf(State(t)) = "runnable"
    BY <2>2, LifeValues
  <2>4. ASSUME NEW u \in Thread
        PROVE  LifeOf(State(u)') = IF u = currentThread /\ LifeOf(State(u)) = "dead"
                                     THEN "absent" ELSE LifeOf(State(u))
    <3>1. CASE CurrentStopped /\ u = currentThread
      <4>1. thread'[u] = Free /\ State(u) = "Stopped"
        BY <1>4, <3>1 DEF SwitchTo, CurrentStopped
      <4>2. State(u)' = "Free"
        BY <4>1, SMT DEF State, Free
      <4> QED
        BY <3>1, <4>1, <4>2, LifeValues
    <3>2. CASE ~(CurrentStopped /\ u = currentThread)
      <4>1. ~(u = currentThread /\ LifeOf(State(u)) = "dead")
        <5>1. State(u) \in {"Blocked", "Ready", "Stopped", "Started", "Free"}
          BY <1>0 DEF TypeOK, ThreadObject, State
        <5>2. LifeOf(State(u)) = "dead" => State(u) = "Stopped"
          BY <5>1, LifeValues
        <5>3. u # NoThread
          BY ConstantsAssumption
        <5> QED
          BY <3>2, <5>2, <5>3 DEF CurrentStopped
      <4>2. State(u)' = State(u) \/ (State(u) = "Started" /\ State(u)' = "Ready")
        <5>1. thread[u] \in ThreadObject
          BY <1>0 DEF TypeOK
        <5>2. thread'[u] = thread[u] \/ /\ State(u) = "Started"
                                        /\ thread'[u] = [thread[u] EXCEPT !.state = "Ready"]
          BY <1>4, <3>2 DEF SwitchTo, Fresh
        <5> QED
          BY <5>1, <5>2 DEF State, ThreadObject
      <4> QED
        BY <4>1, <4>2, LifeValues
    <3> QED
      BY <3>1, <3>2
  <2>5. Abstract!SwitchCPU(t)
    BY <2>1, <2>3, <2>4 DEF Abstract!SwitchCPU
  <2> QED
    BY <2>5 DEF Abstract!LifeNext
<1> QED
  BY <1>1, <1>3, <1>4

LEMMA BlockRefines ==
  ASSUME IInv, NEW t \in Thread, InUser(t), NEW reason, NEW delta, Block(t, reason, delta)
  PROVE  Abstract!LifeNext
<1>1. State(t) \in {"Ready", "Started"} /\ currentThread = t /\ currentThread' = t
  BY CallerAlive DEF Block
<1>2. LifeOf(State(t)) = "runnable" /\ t # NoThread
  BY <1>1, LifeValues, ConstantsAssumption
<1>3. State(t)' = "Blocked" /\ \A u \in Thread \ {t} : State(u)' = State(u)
  BY DEF Block, State, IInv, TypeOK, ThreadObject
<1>4. LifeOf(State(t)') = "waiting"
  BY <1>3, LifeValues
<1>5. Abstract!Wait
  BY <1>1, <1>2, <1>3, <1>4 DEF Abstract!Wait
<1> QED
  BY <1>5 DEF Abstract!LifeNext

LEMMA SetStateRefines ==
  ASSUME IInv, NEW t \in Thread, InUser(t), NEW u \in Thread,
         NEW s \in {"Ready", "Started"}, State(u) # "Free", SetState(u, s)
  PROVE  Abstract!LifeNext
<1>1. State(u) \in {"Blocked", "Ready", "Started", "Stopped"}
  BY DEF IInv, TypeOK, ThreadObject, State
<1>2. State(u)' = s /\ \A v \in Thread \ {u} : State(v)' = State(v)
  BY DEF SetState, State, IInv, TypeOK, ThreadObject
<1>3. UNCHANGED currentThread
  BY DEF SetState
<1>4. CASE State(u) # "Stopped"
  BY <1>1, <1>2, <1>3, <1>4, LifeValues, WakeStep
<1>5. CASE State(u) = "Stopped"
  <2>1. u # currentThread
    BY <1>5, CallerAlive
  <2>2. LifeOf(State(u)) = "dead" /\ LifeOf(State(u)') = "runnable"
    BY <1>2, <1>5, LifeValues
  <2>3. Abstract!Revive(u)
    BY <1>2, <1>3, <2>1, <2>2 DEF Abstract!Revive
  <2> QED
    BY <2>3 DEF Abstract!LifeNext
<1> QED
  BY <1>4, <1>5

LEMMA ExitRefines ==
  ASSUME IInv, NEW t \in Thread, Exit(t)
  PROVE  Abstract!LifeNext
<1> DEFINE D == ThreadsOf(thread[t].parent)
<1>0. thread \in [Thread -> ThreadObject]
  BY DEF IInv, TypeOK
<1>1. t \in D /\ currentThread = t /\ currentThread' = t
  BY CallerAlive DEF Exit, Caller, InUser, Running, ThreadsOf, IInv, OrphansAreStopped
<1>2. \A u \in D : LifeOf(State(u)) # "absent"
  BY <1>0, LifeValues DEF ThreadObject, State, ThreadsOf
<1>3. ASSUME NEW u \in Thread
      PROVE  LifeOf(State(u)') = IF u \in D THEN "dead" ELSE LifeOf(State(u))
  <2>1. CASE u \in D
    <3>1. thread'[u] = [thread[u] EXCEPT !.state = "Stopped"]
      BY <2>1 DEF Exit, StopThreads
    <3>2. State(u)' = "Stopped"
      BY <1>0, <3>1 DEF State, ThreadObject
    <3> QED
      BY <2>1, <3>2, LifeValues
  <2>2. CASE u \notin D
    <3>1. thread'[u] = thread[u]
      BY <2>2 DEF Exit, StopThreads
    <3> QED
      BY <2>2, <3>1 DEF State
  <2> QED
    BY <2>1, <2>2
<1>4. PICK E \in SUBSET Thread : E = D
  BY DEF ThreadsOf
<1>5. /\ t \in E /\ \A u \in E : LifeOf(State(u)) # "absent"
      /\ \A u \in Thread : LifeOf(State(u)') = IF u \in E THEN "dead" ELSE LifeOf(State(u))
  BY <1>1, <1>2, <1>3, <1>4
<1>6. Abstract!Die(E)
  BY <1>1, <1>5 DEF Abstract!Die
<1> QED
  BY <1>6 DEF Abstract!LifeNext

LEMMA SyscallRefines ==
  ASSUME IInv, NEW t \in Thread, Syscall(t)
  PROVE  Abstract!LifeNext \/ UNCHANGED Abstract!lifeVars
<1>0. TypeOK /\ NoDanglingThread
  BY DEF IInv
<1>1. CASE Yield(t)
  BY <1>1, Stutter DEF Yield, State
<1>2. CASE \E ms \in 0..MaxSleep : SleepMS(t, ms)
  BY <1>2, BlockRefines DEF SleepMS, Caller
<1>3. CASE WaitEvent(t)
  BY <1>3, BlockRefines DEF WaitEvent, Caller
<1>4. CASE \E u \in Thread : Unblock(t, u) \/ SyscallUnblock(t, u)
  BY <1>0, <1>4, SetStateRefines
  DEF Unblock, SyscallUnblock, ThreadsOf, NoDanglingThread, Caller
<1>5. CASE \E p \in Process, u \in Thread, block \in BOOLEAN : RunProc(t, p, u, block)
  <2>1. PICK p \in Process, u \in Thread, block \in BOOLEAN : RunProc(t, p, u, block)
    BY <1>5
  <2>2. UNCHANGED currentThread /\ \E s \in {"Started", "Blocked"} : NewThread(u, p, s)
    BY <2>1 DEF RunProc
  <2> QED
    BY <1>0, <2>2, SpawnStep
<1>6. CASE \E u \in Thread, force \in BOOLEAN : StartThread(t, u, force)
  <2>1. PICK u \in Thread, force \in BOOLEAN : StartThread(t, u, force)
    BY <1>6
  <2>2. PICK p \in Process : p = thread[t].parent
    BY <1>0 DEF TypeOK, ThreadObject
  <2>3. UNCHANGED currentThread /\ NewThread(u, p, "Started")
    BY <2>1, <2>2 DEF StartThread
  <2> QED
    BY <1>0, <2>3, SpawnStep
<1>7. CASE \E active \in BOOLEAN : SetScheduler(t, active)
  BY <1>7, Stutter DEF SetScheduler, State
<1>8. CASE Exit(t)
  BY <1>8, ExitRefines
<1> QED
  BY <1>1, <1>2, <1>3, <1>4, <1>5, <1>6, <1>7, <1>8 DEF Syscall

(***************************************************************************)
(* The scheduler implements ThreadLifecycle: only runnable threads are     *)
(* given the CPU, only the owner of the CPU makes itself wait or ends its  *)
(* process, and a dead thread is reclaimed only once it lost the CPU.      *)
(***************************************************************************)
THEOREM SchedulerImplementsLifecycle == Spec => ImplementsLifecycle
<1>1. Init => Abstract!LifeInit
  <2> SUFFICES ASSUME Init
               PROVE  Abstract!LifeInit
    OBVIOUS
  <2>1. \A t \in Thread : LifeOf(State(t)) = "absent"
    BY LifeValues DEF Init, State, Free
  <2> QED
    BY <2>1 DEF Init, Abstract!LifeInit
<1>2. IInv /\ [Next]_vars => [Abstract!LifeNext]_Abstract!lifeVars
  <2> SUFFICES ASSUME IInv, [Next]_vars
               PROVE  Abstract!LifeNext \/ UNCHANGED Abstract!lifeVars
    OBVIOUS
  <2>1. CASE BootStep
    BY <2>1, BootStepRefines
  <2>2. CASE Tick
    BY <2>2, CountTickRefines DEF Tick
  <2>3. CASE Dispatch
    BY <2>3, DispatchRefines
  <2>4. CASE ForceSwitch
    BY <2>4, CountTickRefines, Stutter DEF ForceSwitch, SoftInterrupt, ForceAssign, State
  <2>5. CASE \E t \in Thread : Syscall(t)
    BY <2>5, SyscallRefines
  <2>6. CASE UNCHANGED vars
    BY <2>6, Stutter DEF vars, State
  <2> QED
    BY <2>1, <2>2, <2>3, <2>4, <2>5, <2>6 DEF Next
<1> QED
  BY <1>1, <1>2, Invariance, PTL DEF Spec, ImplementsLifecycle, Abstract!LifeSpec
-----------------------------------------------------------------------------
(***************************************************************************)
(* How exact a sleep is.  A thread inside ForceSwitch that has stored      *)
(* switchForced will raise one interrupt; if a tick used up the flag, that *)
(* interrupt is counted as a tick.  So every such thread but the one whose *)
(* flag still stands is a tick a sleeper may get too early.                *)
(***************************************************************************)
N == Cardinality(Thread)

Announced == {u \in Thread : pc[u] \in {"Enabled", "tickCount", "int"}}
Flag == IF switchForced THEN 1 ELSE 0

(* The flag is the current thread's: any switch clears it. *)
FlagOfCurrent == switchForced => isr = "off" /\ currentThread \in Announced

(* What a sleep has gained, and what it may still gain. *)
Budget ==
    \A t \in Thread :
        /\ drift[t] < N
        /\ Sleeping(t) => drift[t] + Cardinality(Announced) - Flag < N

DInv == drift \in [Thread -> Int] /\ FlagOfCurrent /\ Budget
-----------------------------------------------------------------------------
(* Facts about the number of announced interrupts. *)
LEMMA AnnouncedFinite ==
  ASSUME IsFiniteSet(Thread)
  PROVE  /\ N \in Nat /\ IsFiniteSet(Announced) /\ Cardinality(Announced) \in Nat
         /\ IsFiniteSet(Announced') /\ Cardinality(Announced') \in Nat
         /\ \A u \in Thread : u \notin Announced => Cardinality(Announced) < N
         /\ \A u \in Thread : u \notin Announced' => Cardinality(Announced') < N
<1>1. Announced \in SUBSET Thread /\ Announced' \in SUBSET Thread
  BY DEF Announced
<1>2. ASSUME NEW A \in SUBSET Thread
      PROVE  /\ IsFiniteSet(A) /\ Cardinality(A) \in Nat
             /\ \A u \in Thread : u \notin A => Cardinality(A) < N
  <2>1. N \in Nat /\ IsFiniteSet(A) /\ Cardinality(A) \in Nat /\ Cardinality(A) <= N
        /\ (N = Cardinality(A) => Thread = A)
    BY FS_Subset, FS_CardinalityType DEF N
  <2> QED
    BY <2>1, SMT
<1>3. N \in Nat
  BY FS_CardinalityType DEF N
<1> QED
  BY <1>1, <1>2, <1>3

(* Nothing but SleepMS puts a thread to sleep. *)
NoNewSleeper(S) == \A t \in S : Sleeping(t)' => Sleeping(t)

LEMMA BootStepSleepers ==
  ASSUME IInv, BootStep
  PROVE  NoNewSleeper(Thread)
<1>1. TypeOK /\ NoDanglingThread
  BY DEF IInv
<1>2. CASE BootIdle \/ BootInit
  <2>1. PICK t \in Thread, p \in Process : NewThread(t, p, "Ready")
    BY <1>2, ConstantsAssumption DEF BootIdle, BootInit
  <2>2. /\ State(t)' = "Ready" /\ Listed' = Listed \cup {t}
        /\ \A u \in Thread \ {t} : thread'[u] = thread[u]
    BY <1>1, <2>1, NewThreadListed
  <2> QED
    BY <2>2 DEF NoNewSleeper, Sleeping, State
<1>3. CASE BootNoDisk
  BY <1>3 DEF BootNoDisk, NoNewSleeper, Sleeping, State, Listed
<1> QED
  BY <1>2, <1>3 DEF BootStep

LEMMA CountTickSleepers ==
  ASSUME IInv, CountTick
  PROVE  NoNewSleeper(Thread)
<1>1. Listed' = Listed
  BY DEF CountTick, Listed
<1>2. thread \in [Thread -> ThreadObject]
  BY DEF IInv, TypeOK
<1>3. CASE UNCHANGED thread
  BY <1>1, <1>3 DEF NoNewSleeper, Sleeping, State
<1>4. CASE ProcessSleepingThreads
  <2>1. ASSUME NEW t \in Thread, Sleeping(t)'
        PROVE  Sleeping(t)
    <3>1. CASE ~Sleeping(t)
      BY <1>1, <1>4, <2>1, <3>1 DEF ProcessSleepingThreads, Sleeping, State
    <3> QED
      BY <3>1
  <2> QED
    BY <2>1 DEF NoNewSleeper
<1> QED
  BY <1>3, <1>4 DEF CountTick

LEMMA DispatchSleepers ==
  ASSUME IInv, Dispatch
  PROVE  /\ NoNewSleeper(Thread) /\ Announced' \subseteq Announced
         /\ isr = "switch" /\ UNCHANGED switchForced
<1>1. PICK i \in DOMAIN threadsList : RemoveStopped(i) \/ SwitchTo(i)
  BY DEF Dispatch
<1>2. /\ TypeOK /\ NoDanglingThread /\ thread \in [Thread -> ThreadObject]
      /\ pc \in [Thread -> {"run"} \cup ForceStatement]
  BY DEF IInv, TypeOK
<1>3. threadsList[i] \in Thread /\ threadsList[i] \in Listed
  BY <1>2, ListedElements
<1>4. ASSUME NEW t \in Listed, Delete(t)
      PROVE  Listed' \subseteq Listed /\ Announced' \subseteq Announced
  <2>1. Listed' = Listed \ {t} /\ pc' = [pc EXCEPT ![t] = "run"]
    BY <1>2, <1>4, DeleteListed
  <2> QED
    BY <1>2, <2>1 DEF Announced
<1>5. CASE RemoveStopped(i)
  <2>1. Listed' \subseteq Listed /\ Announced' \subseteq Announced
    BY <1>3, <1>4, <1>5 DEF RemoveStopped
  <2>2. \A t \in Thread : thread'[t] = thread[t] \/ thread'[t] = Free
    BY <1>2, <1>3, <1>5 DEF RemoveStopped
  <2> QED
    BY <1>5, <2>1, <2>2, SMT DEF RemoveStopped, NoNewSleeper, Sleeping, State, Free, schedVars
<1>6. CASE SwitchTo(i)
  <2>1. Listed' \subseteq Listed /\ Announced' \subseteq Announced
    <3>1. CASE CurrentStopped
      <4>1. currentThread \in Listed
        BY <1>2, <3>1 DEF CurrentStopped, NoDanglingThread, TypeOK
      <4> QED
        BY <1>4, <1>6, <3>1, <4>1 DEF SwitchTo
    <3>2. CASE ~CurrentStopped
      BY <1>6, <3>2 DEF SwitchTo, Listed, Announced
    <3> QED
      BY <3>1, <3>2
  <2>2. \A t \in Thread : \/ thread'[t] = thread[t] \/ thread'[t] = Free
                          \/ thread'[t] = [thread[t] EXCEPT !.state = "Ready"]
    BY <1>6 DEF SwitchTo
  <2>3. ASSUME NEW t \in Thread, Sleeping(t)'
        PROVE  Sleeping(t)
    <3>1. thread[t] \in ThreadObject
      BY <1>2
    <3>2. Free.state = "Free" /\ [thread[t] EXCEPT !.state = "Ready"].state = "Ready"
      BY <3>1 DEF Free, ThreadObject
    <3>3. thread'[t] = thread[t]
      BY <2>2, <2>3, <3>2 DEF Sleeping, State
    <3> QED
      BY <2>1, <2>3, <3>3 DEF Sleeping, State
  <2> QED
    BY <1>6, <2>1, <2>3 DEF SwitchTo, NoNewSleeper
<1> QED
  BY <1>1, <1>5, <1>6

(* A system call of t puts no other thread to sleep, announces nothing yet, *)
(* and is made outside ForceSwitch, so no flag stands.                      *)
LEMMA SyscallSleepers ==
  ASSUME IInv, FlagOfCurrent, NEW t \in Thread, Syscall(t)
  PROVE  /\ NoNewSleeper(Thread \ {t}) /\ Announced' = Announced /\ t \notin Announced
         /\ ~switchForced /\ ~switchForced'
<1>1. /\ TypeOK /\ NoDanglingThread /\ thread \in [Thread -> ThreadObject]
      /\ pc \in [Thread -> {"run"} \cup ForceStatement]
  BY DEF IInv, TypeOK
<1>2. InUser(t) /\ UNCHANGED switchForced
  BY DEF Syscall, Caller, Yield, SleepMS, WaitEvent, Block, Unblock, SyscallUnblock, SetState,
         RunProc, StartThread, SetScheduler, Exit, schedVars
<1>3. t \notin Announced /\ ~switchForced
  BY <1>2 DEF InUser, Running, Announced, FlagOfCurrent
<1>4. UNCHANGED pc \/ Enter(t, "switchForced") \/ Enter(t, "run")
  BY DEF Syscall, Yield, SleepMS, WaitEvent, Block, Unblock, SyscallUnblock, SetState,
         RunProc, StartThread, SetScheduler, Exit
<1>5. Announced' = Announced
  BY <1>1, <1>3, <1>4 DEF Enter, Announced
<1>6. NoNewSleeper(Thread \ {t})
  <2>1. ASSUME UNCHANGED threadsList,
               \A u \in Thread \ {t} : \/ thread'[u] = thread[u]
                                       \/ thread'[u].state \in {"Ready", "Started", "Stopped"}
        PROVE  NoNewSleeper(Thread \ {t})
    BY <2>1 DEF NoNewSleeper, Sleeping, State, Listed
  <2>2. ASSUME NEW u \in Thread, NEW p \in Process,
               NEW s \in {"Ready", "Started", "Blocked"}, NewThread(u, p, s)
        PROVE  NoNewSleeper(Thread \ {t})
    <3>1. /\ Listed' = Listed \cup {u}
          /\ \A v \in Thread \ {u} : thread'[v] = thread[v]
      BY <1>1, <2>2, NewThreadListed, SMT
    <3>2. thread'[u].blockedState = "Unkown"
      BY <1>1, <2>2 DEF NewThread, Free
    <3> QED
      BY <3>1, <3>2 DEF NoNewSleeper, Sleeping, State
  <2>3. CASE Yield(t)
    BY <2>1, <2>3 DEF Yield
  <2>4. ASSUME NEW reason, NEW delta, Block(t, reason, delta)
        PROVE  NoNewSleeper(Thread \ {t})
    BY <1>1, <2>1, <2>4 DEF Block
  <2>5. ASSUME NEW u \in Thread, NEW s \in {"Ready", "Started"}, SetState(u, s)
        PROVE  NoNewSleeper(Thread \ {t})
    <3>1. thread[u] \in ThreadObject
      BY <1>1
    <3>2. [thread[u] EXCEPT !.state = s, !.timeDelta = 0, !.blockedState = "Unkown"].state = s
      BY <3>1 DEF ThreadObject
    <3> QED
      BY <1>1, <2>1, <2>5, <3>2 DEF SetState
  <2>6. ASSUME NEW p \in Process, NEW u \in Thread, NEW block \in BOOLEAN,
               RunProc(t, p, u, block)
        PROVE  NoNewSleeper(Thread \ {t})
    <3>1. (IF block THEN "Blocked" ELSE "Started") \in {"Ready", "Started", "Blocked"}
      OBVIOUS
    <3> QED
      BY <2>2, <2>6, <3>1 DEF RunProc
  <2>7. ASSUME NEW u \in Thread, NEW force \in BOOLEAN, StartThread(t, u, force)
        PROVE  NoNewSleeper(Thread \ {t})
    <3>1. thread[t].parent \in Process
      BY <1>1 DEF ThreadObject
    <3> QED
      BY <2>2, <2>7, <3>1 DEF StartThread
  <2>8. ASSUME NEW active \in BOOLEAN, SetScheduler(t, active)
        PROVE  NoNewSleeper(Thread \ {t})
    BY <2>1, <2>8 DEF SetScheduler
  <2>9. CASE Exit(t)
    <3>1. \A u \in Thread : \/ thread'[u] = thread[u]
                            \/ thread'[u] = [thread[u] EXCEPT !.state = "Stopped"]
      BY <2>9 DEF Exit, StopThreads
    <3>2. \A u \in Thread : [thread[u] EXCEPT !.state = "Stopped"].state = "Stopped"
      BY <1>1 DEF ThreadObject
    <3> QED
      BY <2>1, <2>9, <3>1, <3>2 DEF Exit
  <2> QED
    BY <2>3, <2>4, <2>5, <2>6, <2>7, <2>8, <2>9
    DEF Syscall, SleepMS, WaitEvent, Unblock, SyscallUnblock
<1> QED
  BY <1>2, <1>3, <1>5, <1>6
-----------------------------------------------------------------------------
LEMMA InitDInv ==
  ASSUME IsFiniteSet(Thread), SleepInit
  PROVE  IInv /\ DInv
<1>1. IInv
  BY InitIInv DEF SleepInit
<1>2. N \in Nat /\ N > 0
  <2>1. N \in Nat /\ (N = 0 <=> Thread = {})
    BY FS_CardinalityType, FS_EmptySet DEF N
  <2> QED
    BY <2>1, ConstantsAssumption, SMT
<1>3. \A t \in Thread : ~Sleeping(t)
  BY DEF SleepInit, Init, Sleeping, State, Free
<1>4. drift \in [Thread -> Int] /\ (\A t \in Thread : drift[t] = 0) /\ switchForced = FALSE
  BY SMT DEF SleepInit, Init
<1> QED
  BY <1>1, <1>2, <1>3, <1>4 DEF DInv, Budget, FlagOfCurrent

(* A step that moves no thread into or out of the announced part, or some   *)
(* out of it while no flag stands, uses up no budget.                       *)
LEMMA QuietStep ==
  ASSUME IsFiniteSet(Thread), DInv, NoNewSleeper(Thread), Announced' \subseteq Announced,
         UNCHANGED drift, switchForced = FALSE, switchForced' = FALSE
  PROVE  DInv'
<1>1. /\ Cardinality(Announced) \in Nat /\ Cardinality(Announced') \in Nat
      /\ IsFiniteSet(Announced) /\ N \in Nat
  BY AnnouncedFinite
<1>2. Cardinality(Announced') <= Cardinality(Announced)
  BY <1>1, FS_Subset
<1>3. N' = N /\ Flag = 0 /\ Flag' = 0
  BY DEF N, Flag
<1>4. ASSUME NEW t \in Thread
      PROVE  /\ drift'[t] < N
             /\ Sleeping(t)' => drift'[t] + Cardinality(Announced') - Flag' < N
  <2>1. drift[t] \in Int /\ drift[t] < N
        /\ (Sleeping(t) => drift[t] + Cardinality(Announced) - Flag < N)
    BY DEF DInv, Budget
  <2>2. Sleeping(t)' => Sleeping(t)
    BY DEF NoNewSleeper
  <2> HIDE DEF Flag
  <2> QED
    BY <1>1, <1>2, <1>3, <2>1, <2>2, SMT
<1> QED
  BY <1>3, <1>4 DEF DInv, Budget, FlagOfCurrent

(* A timer tick: one that uses up the flag moves its unit from the flag to *)
(* what the announced interrupts will be counted for, and is not counted.  *)
LEMMA TickDInv ==
  ASSUME IsFiniteSet(Thread), IInv, DInv, SleepTick
  PROVE  DInv'
<1>1. /\ CountTick /\ UNCHANGED pc /\ switchForced' = FALSE /\ switchForced \in BOOLEAN
      /\ drift \in [Thread -> Int] /\ FlagOfCurrent /\ Budget
  BY DEF SleepTick, Tick, CountTick, IInv, TypeOK, DInv
<1>2. NoNewSleeper(Thread) /\ Announced' = Announced
  BY <1>1, CountTickSleepers DEF Announced
<1>3. CASE ~switchForced
  <2>1. \A t \in Thread : drift'[t] = drift[t]
    BY <1>3 DEF SleepTick
  <2>2. UNCHANGED drift
    BY <1>1, <1>3 DEF SleepTick
  <2> QED
    BY <1>1, <1>2, <1>3, <2>2, QuietStep
<1>4. CASE switchForced
  <2>1. /\ Cardinality(Announced) \in Nat /\ N \in Nat /\ Cardinality(Announced) <= N
        /\ Cardinality(Announced) # 0
    <3>1. Announced \subseteq Thread /\ Announced # {}
      BY <1>1, <1>4 DEF Announced, FlagOfCurrent
    <3> QED
      BY <3>1, AnnouncedFinite, FS_Subset, FS_EmptySet DEF N
  <2>2. N' = N /\ Flag = 1 /\ Flag' = 0
    BY <1>1, <1>4 DEF N, Flag
  <2>3. ASSUME NEW t \in Thread
        PROVE  /\ drift'[t] \in Int /\ drift'[t] < N
               /\ Sleeping(t)' => drift'[t] + Cardinality(Announced') - Flag' < N
    <3>1. /\ drift[t] \in Int /\ drift[t] < N
          /\ Sleeping(t) => drift[t] + Cardinality(Announced) - Flag < N
      BY <1>1 DEF Budget
    <3>2. drift'[t] = IF Sleeping(t) /\ drift[t] > -1 THEN drift[t] - 1 ELSE drift[t]
      BY <1>4 DEF SleepTick, DriftFloor
    <3>3. Sleeping(t)' => Sleeping(t)
      BY <1>2 DEF NoNewSleeper
    <3> HIDE DEF Flag
    <3>4. CASE Sleeping(t)
      BY <1>2, <2>1, <2>2, <3>1, <3>2, <3>4, SMT
    <3>5. CASE ~Sleeping(t)
      BY <3>1, <3>2, <3>3, <3>5
    <3> QED
      BY <3>4, <3>5
  <2>4. drift' \in [Thread -> Int]
    <3>1. drift' = [t \in Thread |-> drift'[t]]
      BY DEF SleepTick
    <3> QED
      BY <2>3, <3>1
  <2> QED
    BY <1>1, <2>2, <2>3, <2>4 DEF DInv, Budget, FlagOfCurrent
<1> QED
  BY <1>1, <1>3, <1>4

(* The announced interrupt: counted exactly if its flag was used up. *)
LEMMA SoftInterruptDInv ==
  ASSUME IsFiniteSet(Thread), IInv, DInv, NEW u \in Thread, SoftInterrupt(u),
         drift' = [t \in Thread |->
                     IF ~switchForced /\ Sleeping(t) THEN drift[t] + 1 ELSE drift[t]]
  PROVE  DInv'
<1>1. /\ CountTick /\ switchForced' = FALSE /\ switchForced \in BOOLEAN
      /\ drift \in [Thread -> Int] /\ FlagOfCurrent /\ Budget
      /\ pc \in [Thread -> {"run"} \cup ForceStatement]
  BY DEF SoftInterrupt, CountTick, IInv, TypeOK, DInv
<1>2. NoNewSleeper(Thread)
  BY <1>1, CountTickSleepers
<1>3. u \in Announced /\ Announced' = Announced \ {u}
  BY <1>1 DEF SoftInterrupt, Enter, Announced
<1>4. /\ Cardinality(Announced) \in Nat /\ N \in Nat /\ Cardinality(Announced) # 0
      /\ Cardinality(Announced') = Cardinality(Announced) - 1
  BY <1>3, AnnouncedFinite, FS_RemoveElement, FS_EmptySet
<1>5. N' = N /\ Flag \in {0, 1} /\ (switchForced <=> Flag = 1) /\ Flag' = 0
  BY <1>1, SMT DEF N, Flag
<1>6. ASSUME NEW t \in Thread
      PROVE  /\ drift'[t] \in Int /\ drift'[t] < N
             /\ Sleeping(t)' => drift'[t] + Cardinality(Announced') - Flag' < N
  <2>1. /\ drift[t] \in Int /\ drift[t] < N
        /\ Sleeping(t) => drift[t] + Cardinality(Announced) - Flag < N
    BY <1>1 DEF Budget
  <2>2. drift'[t] = IF Flag = 0 /\ Sleeping(t) THEN drift[t] + 1 ELSE drift[t]
    BY <1>5, SMT
  <2>3. Sleeping(t)' => Sleeping(t)
    BY <1>2 DEF NoNewSleeper
  <2> HIDE DEF Flag
  <2>4. CASE Sleeping(t)
    BY <1>4, <1>5, <2>1, <2>2, <2>4, SMT
  <2>5. CASE ~Sleeping(t)
    BY <2>1, <2>2, <2>3, <2>5
  <2> QED
    BY <2>4, <2>5
<1>7. drift' \in [Thread -> Int]
  <2>1. drift' = [t \in Thread |-> drift'[t]]
    OBVIOUS
  <2> QED
    BY <1>6, <2>1
<1> QED
  BY <1>1, <1>5, <1>6, <1>7 DEF DInv, Budget, FlagOfCurrent

(* ForceSwitch announces its interrupt and sets the flag in one statement. *)
LEMMA ForceAssignDInv ==
  ASSUME IsFiniteSet(Thread), IInv, DInv, NEW u \in Thread, ForceAssign(u), UNCHANGED drift
  PROVE  DInv'
<1>1. /\ switchForced \in BOOLEAN /\ drift \in [Thread -> Int] /\ FlagOfCurrent /\ Budget
      /\ pc \in [Thread -> {"run"} \cup ForceStatement]
  BY DEF IInv, TypeOK, DInv
<1>2. \A t \in Thread : Sleeping(t)' <=> Sleeping(t)
  BY DEF ForceAssign, Sleeping, State, Listed
<1>3. CASE pc[u] = "switchForced"
  <2>1. u \notin Announced /\ Announced' = Announced \cup {u}
    BY <1>1, <1>3 DEF ForceAssign, Enter, Announced
  <2>2. Cardinality(Announced) \in Nat /\ Cardinality(Announced') = Cardinality(Announced) + 1
    BY <2>1, AnnouncedFinite, FS_AddElement
  <2>3. switchForced = FALSE /\ switchForced' = TRUE /\ isr' = "off" /\ currentThread' = u
    BY <1>1, <1>3, <2>1 DEF ForceAssign, Running, FlagOfCurrent
  <2>4. N' = N /\ N \in Nat /\ Flag = 0 /\ Flag' = 1
    BY <2>3, AnnouncedFinite DEF N, Flag
  <2>5. ASSUME NEW t \in Thread
        PROVE  /\ drift'[t] < N
               /\ Sleeping(t)' => drift'[t] + Cardinality(Announced') - Flag' < N
    <3>1. /\ drift[t] \in Int /\ drift[t] < N
          /\ Sleeping(t) => drift[t] + Cardinality(Announced) - Flag < N
      BY <1>1 DEF Budget
    <3> HIDE DEF Flag
    <3> QED
      BY <1>2, <2>2, <2>4, <3>1, SMT
  <2> QED
    BY <1>1, <2>1, <2>3, <2>4, <2>5 DEF DInv, Budget, FlagOfCurrent
<1>4. CASE pc[u] # "switchForced"
  <2>1. Announced' = Announced /\ UNCHANGED <<switchForced, isr, currentThread>>
    BY <1>1, <1>4 DEF ForceAssign, Enter, Announced
  <2>2. N' = N /\ Flag' = Flag
    BY <2>1 DEF N, Flag
  <2>3. FlagOfCurrent'
    BY <1>1, <2>1 DEF FlagOfCurrent
  <2>4. Budget'
    BY <1>1, <1>2, <2>1, <2>2 DEF Budget
  <2> QED
    BY <1>1, <2>3, <2>4 DEF DInv
<1> QED
  BY <1>3, <1>4

(* A system call starts the caller's own sleep, which may gain a tick from  *)
(* every thread but the caller.                                             *)
LEMMA SyscallDInv ==
  ASSUME IsFiniteSet(Thread), IInv, DInv, NEW u \in Thread, SleepSyscall(u)
  PROVE  DInv'
<1>1. /\ NoNewSleeper(Thread \ {u}) /\ Announced' = Announced /\ u \notin Announced
      /\ switchForced = FALSE /\ switchForced' = FALSE
  <2>1. /\ NoNewSleeper(Thread \ {u}) /\ Announced' = Announced /\ u \notin Announced
        /\ ~switchForced /\ ~switchForced'
    BY SyscallSleepers DEF SleepSyscall, DInv
  <2>2. switchForced \in BOOLEAN /\ switchForced' \in BOOLEAN
    <3>1. IInv'
      BY SyscallIInv DEF SleepSyscall
    <3> QED
      BY <3>1 DEF IInv, TypeOK
  <2> QED
    BY <2>1, <2>2
<1>2. /\ Cardinality(Announced) \in Nat /\ N \in Nat /\ Cardinality(Announced) < N
      /\ N' = N /\ Flag = 0 /\ Flag' = 0
  BY <1>1, AnnouncedFinite DEF N, Flag
<1>3. ASSUME NEW t \in Thread
      PROVE  /\ drift'[t] \in Int /\ drift'[t] < N
             /\ Sleeping(t)' => drift'[t] + Cardinality(Announced') - Flag' < N
  <2>1. /\ drift[t] \in Int /\ drift[t] < N
        /\ Sleeping(t) => drift[t] + Cardinality(Announced) - Flag < N
    BY DEF DInv, Budget
  <2>2. drift'[t] = IF t # u /\ Sleeping(t)' THEN drift[t] ELSE 0
    BY DEF SleepSyscall
  <2>3. t # u => (Sleeping(t)' => Sleeping(t))
    BY <1>1 DEF NoNewSleeper
  <2> HIDE DEF Flag
  <2>4. CASE t # u /\ Sleeping(t)'
    BY <1>1, <1>2, <2>1, <2>2, <2>3, <2>4
  <2>5. CASE ~(t # u /\ Sleeping(t)')
    BY <1>1, <1>2, <2>2, <2>5, SMT
  <2> QED
    BY <2>4, <2>5
<1>4. drift' \in [Thread -> Int]
  <2>1. drift' = [t \in Thread |-> drift'[t]]
    BY DEF SleepSyscall
  <2> QED
    BY <1>3, <2>1
<1> QED
  BY <1>1, <1>2, <1>3, <1>4 DEF DInv, Budget, FlagOfCurrent

LEMMA NextDInv ==
  ASSUME IsFiniteSet(Thread), IInv, DInv, [SleepNext]_sleepVars
  PROVE  IInv' /\ DInv'
<1>1. [Next]_vars
  BY DEF SleepNext, SleepTick, SleepForceSwitch, SleepSyscall, sleepVars, Next, ForceSwitch
<1>2. IInv'
  BY <1>1, NextIInv
<1>3. switchForced \in BOOLEAN /\ switchForced' \in BOOLEAN
  BY <1>2 DEF IInv, TypeOK
<1>4. CASE BootStep /\ UNCHANGED drift
  <2>1. ~switchForced
    <3>1. currentThread \notin Announced
      BY <1>4, ConstantsAssumption
      DEF BootStep, BootIdle, BootInit, BootNoDisk, IInv, BootQuiet, Announced
    <3> QED
      BY <3>1 DEF DInv, FlagOfCurrent
  <2>2. UNCHANGED pc /\ ~switchForced'
    BY <1>4, <2>1, SMT DEF BootStep, BootIdle, BootInit, BootNoDisk, schedVars
  <2>3. Announced' \subseteq Announced
    BY <2>2 DEF Announced
  <2>4. switchForced = FALSE /\ switchForced' = FALSE
    BY <1>3, <2>1, <2>2
  <2> QED
    BY <1>2, <1>4, <2>3, <2>4, BootStepSleepers, QuietStep
<1>5. CASE Dispatch /\ UNCHANGED drift
  <2>1. /\ NoNewSleeper(Thread) /\ Announced' \subseteq Announced
        /\ isr = "switch" /\ UNCHANGED switchForced
    BY <1>5, DispatchSleepers
  <2>2. ~switchForced
    BY <2>1 DEF DInv, FlagOfCurrent
  <2>3. switchForced = FALSE /\ switchForced' = FALSE
    BY <1>3, <2>1, <2>2
  <2> QED
    BY <1>2, <1>5, <2>1, <2>3, QuietStep
<1>6. CASE SleepTick
  BY <1>2, <1>6, TickDInv
<1>7. CASE SleepForceSwitch
  BY <1>2, <1>7, ForceAssignDInv, SoftInterruptDInv DEF SleepForceSwitch
<1>8. CASE \E t \in Thread : SleepSyscall(t)
  BY <1>2, <1>8, SyscallDInv
<1>9. CASE UNCHANGED sleepVars
  <2>1. UNCHANGED <<drift, switchForced, isr, currentThread, pc, threadsList, thread>>
    BY <1>9 DEF sleepVars, vars, schedVars
  <2>2. DInv'
    BY <2>1 DEF DInv, FlagOfCurrent, Budget, Announced, Flag, N, Sleeping, State, Listed
  <2> QED
    BY <1>2, <2>2
<1> QED
  BY <1>4, <1>5, <1>6, <1>7, <1>8, <1>9 DEF SleepNext

(* A sleep (SYSCALL_SLEEP_MS, systemcalls.cpp) that is not cut short ends   *)
(* fewer milliseconds early than there are threads, whatever the number of  *)
(* threads, the length of a time slice and the times asked for: each other  *)
(* thread inside ForceSwitch hands on at most one tick its flag swallowed.  *)
THEOREM SleepsAccurate ==
  ASSUME IsFiniteSet(Thread)
  PROVE  SleepSpec => []SleepErrorBounded
<1>1. SleepInit => IInv /\ DInv
  BY InitDInv
<1>2. IInv /\ DInv /\ [SleepNext]_sleepVars => IInv' /\ DInv'
  BY NextDInv
<1>3. DInv => SleepErrorBounded
  BY DEF DInv, Budget, N, SleepErrorBounded
<1> QED
  BY <1>1, <1>2, <1>3, PTL DEF SleepSpec
=============================================================================
