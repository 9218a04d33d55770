----------------------------- MODULE IPCManager -----------------------------
(***************************************************************************)
(* Message passing between processes: HandleSend and HandleReceive of      *)
(* libcx/kernelcc src/system/tasking/ipcmanager.cpp, with what             *)
(* RemoveProcess and Process::Create do to messages and descriptors.       *)
(*                                                                         *)
(* System calls run with interrupts enabled, so the scheduler may switch   *)
(* threads between any two statements: any thread that is not blocked may  *)
(* take the next step.  A call on a List holds the list's lock and is one  *)
(* step.  A read through a null list node faults, and the page fault       *)
(* handler panics.                                                         *)
(***************************************************************************)
EXTENDS Integers, Sequences, SequencesExt

CONSTANTS
    Thread, Process,    \* addresses of Thread and Process objects
    Owner,              \* the process a thread address belongs to
    Type,               \* message types
    Unrestricted,       \* fromID or type -1
    FromFilter,         \* what a receiver's fromID may name
    TypeFilter,         \* what a receiver's type may be
    MaxLife,            \* bound: processes created at one address
    MaxSent             \* bound: no send starts after so many to one process

ASSUME IPCAssumption ==
    /\ Owner \in [Thread -> Process]
    /\ Unrestricted \notin Process \cup Type
    /\ FromFilter \subseteq Process \cup {Unrestricted}
    /\ TypeFilter \subseteq Type \cup {Unrestricted}
    /\ MaxLife \in Nat \ {0} /\ MaxSent \in Nat

VARIABLES
    alive,          \* is there a process at this address
    life,           \* how many processes were created at it
    ipcMessages,    \* a process's list of messages not received yet
    receivingBlockedList,
    blocked,        \* the thread's state is Blocked
    pc,             \* the next statement of a thread
    call,           \* the arguments and local variables of its system call
    panicked,       \* System::Panic was called
    wildWrite,      \* a freed Process or Thread was written
    sent, got       \* history: messages sent to and received by a process

vars == <<alive, life, ipcMessages, receivingBlockedList, blocked, pc, call,
          panicked, wildWrite, sent, got>>

(* Process ids are never used twice: currentPID only grows. *)
Id(p) == <<p, life[p]>>
Pid == Process \X (1..MaxLife)
Message == [source : Pid, dest : Pid, type : Type, number : Nat]
IPCReceiveDescriptor ==
    [receivingProcess : Process, receivingThread : Thread,
     receiveFromPID : Pid \cup {Unrestricted}, receiveType : Type \cup {Unrestricted}]

(* The arguments and locals of a call: of HandleSend, then once it found a  *)
(* descriptor; of HandleReceive, then once it read the first message.       *)
SendCall == [to : Process, msg : [source : Pid, dest : Pid, type : Type]]
WakeCall == [i : Nat, receivingThread : Thread]
ReceiveCall == [from : Pid \cup {Unrestricted}, type : Type \cup {Unrestricted}]
SearchCall == [from : Pid \cup {Unrestricted}, type : Type \cup {Unrestricted},
               msg : Message, messageIndex : Nat]
NoCall == [from |-> Unrestricted, type |-> Unrestricted]

Init ==
    /\ alive = [p \in Process |-> TRUE] /\ life = [p \in Process |-> 1]
    /\ ipcMessages = [p \in Process |-> <<>>]
    /\ receivingBlockedList = <<>>
    /\ blocked = [t \in Thread |-> FALSE]
    /\ pc = [t \in Thread |-> "user"]
    /\ call = [t \in Thread |-> NoCall]
    /\ panicked = FALSE /\ wildWrite = FALSE
    /\ sent = [p \in Process |-> 0] /\ got = [p \in Process |-> 0]

(* Nothing is known of the system once freed memory was written. *)
Halted == panicked \/ wildWrite

At(t, stmt) == pc[t] = stmt /\ ~blocked[t] /\ ~Halted
Goto(t, stmt, c) == /\ pc' = [pc EXCEPT ![t] = stmt]
                    /\ call' = [call EXCEPT ![t] = c]
Return(t) == Goto(t, "user", NoCall)
-----------------------------------------------------------------------------
(* HandleSend.  ProcessById finds only a live target; for any other dest,  *)
(* and for a source that is not the caller, it returns an error at once.   *)
Send(t, p, ty) ==
    /\ At(t, "user")
    /\ alive[p] /\ sent[p] < MaxSent
    /\ Goto(t, "push", [to |-> p, msg |-> [source |-> Id(Owner[t]), dest |-> Id(p),
                                           type |-> ty]])
    /\ UNCHANGED <<alive, life, ipcMessages, receivingBlockedList, blocked,
                   panicked, wildWrite, sent, got>>

(* Mutant: the message is put in front of the others. *)
PushFront(t) ==
    LET p == call[t].to
        m == call[t].msg
    IN
    /\ At(t, "push")
    /\ ipcMessages' = [ipcMessages EXCEPT ![p] =
          <<[source |-> m.source, dest |-> m.dest, type |-> m.type,
             number |-> sent[p] + 1]>> \o @]
    /\ sent' = [sent EXCEPT ![p] = @ + 1]
    /\ Goto(t, "scan", call[t])
    /\ UNCHANGED <<alive, life, receivingBlockedList, blocked, panicked, wildWrite, got>>

(* push_back on the target's list; the target may be gone by now. *)
Push(t) ==
    LET p == call[t].to
        m == call[t].msg
    IN
    /\ At(t, "push")
    /\ IF alive[p]
         THEN /\ ipcMessages' = [ipcMessages EXCEPT ![p] = Append(@,
                   [source |-> m.source, dest |-> m.dest, type |-> m.type,
                    number |-> sent[p] + 1])]
              /\ sent' = [sent EXCEPT ![p] = @ + 1]
              /\ UNCHANGED wildWrite
         ELSE /\ wildWrite' = TRUE
              /\ UNCHANGED <<ipcMessages, sent>>
    /\ Goto(t, "scan", call[t])
    /\ UNCHANGED <<alive, life, receivingBlockedList, blocked, panicked, got>>

Wants(d, p, m) ==
    /\ d.receivingProcess = p
    /\ d.receiveFromPID \in {Unrestricted, m.source}
    /\ d.receiveType \in {Unrestricted, m.type}

(* The loop over receivingBlockedList; i is where it stops. *)
Scan(t) ==
    LET matching == {i \in DOMAIN receivingBlockedList :
                       Wants(receivingBlockedList[i], call[t].to, call[t].msg)}
        i == CHOOSE k \in matching : \A j \in matching : k <= j
    IN
    /\ At(t, "scan")
    /\ IF matching = {} THEN Return(t)
       ELSE Goto(t, "remove", [i |-> i,
                   receivingThread |-> receivingBlockedList[i].receivingThread])
    /\ UNCHANGED <<alive, life, ipcMessages, receivingBlockedList, blocked,
                   panicked, wildWrite, sent, got>>

(* List::Remove(i): nothing happens just past the end, a fault further on. *)
RemoveDescriptor(t) ==
    LET i == call[t].i IN
    /\ At(t, "remove")
    /\ receivingBlockedList' = IF i \in DOMAIN receivingBlockedList
                                 THEN RemoveAt(receivingBlockedList, i)
                                 ELSE receivingBlockedList
    /\ panicked' = (i > Len(receivingBlockedList) + 1)
    /\ Goto(t, "unblock", call[t])
    /\ UNCHANGED <<alive, life, ipcMessages, blocked, wildWrite, sent, got>>

UnblockReceiver(t) ==
    LET u == call[t].receivingThread IN
    /\ At(t, "unblock")
    /\ blocked' = [blocked EXCEPT ![u] = FALSE]
    /\ wildWrite' = ~alive[Owner[u]]
    /\ Return(t)
    /\ UNCHANGED <<alive, life, ipcMessages, receivingBlockedList, panicked,
                   sent, got>>
-----------------------------------------------------------------------------
(* Mutant: the descriptor names the process by its address. *)
ReceiveFromAddress(t, f, ty) ==
    /\ At(t, "user")
    /\ Goto(t, IF ipcMessages[Owner[t]] = <<>> THEN "describe" ELSE "get",
            [from |-> f, type |-> ty])
    /\ UNCHANGED <<alive, life, ipcMessages, receivingBlockedList, blocked,
                   panicked, wildWrite, sent, got>>

(* HandleReceive. *)
Receive(t, f, ty) ==
    LET c == [from |-> IF f = Unrestricted THEN Unrestricted ELSE Id(f), type |-> ty] IN
    /\ At(t, "user")
    /\ Goto(t, IF ipcMessages[Owner[t]] = <<>> THEN "describe" ELSE "get", c)
    /\ UNCHANGED <<alive, life, ipcMessages, receivingBlockedList, blocked,
                   panicked, wildWrite, sent, got>>

Describe(t) ==
    /\ At(t, "describe")
    /\ receivingBlockedList' = Append(receivingBlockedList,
          [receivingProcess |-> Owner[t], receivingThread |-> t,
           receiveFromPID |-> call[t].from, receiveType |-> call[t].type])
    /\ Goto(t, "block", call[t])
    /\ UNCHANGED <<alive, life, ipcMessages, blocked, panicked, wildWrite, sent, got>>

(* Scheduler::Block stores Blocked, whatever the state was, and leaves. *)
Block(t) ==
    /\ At(t, "block")
    /\ blocked' = [blocked EXCEPT ![t] = TRUE]
    /\ Goto(t, "get", call[t])
    /\ UNCHANGED <<alive, life, ipcMessages, receivingBlockedList, panicked,
                   wildWrite, sent, got>>

(* message = ipcMessages.GetAt(0), through a null node if there is none. *)
GetFirst(t) ==
    LET messages == ipcMessages[Owner[t]] IN
    /\ At(t, "get")
    /\ IF messages = <<>>
         THEN panicked' = TRUE /\ UNCHANGED <<pc, call>>
         ELSE /\ Goto(t, "walk", [from |-> call[t].from, type |-> call[t].type,
                                  msg |-> Head(messages), messageIndex |-> 0])
              /\ UNCHANGED panicked
    /\ UNCHANGED <<alive, life, ipcMessages, receivingBlockedList, blocked,
                   wildWrite, sent, got>>

Acceptable(t, m) ==
    /\ m.dest = Id(Owner[t])
    /\ call[t].from \in {Unrestricted, m.source}
    /\ call[t].type \in {Unrestricted, m.type}

(* The search loop, one turn a step: it reads the next message but keeps    *)
(* testing the first.                                                       *)
Walk(t) ==
    LET n == Len(ipcMessages[Owner[t]])
        k == call[t].messageIndex
    IN
    /\ At(t, "walk")
    /\ \/ /\ ~Acceptable(t, call[t].msg) /\ k < n
          /\ call' = [call EXCEPT ![t].messageIndex = k + 1]
          /\ panicked' = (k + 1 >= n)
          /\ UNCHANGED pc
       \/ /\ Acceptable(t, call[t].msg) \/ k >= n
          /\ IF k = n THEN Return(t) ELSE Goto(t, "take", call[t])
          /\ UNCHANGED panicked
    /\ UNCHANGED <<alive, life, ipcMessages, receivingBlockedList, blocked,
                   wildWrite, sent, got>>

(* The message is copied to the caller and Remove(messageIndex). *)
Take(t) ==
    LET p == Owner[t]
        i == call[t].messageIndex + 1
    IN
    /\ At(t, "take")
    /\ ipcMessages' = [ipcMessages EXCEPT ![p] = IF i \in DOMAIN @ THEN RemoveAt(@, i)
                                                                   ELSE @]
    /\ panicked' = (i > Len(ipcMessages[p]) + 1)
    /\ got' = [got EXCEPT ![p] = call[t].msg.number]
    /\ Return(t)
    /\ UNCHANGED <<alive, life, receivingBlockedList, blocked, wildWrite, sent>>
-----------------------------------------------------------------------------
(* RemoveProcess, called by exit: the messages go, the descriptors stay. *)
Exit(t) ==
    LET p == Owner[t] IN
    /\ At(t, "user")
    /\ alive' = [alive EXCEPT ![p] = FALSE]
    /\ ipcMessages' = [ipcMessages EXCEPT ![p] = <<>>]
    /\ pc' = [u \in Thread |-> IF Owner[u] = p THEN "stopped" ELSE pc[u]]
    /\ call' = [u \in Thread |-> IF Owner[u] = p THEN NoCall ELSE call[u]]
    /\ blocked' = [u \in Thread |-> blocked[u] /\ Owner[u] # p]
    /\ sent' = [sent EXCEPT ![p] = 0] /\ got' = [got EXCEPT ![p] = 0]
    /\ UNCHANGED <<life, receivingBlockedList, panicked, wildWrite>>

(* Another thread runs a new process; the heap gives it the same addresses. *)
Create(p) ==
    /\ ~alive[p] /\ life[p] < MaxLife /\ ~Halted
    /\ alive' = [alive EXCEPT ![p] = TRUE]
    /\ life' = [life EXCEPT ![p] = @ + 1]
    /\ pc' = [u \in Thread |-> IF Owner[u] = p THEN "user" ELSE pc[u]]
    /\ UNCHANGED <<ipcMessages, receivingBlockedList, blocked, call, panicked,
                   wildWrite, sent, got>>

SendStep(t) == Push(t) \/ Scan(t) \/ RemoveDescriptor(t) \/ UnblockReceiver(t)
ReceiveStep(t) == Describe(t) \/ Block(t) \/ GetFirst(t) \/ Walk(t) \/ Take(t)

(* With MaxLife 1 no process exits. *)
Next ==
    \/ \E t \in Thread :
          \/ \E p \in Process, ty \in Type : Send(t, p, ty)
          \/ \E f \in FromFilter, ty \in TypeFilter : Receive(t, f, ty)
          \/ SendStep(t) \/ ReceiveStep(t)
          \/ MaxLife > 1 /\ Exit(t)
    \/ \E p \in Process : Create(p)

Spec == Init /\ [][Next]_vars

(* The scheduler starves no thread that can run (Scheduler!ReadyRuns). *)
FairSpec == Spec /\ \A t \in Thread : WF_vars(SendStep(t) \/ ReceiveStep(t))
-----------------------------------------------------------------------------
TypeOK ==
    /\ alive \in [Process -> BOOLEAN] /\ life \in [Process -> 1..MaxLife]
    /\ ipcMessages \in [Process -> Seq(Message)]
    /\ receivingBlockedList \in Seq(IPCReceiveDescriptor)
    /\ blocked \in [Thread -> BOOLEAN]
    /\ pc \in [Thread -> {"stopped", "user", "push", "scan", "remove", "unblock",
                          "describe", "block", "get", "walk", "take"}]
    /\ call \in [Thread -> SendCall \cup WakeCall \cup ReceiveCall \cup SearchCall]
    /\ panicked \in BOOLEAN /\ wildWrite \in BOOLEAN
    /\ sent \in [Process -> Nat] /\ got \in [Process -> Nat]

(* A process with one thread receives every message exactly once and in     *)
(* the order of their arrival, however senders and receiver interleave: its *)
(* list holds the messages sent and not yet received, oldest first.         *)
InOrder(p) ==
    /\ Len(ipcMessages[p]) = sent[p] - got[p]
    /\ \A i \in DOMAIN ipcMessages[p] : ipcMessages[p][i].number = got[p] + i

FifoDelivery == \A p \in Process : InOrder(p)

(* "blocks if none availible" (lib ipc.h:44): a receiver does not stay      *)
(* blocked while a message is there for it.                                 *)
NoLostWakeup ==
    \A t \in Thread :
        (blocked[t] /\ ipcMessages[Owner[t]] # <<>>) ~> (~blocked[t] \/ Halted)
=============================================================================
