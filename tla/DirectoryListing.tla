-------------------------- MODULE DirectoryListing --------------------------
(***************************************************************************)
(* The directory listing requests of libcx/kernelcc                        *)
(* src/system/listings/directorylisting.cpp: one listing at a time, which  *)
(* a thread begins, reads entry by entry and ends, in as many system       *)
(* calls; others wait in a queue.  As in IPCManager the scheduler may      *)
(* switch threads between any two statements.                              *)
(***************************************************************************)
EXTENDS Integers, Sequences

CONSTANTS
    Thread,
    NoThread,   \* the null pointer
    MaxWaits    \* bound: length of the queue, which only grows

VARIABLES
    requestBusy, currentReqThread, waitingQueue,
    blocked,    \* the thread's state is Blocked
    pc          \* the next statement of a thread; "user", or "reading" between
                \* the calls of a listing it was given

vars == <<requestBusy, currentReqThread, waitingQueue, blocked, pc>>

Init ==
    /\ requestBusy = FALSE /\ currentReqThread = NoThread /\ waitingQueue = <<>>
    /\ blocked = [t \in Thread |-> FALSE]
    /\ pc = [t \in Thread |-> "user"]

At(t, stmt) == pc[t] = stmt /\ ~blocked[t]
Goto(t, stmt) == pc' = [pc EXCEPT ![t] = stmt]
-----------------------------------------------------------------------------
(* BeginListing.  A path that does not exist is refused at once. *)
BeginListing(t) ==
    /\ At(t, "user")
    /\ requestBusy => Len(waitingQueue) < MaxWaits
    /\ Goto(t, IF requestBusy THEN "push" ELSE "busy")
    /\ UNCHANGED <<requestBusy, currentReqThread, waitingQueue, blocked>>

Push(t) ==
    /\ At(t, "push") /\ Goto(t, "block")
    /\ waitingQueue' = Append(waitingQueue, t)
    /\ UNCHANGED <<requestBusy, currentReqThread, blocked>>

Block(t) ==
    /\ At(t, "block") /\ Goto(t, "busy")
    /\ blocked' = [blocked EXCEPT ![t] = TRUE]
    /\ UNCHANGED <<requestBusy, currentReqThread, waitingQueue>>

SetBusy(t) ==
    /\ At(t, "busy") /\ Goto(t, "own")
    /\ requestBusy' = TRUE
    /\ UNCHANGED <<currentReqThread, waitingQueue, blocked>>

(* What DirectoryList then reads from the disk is not followed. *)
SetOwner(t) ==
    /\ At(t, "own") /\ Goto(t, "reading")
    /\ currentReqThread' = t
    /\ UNCHANGED <<requestBusy, waitingQueue, blocked>>
-----------------------------------------------------------------------------
(* EndListing.  A thread that is not the requestor any more is sent away.   *)
(* (GetEntry changes nothing; it answers nobody but currentReqThread.)      *)
EndListing(t) ==
    /\ At(t, "reading")
    /\ Goto(t, IF currentReqThread = t THEN "free" ELSE "user")
    /\ UNCHANGED <<requestBusy, currentReqThread, waitingQueue, blocked>>

ClearBusy(t) ==
    /\ At(t, "free") /\ Goto(t, "disown")
    /\ requestBusy' = FALSE
    /\ UNCHANGED <<currentReqThread, waitingQueue, blocked>>

ClearOwner(t) ==
    /\ At(t, "disown") /\ Goto(t, "wake")
    /\ currentReqThread' = NoThread
    /\ UNCHANGED <<requestBusy, waitingQueue, blocked>>

(* Unblock(waitingQueue[0]), which stays in the queue. *)
UnblockFirst(t) ==
    /\ At(t, "wake") /\ Goto(t, "user")
    /\ blocked' = IF waitingQueue = <<>> THEN blocked
                  ELSE [blocked EXCEPT ![Head(waitingQueue)] = FALSE]
    /\ UNCHANGED <<requestBusy, currentReqThread, waitingQueue>>

BeginStep(t) == Push(t) \/ Block(t) \/ SetBusy(t) \/ SetOwner(t)
EndStep(t) == EndListing(t) \/ ClearBusy(t) \/ ClearOwner(t) \/ UnblockFirst(t)

Next == \E t \in Thread : BeginListing(t) \/ BeginStep(t) \/ EndStep(t)

Spec == Init /\ [][Next]_vars

(* Every thread that can run does (Scheduler!ReadyRuns), and a listing that *)
(* was begun is ended.                                                      *)
FairSpec == Spec /\ \A t \in Thread : WF_vars(BeginStep(t)) /\ WF_vars(EndStep(t))
-----------------------------------------------------------------------------
(* "Unblock first thread from queue" (directorylisting.cpp:65): with every  *)
(* listing ended, every thread that waited in the queue gets its turn.      *)
WaiterServed == \A t \in Thread : blocked[t] ~> ~blocked[t]
=============================================================================
