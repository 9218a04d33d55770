-------------------------------- MODULE Stdio --------------------------------
(***************************************************************************)
(* Standard input and output of processes in libcx/kernelcc: the byte      *)
(* streams (src/system/memory/fifostream.cpp), the system calls that read, *)
(* write and redirect them (cactusos.cpp:300-365), the lock around the     *)
(* console (src/system/tasking/lock.cpp), the keyboard interrupt that      *)
(* fills a stream, and what RemoveProcess does to streams.                 *)
(*                                                                         *)
(* The scheduler may switch threads between any two steps.  The kernel is  *)
(* built without optimisation, so count++ and count-- load, then store.    *)
(* Bytes are not told apart.                                               *)
(***************************************************************************)
EXTENDS Integers, FiniteSets

CONSTANTS
    Process,
    Thread,
    Parent,             \* the process of each thread
    FirstProcess,       \* the one that runs at the start, and may read the keyboard
    Stream,             \* addresses the kernel heap hands out for FIFOStreams
    Keyboard, Console,  \* System::keyboardManager, System::ProcStandardOut
    Null,
    capacity,           \* of every stream
    PacketSize,         \* bytes of a KeypressPacket
    MaxWrite            \* bound: bytes of one write

ASSUME StdioAssumption ==
    /\ Parent \in [Thread -> Process] /\ FirstProcess \in Process
    /\ Keyboard # Console /\ Keyboard # Null /\ Console # Null
    /\ {Keyboard, Console, Null} \cap Stream = {} /\ Stream # {}
    /\ capacity \in Nat \ {0} /\ PacketSize \in Nat \ {0} /\ MaxWrite \in Nat \ {0}

FIFO == Stream \cup {Keyboard}

VARIABLES
    life,       \* of a process: "none", "blocked" (not unblocked yet) or "live"
    stdInput, stdOutput,
    allocated,  \* the streams that exist, Keyboard apart
    count,      \* of each stream
    head,       \* where threads write a stream next: an offset in its buffer
    stdOutStream,   \* value of the console lock
    pc,         \* next step of a thread, "user" outside stdio calls
    call,       \* local variables of its call
    fault       \* the kernel used a null pointer or a deleted stream

vars == <<life, stdInput, stdOutput, allocated, count, head, stdOutStream, pc, call,
          fault>>
procVars == <<life, stdInput, stdOutput, allocated>>
streamVars == <<count, head>>

NoCall == [stream |-> Null, left |-> 0, loaded |-> 0]

(* A new FIFOStream, at the first address that is free: a deleted stream's   *)
(* address is used again.                                                    *)
FreeStream == CHOOSE s \in Stream : s \notin allocated

NewStream ==
    /\ Stream # allocated
    /\ allocated' = allocated \cup {FreeStream}
    /\ count' = [count EXCEPT ![FreeStream] = 0] /\ head' = [head EXCEPT ![FreeStream] = 0]

Exists(s) == s \in allocated \cup {Keyboard}

Init ==
    /\ life = [p \in Process |-> IF p = FirstProcess THEN "live" ELSE "none"]
    /\ LET first == CHOOSE s \in Stream : TRUE IN
       /\ allocated = {first}
       /\ stdInput = [p \in Process |-> IF p = FirstProcess THEN first ELSE Null]
    /\ stdOutput = [p \in Process |-> IF p = FirstProcess THEN Console ELSE Null]
    /\ count = [s \in FIFO |-> 0] /\ head = [s \in Stream |-> 0]
    /\ stdOutStream = 0
    /\ pc = [t \in Thread |-> "user"] /\ call = [t \in Thread |-> NoCall]
    /\ fault = FALSE

At(t, step) == ~fault /\ life[Parent[t]] = "live" /\ pc[t] = step
Goto(t, step) == pc' = [pc EXCEPT ![t] = step]
Local(t, field, value) == call' = [call EXCEPT ![t] = [@ EXCEPT ![field] = value]]

(* The call is over, or one byte of it, or the kernel faults in it. *)
Return(t) == Goto(t, "user") /\ call' = [call EXCEPT ![t] = NoCall]
ByteDone(t) ==
    Goto(t, "next") /\ call' = [call EXCEPT ![t] = [NoCall EXCEPT !.left = call[t].left]]
Fault(t) == fault' = TRUE /\ UNCHANGED <<pc, call>>
-----------------------------------------------------------------------------
(* Mutant: the stream counts as full one byte too late. *)
WriteCheckLate(t) ==
    LET s == call[t].stream IN
    /\ At(t, "write")
    /\ IF ~Exists(s) THEN Fault(t)
       ELSE /\ IF count[s] > capacity THEN ByteDone(t) ELSE Goto(t, "copy") /\ UNCHANGED call
            /\ UNCHANGED fault
    /\ UNCHANGED <<procVars, streamVars, stdOutStream>>

(* FIFOStream::Write(this = call.stream), one byte, with count++ in two. *)
WriteCheck(t) ==
    LET s == call[t].stream IN
    /\ At(t, "write")
    /\ IF ~Exists(s) THEN Fault(t)
       ELSE /\ IF count[s] = capacity THEN ByteDone(t) ELSE Goto(t, "copy") /\ UNCHANGED call
            /\ UNCHANGED fault
    /\ UNCHANGED <<procVars, streamVars, stdOutStream>>

(* The byte goes to head, and head is one further. *)
WriteCopy(t) ==
    LET s == call[t].stream IN
    /\ At(t, "copy")
    /\ IF ~Exists(s) THEN Fault(t) /\ UNCHANGED head
       ELSE /\ head' = [head EXCEPT ![s] = @ + 1]
            /\ Goto(t, "wrap") /\ UNCHANGED <<call, fault>>
    /\ UNCHANGED <<procVars, count, stdOutStream>>

(* Mutant: head is compared with the byte behind buffer_end. *)
WrappedLate(h) == IF h = capacity + 1 THEN 0 ELSE h

Wrapped(h) == IF h = capacity THEN 0 ELSE h

(* The end of the buffer is its begin; then count is loaded. *)
WriteWrap(t) ==
    LET s == call[t].stream IN
    /\ At(t, "wrap")
    /\ IF ~Exists(s) THEN Fault(t) /\ UNCHANGED head
       ELSE /\ head' = [head EXCEPT ![s] = Wrapped(@)]
            /\ Goto(t, "inc") /\ Local(t, "loaded", count[s]) /\ UNCHANGED fault
    /\ UNCHANGED <<procVars, count, stdOutStream>>

WriteCount(t) ==
    LET s == call[t].stream IN
    /\ At(t, "inc")
    /\ IF ~Exists(s) THEN Fault(t) /\ UNCHANGED streamVars
       ELSE /\ count' = [count EXCEPT ![s] = call[t].loaded + 1]
            /\ ByteDone(t) /\ UNCHANGED <<head, fault>>
    /\ UNCHANGED <<procVars, stdOutStream>>
-----------------------------------------------------------------------------
(***************************************************************************)
(* SYSCALL_WRITE_STDIO.  The console has a lock, the other streams have    *)
(* none; stdOutput is read again for the lock, for every byte and for the  *)
(* unlock.  Writing to the console itself always succeeds.                 *)
(***************************************************************************)
WriteStdio(t, n) ==
    /\ At(t, "user")
    /\ stdOutput[Parent[t]] # Null
    /\ Goto(t, IF stdOutput[Parent[t]] = Console THEN "lock" ELSE "next")
    /\ Local(t, "left", n)
    /\ UNCHANGED <<procVars, streamVars, stdOutStream, fault>>

(* Mutant: the value the lock had is not looked at. *)
LockUntested(t) ==
    /\ At(t, "lock")
    /\ stdOutStream' = 1
    /\ Goto(t, "next")
    /\ UNCHANGED <<procVars, streamVars, call, fault>>

(* MutexLock::Lock: a turn of its loop that finds the lock taken changes    *)
(* nothing but who runs.                                                    *)
Lock(t) ==
    /\ At(t, "lock") /\ stdOutStream = 0
    /\ stdOutStream' = 1
    /\ Goto(t, "next")
    /\ UNCHANGED <<procVars, streamVars, call, fault>>

(* The head of the loop over the bytes, with the call of Write. *)
NextByte(t) ==
    LET out == stdOutput[Parent[t]] IN
    /\ At(t, "next") /\ call[t].left > 0
    /\ IF out = Null THEN Fault(t)
       ELSE /\ Goto(t, IF out = Console THEN "next" ELSE "write")
            /\ call' = [call EXCEPT ![t].left = @ - 1,
                                   ![t].stream = IF out = Console THEN Null ELSE out]
            /\ UNCHANGED fault
    /\ UNCHANGED <<procVars, streamVars, stdOutStream>>

(* Mutant: the lock is not released. *)
WriteEndLocked(t) ==
    /\ At(t, "next") /\ call[t].left = 0
    /\ Return(t)
    /\ UNCHANGED <<procVars, streamVars, stdOutStream, fault>>

WriteEnd(t) ==
    /\ At(t, "next") /\ call[t].left = 0
    /\ stdOutStream' = IF stdOutput[Parent[t]] = Console THEN 0 ELSE stdOutStream
    /\ Return(t)
    /\ UNCHANGED <<procVars, streamVars, fault>>
-----------------------------------------------------------------------------
(* SYSCALL_READ_STDIO: the busy loop ends when bytes are available.  Read   *)
(* looks at count again, copies a byte, and count-- takes two steps.        *)
ReadStdio(t) ==
    /\ At(t, "user")
    /\ stdInput[Parent[t]] # Null
    /\ Goto(t, "poll")
    /\ UNCHANGED <<procVars, streamVars, stdOutStream, call, fault>>

(* Mutant: the loop waits for a second byte. *)
PollLate(t) ==
    /\ At(t, "poll") /\ count[stdInput[Parent[t]]] > 1
    /\ Goto(t, "read") /\ Local(t, "stream", stdInput[Parent[t]])
    /\ UNCHANGED <<procVars, streamVars, stdOutStream, fault>>

Poll(t) ==
    /\ At(t, "poll") /\ count[stdInput[Parent[t]]] > 0
    /\ Goto(t, "read") /\ Local(t, "stream", stdInput[Parent[t]])
    /\ UNCHANGED <<procVars, streamVars, stdOutStream, fault>>

ReadCheck(t) ==
    LET s == call[t].stream IN
    /\ At(t, "read")
    /\ IF ~Exists(s) THEN Fault(t)
       ELSE /\ IF count[s] = 0 THEN Return(t) ELSE Goto(t, "load") /\ UNCHANGED call
            /\ UNCHANGED fault
    /\ UNCHANGED <<procVars, streamVars, stdOutStream>>

ReadLoad(t) ==
    LET s == call[t].stream IN
    /\ At(t, "load")
    /\ IF ~Exists(s) THEN Fault(t)
       ELSE Goto(t, "dec") /\ Local(t, "loaded", count[s]) /\ UNCHANGED fault
    /\ UNCHANGED <<procVars, streamVars, stdOutStream>>

ReadCount(t) ==
    LET s == call[t].stream IN
    /\ At(t, "dec")
    /\ IF ~Exists(s) THEN Fault(t) /\ UNCHANGED streamVars
       ELSE /\ count' = [count EXCEPT ![s] = call[t].loaded - 1]
            /\ Return(t) /\ UNCHANGED <<head, fault>>
    /\ UNCHANGED <<procVars, stdOutStream>>
-----------------------------------------------------------------------------
(* The keyboard interrupt writes a packet byte by byte; no thread runs in   *)
(* between.  Bytes that find the stream full are dropped.                   *)
KeyPress ==
    LET room == capacity - count[Keyboard]
        n    == IF PacketSize < room THEN PacketSize ELSE room
    IN
    /\ ~fault
    /\ count' = [count EXCEPT ![Keyboard] = @ + n]
    /\ UNCHANGED <<procVars, head, stdOutStream, pc, call, fault>>

(* SYSCALL_RUN_PROC, with a main thread that runs or stays blocked. *)
RunProc(t, p, block) ==
    /\ At(t, "user") /\ life[p] = "none"
    /\ life' = [life EXCEPT ![p] = IF block THEN "blocked" ELSE "live"]
    /\ NewStream
    /\ stdInput' = [stdInput EXCEPT ![p] = FreeStream]
    /\ stdOutput' = [stdOutput EXCEPT ![p] = Console]
    /\ UNCHANGED <<stdOutStream, pc, call, fault>>

(* SYSCALL_UNBLOCK. *)
Unblock(t, p) ==
    /\ At(t, "user") /\ life[p] = "blocked"
    /\ life' = [life EXCEPT ![p] = "live"]
    /\ UNCHANGED <<stdInput, stdOutput, allocated, streamVars, stdOutStream, pc, call, fault>>

(* SYSCALL_REDIRECT_STDIO from -1: the keyboard becomes the caller's input. *)
(* One program asks for it, the compositor (compositor.cpp:70).  The stream *)
(* it had stays allocated.                                                  *)
RedirectKeyboard(t) ==
    /\ At(t, "user") /\ Parent[t] = FirstProcess
    /\ stdInput' = [stdInput EXCEPT ![Parent[t]] = Keyboard]
    /\ UNCHANGED <<life, stdOutput, allocated, streamVars, stdOutStream, pc, call, fault>>

(* Mutant: the keyboard is taken for a stream one may write to. *)
RedirectUntested(t, from) ==
    /\ At(t, "user") /\ life[from] = "blocked"
    /\ stdOutput' = [stdOutput EXCEPT ![from] = stdInput[Parent[t]]]
    /\ UNCHANGED <<life, stdInput, allocated, streamVars, stdOutStream, pc, call, fault>>

(* Mutant: the output of a process that runs already may be redirected, too. *)
RedirectRunning(t, from) ==
    LET to == Parent[t] IN
    /\ At(t, "user") /\ life[from] # "none"
    /\ IF stdInput[to] \in {Keyboard, Null}
         THEN /\ NewStream
              /\ stdInput' = [stdInput EXCEPT ![to] = FreeStream]
              /\ stdOutput' = [stdOutput EXCEPT ![from] = FreeStream]
         ELSE /\ stdOutput' = [stdOutput EXCEPT ![from] = stdInput[to]]
              /\ UNCHANGED <<stdInput, allocated, streamVars>>
    /\ UNCHANGED <<life, stdOutStream, pc, call, fault>>

(* ... from a process to the caller's: the terminal does this with a child  *)
(* it started blocked and has not unblocked yet (terminal.cpp:56-57).       *)
Redirect(t, from) ==
    LET to == Parent[t] IN
    /\ At(t, "user") /\ life[from] = "blocked"
    /\ IF stdInput[to] \in {Keyboard, Null}
         THEN /\ NewStream
              /\ stdInput' = [stdInput EXCEPT ![to] = FreeStream]
              /\ stdOutput' = [stdOutput EXCEPT ![from] = FreeStream]
         ELSE /\ stdOutput' = [stdOutput EXCEPT ![from] = stdInput[to]]
              /\ UNCHANGED <<stdInput, allocated, streamVars>>
    /\ UNCHANGED <<life, stdOutStream, pc, call, fault>>

(* SYSCALL_EXIT: RemoveProcess runs with interrupts disabled.  Outputs that *)
(* lead to the process are cut off, and its own stream is deleted.          *)
Deleted(s) == {s} \ {Null, Keyboard}

(* Mutant: outputs still lead to the deleted stream. *)
RemoveProcessDangling(t) ==
    LET p == Parent[t] IN
    /\ At(t, "user")
    /\ life' = [life EXCEPT ![p] = "none"]
    /\ stdInput' = [stdInput EXCEPT ![p] = Null]
    /\ stdOutput' = [stdOutput EXCEPT ![p] = Null]
    /\ allocated' = allocated \ Deleted(stdInput[p])
    /\ count' = [s \in FIFO |-> IF s \in Deleted(stdInput[p]) THEN 0 ELSE count[s]]
    /\ head' = [s \in Stream |-> IF s \in Deleted(stdInput[p]) THEN 0 ELSE head[s]]
    /\ UNCHANGED <<stdOutStream, pc, call, fault>>

RemoveProcess(t) ==
    LET p == Parent[t] IN
    /\ At(t, "user")
    /\ life' = [life EXCEPT ![p] = "none"]
    /\ stdInput' = [stdInput EXCEPT ![p] = Null]
    /\ stdOutput' = [q \in Process |->
                        IF q = p \/ stdOutput[q] = stdInput[p] THEN Null ELSE stdOutput[q]]
    /\ allocated' = allocated \ Deleted(stdInput[p])
    /\ count' = [s \in FIFO |-> IF s \in Deleted(stdInput[p]) THEN 0 ELSE count[s]]
    /\ head' = [s \in Stream |-> IF s \in Deleted(stdInput[p]) THEN 0 ELSE head[s]]
    /\ pc' = [u \in Thread |-> IF Parent[u] = p THEN "user" ELSE pc[u]]
    /\ call' = [u \in Thread |-> IF Parent[u] = p THEN NoCall ELSE call[u]]
    /\ UNCHANGED <<stdOutStream, fault>>
-----------------------------------------------------------------------------
(* The steps inside a call of write, and of read. *)
Writing(t) ==
    \/ Lock(t) \/ NextByte(t) \/ WriteEnd(t)
    \/ WriteCheck(t) \/ WriteCopy(t) \/ WriteWrap(t) \/ WriteCount(t)

Reading(t) == Poll(t) \/ ReadCheck(t) \/ ReadLoad(t) \/ ReadCount(t)

(* The system calls a thread may make. *)
Syscall(t) ==
    \/ \E n \in 1..MaxWrite : WriteStdio(t, n)
    \/ ReadStdio(t)
    \/ \E p \in Process : \/ \E block \in BOOLEAN : RunProc(t, p, block)
                         \/ Unblock(t, p) \/ Redirect(t, p)
    \/ RedirectKeyboard(t)
    \/ RemoveProcess(t)

Next == (\E t \in Thread : Writing(t) \/ Reading(t) \/ Syscall(t)) \/ KeyPress

Spec == Init /\ [][Next]_vars

(* The scheduler gives every ready thread turns, and a thread inside a call *)
(* goes on with it.  What it does outside is its own choice.                *)
FairSpec == Spec /\ \A t \in Thread : WF_vars(Writing(t)) /\ WF_vars(Reading(t))
-----------------------------------------------------------------------------
(* The variables have their types: no output leads to the keyboard, and a   *)
(* process that does not run is in no call.                                 *)
TypeOK ==
    /\ life \in [Process -> {"none", "blocked", "live"}]
    /\ stdInput \in [Process -> FIFO \cup {Null}]
    /\ stdOutput \in [Process -> Stream \cup {Console, Null}]
    /\ allocated \subseteq Stream
    /\ count \in [FIFO -> Int] /\ head \in [Stream -> Nat]
    /\ stdOutStream \in {0, 1} /\ fault \in BOOLEAN
    /\ pc \in [Thread -> {"user", "lock", "next", "write", "copy", "wrap", "inc",
                         "poll", "read", "load", "dec"}]
    /\ \A t \in Thread : life[Parent[t]] # "live" => pc[t] = "user"

(* fifostream.cpp:35 and 49: count++ and count-- overwrite each other when  *)
(* writer, reader and keyboard interrupt meet, but the tests on lines 25    *)
(* and 41 still keep count between empty and capacity, so neither a full    *)
(* nor an empty stream is ever passed over.                                 *)
CountInRange == \A s \in FIFO : count[s] \in 0..capacity

(* fifostream.cpp:30-33: a byte is copied to a place inside the buffer, also *)
(* when the reader takes bytes while the write goes on.                     *)
HeadInBuffer == \A t \in Thread : pc[t] = "copy" => head[call[t].stream] < capacity

WriteStep == {"write", "copy", "wrap", "inc"}

(* FIFOStream has no lock, and fifostream.cpp:23-36 works for one writer:   *)
(* no two threads are inside Write of one stream.  It holds where a parent  *)
(* redirects one child at a time, as the terminal does (terminal.cpp:54-67),*)
(* also while streams are deleted and their addresses used again.           *)
OneWriter ==
    \A t, u \in Thread :
        t # u /\ pc[t] \in WriteStep /\ pc[u] \in WriteStep => call[t].stream # call[u].stream

(* process.cpp:235-242: no process is left with an input or output stream   *)
(* that was deleted, whichever process exits first and whatever was         *)
(* redirected before; and no two processes own the same stream, so none is  *)
(* deleted twice.                                                           *)
NoDanglingStream ==
    /\ \A p \in Process : {stdInput[p], stdOutput[p]} \cap Stream \subseteq allocated
    /\ \A p, q \in Process : p # q /\ stdInput[p] = stdInput[q]
                               => stdInput[p] \in {Keyboard, Null}

(* Threads in the middle of a message to the console. *)
InMessage == {t \in Thread : pc[t] = "next" /\ stdOutput[Parent[t]] = Console}

(* cactusos.cpp:317-326, "output text does not get mixed up": one thread at *)
(* most is in a message, and the lock is taken exactly as long as one is,   *)
(* though stdOutput is looked at again for the unlock.                      *)
OutputNotMixed == stdOutStream = Cardinality(InMessage)

(* fifostream.h:19, "Number of items in the buffer": a thread that stores   *)
(* count has loaded the count there is now, so that after the store count   *)
(* is again the number of bytes written and not read.                       *)
CountIsOccupancy ==
    \A t \in Thread : pc[t] \in {"inc", "dec"} => call[t].loaded = count[call[t].stream]

(* cactusos.cpp:324, "Don't forget to unlock": the console does not stay    *)
(* locked.                                                                  *)
LockReleased == stdOutStream = 1 ~> stdOutStream = 0 \/ fault

(* cactusos.cpp:303-305: a reader whose stream has a byte comes back with   *)
(* it; no lost update of count hides the last byte from it for ever.        *)
InputDelivered ==
    \A t \in Thread : pc[t] = "poll" /\ count[stdInput[Parent[t]]] > 0
                        ~> pc[t] = "user" \/ fault
=============================================================================
