----------------------------- MODULE StdioProofs -----------------------------
(***************************************************************************)
(* Proofs about Stdio, for any number of processes, threads and streams,   *)
(* any size of a stream, a key packet or a write.                          *)
(***************************************************************************)
EXTENDS Stdio, FiniteSetTheorems, TLAPS

(* Zenon proves the steps that name no prover. *)
USE Zenon
-----------------------------------------------------------------------------
(***************************************************************************)
(* The inductive invariant.                                                *)
(***************************************************************************)
(* The local variables of a call, and the statements of a thread. *)
Record == [stream : FIFO \cup {Null}, left : Nat, loaded : Int]
Statement == {"user", "lock", "next", "write", "copy", "wrap", "inc",
              "poll", "read", "load", "dec"}

CallTyped == call \in [Thread -> Record]

SInv == TypeOK /\ CallTyped /\ NoDanglingStream

(* Each process has one thread. *)
SingleThreaded == \A t, u \in Thread : Parent[t] = Parent[u] => t = u

(* A thread that waits for the lock of the console writes to the console,   *)
(* and one that is inside FIFOStream::Write does not: while a process runs, *)
(* its output can only be cut off.                                          *)
WriterOutput ==
    \A t \in Thread :
        /\ pc[t] = "lock" => stdOutput[Parent[t]] = Console
        /\ pc[t] \in {"write", "copy", "wrap", "inc"} => stdOutput[Parent[t]] # Console

(* The lock and the thread in the middle of a message, without counting. *)
OneMessage ==
    /\ stdOutStream = 0 => InMessage = {}
    /\ stdOutStream = 1 => \E t \in Thread : InMessage = {t}

LInv == SInv /\ WriterOutput /\ OneMessage
-----------------------------------------------------------------------------
(* A new stream was not allocated before. *)
LEMMA FreshStream ==
  ASSUME TypeOK, NewStream
  PROVE  /\ FreeStream \in Stream \ allocated
         /\ allocated' = allocated \cup {FreeStream}
         /\ count' \in [FIFO -> Int] /\ head' \in [Stream -> Nat]
<1>1. allocated \subseteq Stream /\ Stream # allocated
  BY DEF TypeOK, NewStream
<1>2. FreeStream \in Stream \ allocated
  BY <1>1 DEF FreeStream
<1>3. count' \in [FIFO -> Int] /\ head' \in [Stream -> Nat]
  BY <1>2, SMT DEF TypeOK, NewStream, FIFO
<1> QED
  BY <1>2, <1>3 DEF NewStream

(* What the assignments to local variables yield. *)
LEMMA RecordUpdates ==
  ASSUME NEW c \in Record
  PROVE  /\ \A n \in Int : [c EXCEPT !["loaded"] = n] \in Record
         /\ \A n \in Nat : [c EXCEPT !["left"] = n] \in Record
         /\ \A s \in FIFO \cup {Null} : [c EXCEPT !["stream"] = s] \in Record
         /\ NoCall \in Record
         /\ [NoCall EXCEPT !.left = c.left] \in Record
         /\ c.left \in Nat /\ c.loaded \in Int /\ c.stream \in FIFO \cup {Null}
BY SMT DEF Record, NoCall

(* One thread moves to another statement, with other local variables. *)
Moved(t) ==
    /\ pc' \in [Thread -> Statement] /\ call' \in [Thread -> Record]
    /\ \A u \in Thread : u # t => pc'[u] = pc[u] /\ call'[u] = call[u]

LEMMA Moves ==
  ASSUME pc \in [Thread -> Statement], CallTyped, NEW t \in Thread
  PROVE  /\ Return(t) => Moved(t)
         /\ ByteDone(t) => Moved(t)
         /\ Fault(t) => Moved(t) /\ fault' \in BOOLEAN
         /\ \A step \in Statement :
              /\ Goto(t, step) /\ UNCHANGED call => Moved(t)
              /\ \A n \in Int : Goto(t, step) /\ Local(t, "loaded", n) => Moved(t)
              /\ \A n \in Nat : Goto(t, step) /\ Local(t, "left", n) => Moved(t)
              /\ \A s \in FIFO \cup {Null} :
                    Goto(t, step) /\ Local(t, "stream", s) => Moved(t)
<1>1. call[t] \in Record
  BY DEF CallTyped
<1>2. ASSUME NEW step \in Statement, Goto(t, step), NEW c \in Record,
             call' = [call EXCEPT ![t] = c]
      PROVE  Moved(t)
  BY <1>2 DEF Goto, Moved, CallTyped
<1>3. ASSUME NEW step \in Statement, Goto(t, step), UNCHANGED call
      PROVE  Moved(t)
  BY <1>3 DEF Goto, Moved, CallTyped
<1>4. Return(t) => Moved(t)
  BY <1>1, <1>2, RecordUpdates DEF Return, Statement
<1>5. ByteDone(t) => Moved(t)
  BY <1>1, <1>2, RecordUpdates DEF ByteDone, Statement
<1>6. Fault(t) => Moved(t) /\ fault' \in BOOLEAN
  BY DEF Fault, Moved, CallTyped
<1>7. ASSUME NEW step \in Statement, NEW n \in Int, Goto(t, step), Local(t, "loaded", n)
      PROVE  Moved(t)
  BY <1>1, <1>2, <1>7, RecordUpdates DEF Local
<1>8. ASSUME NEW step \in Statement, NEW n \in Nat, Goto(t, step), Local(t, "left", n)
      PROVE  Moved(t)
  BY <1>1, <1>2, <1>8, RecordUpdates DEF Local
<1>9. ASSUME NEW step \in Statement, NEW s \in FIFO \cup {Null}, Goto(t, step),
             Local(t, "stream", s)
      PROVE  Moved(t)
  BY <1>1, <1>2, <1>9, RecordUpdates DEF Local
<1> QED
  BY <1>3, <1>4, <1>5, <1>6, <1>7, <1>8, <1>9

(* A step inside a read or a write leaves processes and the set of streams  *)
(* alone, and keeps the types.                                              *)
Inside(t) ==
    /\ UNCHANGED procVars
    /\ count' \in [FIFO -> Int] /\ head' \in [Stream -> Nat]
    /\ stdOutStream' \in {0, 1} /\ fault' \in BOOLEAN
    /\ Moved(t) /\ life[Parent[t]] = "live"

LEMMA InsideTyped ==
  ASSUME SInv, NEW t \in Thread, Inside(t)
  PROVE  SInv'
<1>1. CallTyped' /\ NoDanglingStream'
  BY DEF SInv, Inside, Moved, CallTyped, NoDanglingStream, procVars
<1>2. \A u \in Thread : life'[Parent[u]] # "live" => pc'[u] = "user"
  BY DEF SInv, Inside, Moved, TypeOK, procVars
<1>3. TypeOK'
  BY <1>2 DEF SInv, Inside, Moved, TypeOK, procVars, Statement
<1> QED
  BY <1>1, <1>3 DEF SInv

LEMMA LocalStep ==
  ASSUME SInv, NEW t \in Thread, Writing(t) \/ Reading(t)
  PROVE  Inside(t)
<1>1. /\ pc \in [Thread -> Statement] /\ CallTyped /\ call[t] \in Record
      /\ count \in [FIFO -> Int] /\ head \in [Stream -> Nat]
      /\ stdOutStream \in {0, 1} /\ fault \in BOOLEAN
      /\ stdInput \in [Process -> FIFO \cup {Null}]
      /\ stdOutput \in [Process -> Stream \cup {Console, Null}]
      /\ Parent[t] \in Process
  BY StdioAssumption DEF SInv, TypeOK, CallTyped, Statement
<1>2. \A step \in {"user", "lock", "next", "write", "copy", "wrap", "inc",
                   "poll", "read", "load", "dec"} : step \in Statement
  BY DEF Statement
<1>3. Exists(call[t].stream) => count[call[t].stream] \in Int
  BY <1>1 DEF SInv, TypeOK, Exists, FIFO
<1>4. CASE Lock(t)
  BY <1>1, <1>2, <1>4, Moves DEF Lock, At, Inside, streamVars
<1>5. CASE NextByte(t)
  <2> DEFINE out == stdOutput[Parent[t]]
             step == IF out = Console THEN "next" ELSE "write"
             new == IF out = Console THEN Null ELSE out
  <2>1. ~(out = Null) => Goto(t, step) /\ UNCHANGED fault
    BY <1>5 DEF NextByte
  <2>2. ~(out = Null) => Moved(t)
    <3>1. SUFFICES ASSUME out # Null
                   PROVE  /\ call' \in [Thread -> Record] /\ Goto(t, step)
                          /\ \A u \in Thread : u # t => call'[u] = call[u]
      BY <1>1 DEF Goto, Moved, Statement
    <3>2. call' = [call EXCEPT ![t] = [[call[t] EXCEPT !.left = call[t].left - 1]
                                          EXCEPT !.stream = new]]
      BY <1>1, <1>5, <3>1 DEF NextByte, CallTyped, Record
    <3>3. new \in FIFO \cup {Null} /\ call[t].left - 1 \in Nat
      <4>1. new \in FIFO \cup {Null}
        BY <1>1 DEF FIFO
      <4>2. call[t].left \in Nat /\ call[t].left > 0
        BY <1>1, <1>5, RecordUpdates DEF NextByte
      <4> HIDE DEF new
      <4> QED
        BY <4>1, <4>2, SMT
    <3>4. [[call[t] EXCEPT !.left = call[t].left - 1] EXCEPT !.stream = new] \in Record
      BY <1>1, <3>3 DEF Record
    <3> QED
      BY <1>1, <2>1, <3>1, <3>2, <3>4 DEF CallTyped
  <2>3. Moved(t) /\ fault' \in BOOLEAN
    BY <1>1, <1>5, <2>1, <2>2, Moves DEF NextByte
  <2> QED
    BY <1>1, <1>5, <2>3 DEF NextByte, At, Inside, streamVars
<1>6. CASE WriteEnd(t)
  BY <1>1, <1>6, Moves DEF WriteEnd, At, Inside, streamVars
<1>7. CASE WriteCheck(t)
  <2>1. Moved(t) /\ fault' \in BOOLEAN
    BY <1>1, <1>2, <1>7, Moves DEF WriteCheck
  <2> QED
    BY <1>1, <1>7, <2>1 DEF WriteCheck, At, Inside, streamVars
<1>8. CASE WriteCopy(t)
  <2>1. Moved(t) /\ fault' \in BOOLEAN
    BY <1>1, <1>2, <1>8, Moves DEF WriteCopy
  <2> QED
    BY <1>1, <1>8, <2>1, SMT DEF WriteCopy, At, Inside
<1>9. CASE WriteWrap(t)
  <2>1. Moved(t) /\ fault' \in BOOLEAN
    BY <1>1, <1>2, <1>3, <1>9, Moves DEF WriteWrap
  <2> QED
    BY <1>1, <1>9, <2>1, SMT DEF WriteWrap, Wrapped, At, Inside
<1>10. CASE WriteCount(t)
  <2>1. Moved(t) /\ fault' \in BOOLEAN
    BY <1>1, <1>2, <1>10, Moves DEF WriteCount
  <2>2. call[t].loaded \in Int
    BY <1>1, RecordUpdates
  <2> QED
    BY <1>1, <1>10, <2>1, <2>2, SMT DEF WriteCount, At, Inside, streamVars
<1>11. CASE Poll(t)
  BY <1>1, <1>2, <1>11, Moves DEF Poll, At, Inside, streamVars
<1>12. CASE ReadCheck(t)
  <2>1. Moved(t) /\ fault' \in BOOLEAN
    BY <1>1, <1>2, <1>12, Moves DEF ReadCheck
  <2> QED
    BY <1>1, <1>12, <2>1 DEF ReadCheck, At, Inside, streamVars
<1>13. CASE ReadLoad(t)
  <2>1. Moved(t) /\ fault' \in BOOLEAN
    BY <1>1, <1>2, <1>3, <1>13, Moves DEF ReadLoad
  <2> QED
    BY <1>1, <1>13, <2>1 DEF ReadLoad, At, Inside, streamVars
<1>14. CASE ReadCount(t)
  <2>1. Moved(t) /\ fault' \in BOOLEAN
    BY <1>1, <1>2, <1>14, Moves DEF ReadCount
  <2>2. call[t].loaded \in Int
    BY <1>1, RecordUpdates
  <2> QED
    BY <1>1, <1>14, <2>1, <2>2, SMT DEF ReadCount, At, Inside, streamVars
<1> QED
  BY <1>4, <1>5, <1>6, <1>7, <1>8, <1>9, <1>10, <1>11, <1>12, <1>13, <1>14
  DEF Writing, Reading
-----------------------------------------------------------------------------
(* A system call outside read and write keeps the types, and leaves no      *)
(* stream dangling or owned twice.                                          *)
LEMMA SyscallStep ==
  ASSUME SInv, NEW t \in Thread, Syscall(t)
  PROVE  SInv'
<1>1. /\ pc \in [Thread -> Statement] /\ CallTyped /\ Parent[t] \in Process
      /\ count \in [FIFO -> Int] /\ head \in [Stream -> Nat]
      /\ stdOutStream \in {0, 1} /\ fault \in BOOLEAN
  BY StdioAssumption DEF SInv, TypeOK, Statement
<1>2. CASE \E n \in 1..MaxWrite : WriteStdio(t, n)
  <2>1. PICK n \in 1..MaxWrite : WriteStdio(t, n)
    BY <1>2
  <2>2. n \in Nat
    BY StdioAssumption, SMT
  <2>3. Moved(t)
    BY <1>1, <2>1, <2>2, Moves DEF WriteStdio, Statement
  <2>4. Inside(t)
    BY <1>1, <2>1, <2>3 DEF WriteStdio, At, Inside, streamVars
  <2> QED
    BY <2>4, InsideTyped
<1>3. CASE ReadStdio(t)
  <2>1. Moved(t)
    BY <1>1, <1>3, Moves DEF ReadStdio, Statement
  <2>2. Inside(t)
    BY <1>1, <1>3, <2>1 DEF ReadStdio, At, Inside, streamVars
  <2> QED
    BY <2>2, InsideTyped
<1>4. ASSUME NEW p \in Process, NEW block \in BOOLEAN, RunProc(t, p, block)
      PROVE  SInv'
  <2>1. /\ FreeStream \in Stream \ allocated /\ allocated' = allocated \cup {FreeStream}
        /\ count' \in [FIFO -> Int] /\ head' \in [Stream -> Nat]
    BY <1>4, FreshStream DEF RunProc, SInv
  <2>2. \A u \in Thread : life'[Parent[u]] # "live" => pc'[u] = "user"
    BY <1>4, StdioAssumption DEF RunProc, SInv, TypeOK
  <2>3. TypeOK'
    <3> HIDE DEF FreeStream
    <3>1. life' \in [Process -> {"none", "blocked", "live"}]
      BY <1>4 DEF RunProc, SInv, TypeOK
    <3>2. /\ stdInput' \in [Process -> FIFO \cup {Null}]
          /\ stdOutput' \in [Process -> Stream \cup {Console, Null}]
          /\ allocated' \subseteq Stream
      BY <1>4, <2>1 DEF RunProc, SInv, TypeOK, FIFO
    <3> QED
      BY <1>4, <2>1, <2>2, <3>1, <3>2 DEF RunProc, SInv, TypeOK
  <2>4. NoDanglingStream'
    <3>1. stdInput' = [stdInput EXCEPT ![p] = FreeStream]
          /\ stdOutput' = [stdOutput EXCEPT ![p] = Console]
      BY <1>4 DEF RunProc
    <3> QED
      BY <2>1, <3>1, StdioAssumption DEF SInv, TypeOK, NoDanglingStream, FIFO
  <2> QED
    BY <1>4, <2>3, <2>4 DEF RunProc, SInv, CallTyped
<1>5. ASSUME NEW p \in Process, Unblock(t, p)
      PROVE  SInv'
  <2>1. \A u \in Thread : life'[Parent[u]] # "live" => pc'[u] = "user"
    BY <1>5, StdioAssumption DEF Unblock, SInv, TypeOK
  <2> QED
    BY <1>5, <2>1 DEF Unblock, SInv, TypeOK, CallTyped, NoDanglingStream, streamVars
<1>6. ASSUME NEW p \in Process, Redirect(t, p)
      PROVE  SInv'
  <2>1. CASE stdInput[Parent[t]] \in {Keyboard, Null}
    <3>1. /\ FreeStream \in Stream \ allocated /\ allocated' = allocated \cup {FreeStream}
          /\ count' \in [FIFO -> Int] /\ head' \in [Stream -> Nat]
      BY <1>6, <2>1, FreshStream DEF Redirect, SInv
    <3>2. /\ stdInput' = [stdInput EXCEPT ![Parent[t]] = FreeStream]
          /\ stdOutput' = [stdOutput EXCEPT ![p] = FreeStream]
          /\ UNCHANGED <<life, stdOutStream, pc, call, fault>>
      BY <1>6, <2>1 DEF Redirect
    <3> HIDE DEF FreeStream
    <3>3. TypeOK'
      <4>1. /\ stdInput' \in [Process -> FIFO \cup {Null}]
            /\ stdOutput' \in [Process -> Stream \cup {Console, Null}]
            /\ allocated' \subseteq Stream
        BY <1>1, <3>1, <3>2 DEF SInv, TypeOK, FIFO
      <4> QED
        BY <3>1, <3>2, <4>1 DEF SInv, TypeOK
    <3>4. NoDanglingStream'
      BY <1>1, <3>1, <3>2, StdioAssumption, SMT DEF SInv, TypeOK, NoDanglingStream, FIFO
    <3> QED
      BY <3>2, <3>3, <3>4 DEF SInv, CallTyped
  <2>2. CASE stdInput[Parent[t]] \notin {Keyboard, Null}
    <3>1. /\ stdOutput' = [stdOutput EXCEPT ![p] = stdInput[Parent[t]]]
          /\ UNCHANGED <<stdInput, allocated, count, head, life, stdOutStream, pc, call, fault>>
      BY <1>6, <2>2 DEF Redirect, streamVars
    <3>2. stdInput[Parent[t]] \in Stream
      BY <1>1, <2>2 DEF SInv, TypeOK, FIFO
    <3>3. TypeOK'
      BY <3>1, <3>2 DEF SInv, TypeOK
    <3>4. NoDanglingStream'
      BY <1>1, <3>1, <3>2 DEF SInv, TypeOK, NoDanglingStream
    <3> QED
      BY <3>1, <3>3, <3>4 DEF SInv, CallTyped
  <2> QED
    BY <2>1, <2>2
<1>7. CASE RedirectKeyboard(t)
  <2>1. TypeOK' /\ CallTyped'
    BY <1>1, <1>7 DEF RedirectKeyboard, SInv, TypeOK, CallTyped, streamVars, FIFO
  <2>2. NoDanglingStream'
    BY <1>1, <1>7, StdioAssumption, SMT
    DEF RedirectKeyboard, SInv, TypeOK, NoDanglingStream
  <2> QED
    BY <2>1, <2>2 DEF SInv
<1>8. CASE RemoveProcess(t)
  <2> DEFINE p == Parent[t]
  <2>1. /\ life' = [life EXCEPT ![p] = "none"]
        /\ stdInput' = [stdInput EXCEPT ![p] = Null]
        /\ stdOutput' = [q \in Process |->
                           IF q = p \/ stdOutput[q] = stdInput[p] THEN Null ELSE stdOutput[q]]
        /\ allocated' = allocated \ Deleted(stdInput[p])
        /\ UNCHANGED <<stdOutStream, fault>>
    BY <1>8 DEF RemoveProcess
  <2>2. /\ pc' = [u \in Thread |-> IF Parent[u] = p THEN "user" ELSE pc[u]]
        /\ call' = [u \in Thread |-> IF Parent[u] = p THEN NoCall ELSE call[u]]
    BY <1>8 DEF RemoveProcess
  <2>3. count' \in [FIFO -> Int] /\ head' \in [Stream -> Nat]
    BY <1>1, <1>8, SMT DEF RemoveProcess
  <2>4. CallTyped'
    BY <1>1, <2>2, RecordUpdates DEF CallTyped, Record, NoCall
  <2>5. TypeOK'
    <3>1. \A u \in Thread : life'[Parent[u]] # "live" => pc'[u] = "user"
      BY <1>1, <2>1, <2>2, StdioAssumption DEF SInv, TypeOK
    <3>2. /\ life' \in [Process -> {"none", "blocked", "live"}]
          /\ stdInput' \in [Process -> FIFO \cup {Null}]
          /\ stdOutput' \in [Process -> Stream \cup {Console, Null}]
          /\ allocated' \subseteq Stream
      BY <1>1, <2>1 DEF SInv, TypeOK
    <3>3. pc' \in [Thread -> Statement]
      BY <1>1, <2>2 DEF Statement
    <3> QED
      BY <1>1, <2>1, <2>3, <3>1, <3>2, <3>3 DEF TypeOK, Statement
  <2>6. NoDanglingStream'
    <3>1. ASSUME NEW q \in Process
          PROVE  {stdInput'[q], stdOutput'[q]} \cap Stream \subseteq allocated'
      BY <1>1, <2>1, StdioAssumption, SMT DEF SInv, TypeOK, NoDanglingStream, Deleted
    <3>2. ASSUME NEW q \in Process, NEW r \in Process, q # r, stdInput'[q] = stdInput'[r]
          PROVE  stdInput'[q] \in {Keyboard, Null}
      BY <1>1, <2>1, <3>2 DEF SInv, TypeOK, NoDanglingStream
    <3> QED
      BY <3>1, <3>2 DEF NoDanglingStream
  <2> QED
    BY <2>4, <2>5, <2>6 DEF SInv
<1> QED
  BY <1>2, <1>3, <1>4, <1>5, <1>6, <1>7, <1>8 DEF Syscall

LEMMA SInitially == Init => SInv
<1> SUFFICES ASSUME Init PROVE SInv
  OBVIOUS
<1> DEFINE first == CHOOSE s \in Stream : TRUE
<1>1. first \in Stream
  BY StdioAssumption
<1>2. /\ allocated = {first}
      /\ stdInput = [p \in Process |-> IF p = FirstProcess THEN first ELSE Null]
  BY DEF Init
<1> HIDE DEF first
<1>3. TypeOK
  <2>1. /\ life = [p \in Process |-> IF p = FirstProcess THEN "live" ELSE "none"]
        /\ stdOutput = [p \in Process |-> IF p = FirstProcess THEN Console ELSE Null]
        /\ count = [s \in FIFO |-> 0] /\ head = [s \in Stream |-> 0]
        /\ stdOutStream = 0 /\ pc = [t \in Thread |-> "user"]
    BY DEF Init
  <2>2. /\ life \in [Process -> {"none", "blocked", "live"}]
        /\ stdOutput \in [Process -> Stream \cup {Console, Null}]
    BY <2>1
  <2>3. stdInput \in [Process -> FIFO \cup {Null}] /\ allocated \subseteq Stream
    <3>1. first \in FIFO \cup {Null}
      BY <1>1 DEF FIFO
    <3> QED
      BY <1>1, <1>2, <3>1
  <2>4. /\ count \in [FIFO -> Int] /\ head \in [Stream -> Nat]
        /\ stdOutStream \in {0, 1}
    BY <2>1, SMT
  <2>5. /\ pc \in [Thread -> Statement] /\ \A t \in Thread : pc[t] = "user"
    BY <2>1 DEF Statement
  <2>6. fault \in BOOLEAN
    BY DEF Init
  <2> QED
    BY <2>2, <2>3, <2>4, <2>5, <2>6 DEF TypeOK, Statement
<1>4. CallTyped
  BY SMT DEF Init, CallTyped, Record, NoCall
<1>5. NoDanglingStream
  BY <1>1, <1>2, StdioAssumption DEF Init, NoDanglingStream
<1> QED
  BY <1>3, <1>4, <1>5 DEF SInv

LEMMA KeyPressStep ==
  ASSUME SInv, KeyPress
  PROVE  SInv'
<1>1. count[Keyboard] \in Int /\ Keyboard \in FIFO
  BY DEF SInv, TypeOK, FIFO
<1>2. count' \in [FIFO -> Int]
  BY <1>1, StdioAssumption, SMT DEF KeyPress, SInv, TypeOK
<1> QED
  BY <1>2 DEF KeyPress, SInv, TypeOK, CallTyped, NoDanglingStream, procVars

LEMMA SPreserved == SInv /\ [Next]_vars => SInv'
<1> SUFFICES ASSUME SInv, [Next]_vars PROVE SInv'
  OBVIOUS
<1>1. ASSUME NEW t \in Thread, Writing(t) \/ Reading(t)
      PROVE  SInv'
  BY <1>1, LocalStep, InsideTyped
<1>2. ASSUME NEW t \in Thread, Syscall(t)
      PROVE  SInv'
  BY <1>2, SyscallStep
<1>3. CASE KeyPress
  BY <1>3, KeyPressStep
<1>4. CASE UNCHANGED vars
  BY <1>4 DEF vars, SInv, TypeOK, CallTyped, NoDanglingStream
<1> QED
  BY <1>1, <1>2, <1>3, <1>4 DEF Next
-----------------------------------------------------------------------------
(* The variables keep their types (types of fifostream.h, process.h): in    *)
(* particular no output ever leads to the keyboard, which cannot be         *)
(* written, and a process that has exited is in the middle of no call.      *)
THEOREM TypeCorrect == Spec => []TypeOK
<1>1. SInv => TypeOK
  BY DEF SInv
<1> QED
  BY <1>1, SInitially, SPreserved, PTL DEF Spec

(* process.cpp:235-242, RemoveProcess: no process is ever left with an      *)
(* input or output that was deleted, and no two own the same stream, for    *)
(* any processes, threads, redirections and order of exits.                 *)
THEOREM StreamsExist == Spec => []NoDanglingStream
<1>1. SInv => NoDanglingStream
  BY DEF SInv
<1> QED
  BY <1>1, SInitially, SPreserved, PTL DEF Spec
-----------------------------------------------------------------------------
(***************************************************************************)
(* The lock of the console.                                                *)
(***************************************************************************)
(* Only thread t may enter or leave a message when the outputs stay. *)
LEMMA OthersStay ==
  ASSUME SInv, NEW t \in Thread, Inside(t)
  PROVE  \A u \in Thread : u # t =>
            /\ pc'[u] = pc[u] /\ stdOutput'[Parent[u]] = stdOutput[Parent[u]]
            /\ u \in InMessage' <=> u \in InMessage
BY DEF Inside, Moved, procVars, InMessage

(* While no thread of a process whose output changes is inside a write, the *)
(* messages are the same.                                                   *)
LEMMA SameMessages ==
  ASSUME OneMessage, InMessage' = InMessage, UNCHANGED stdOutStream
  PROVE  OneMessage'
BY DEF OneMessage

LEMMA LockedStep ==
  ASSUME LInv, NEW t \in Thread, Writing(t) \/ Reading(t)
  PROVE  WriterOutput' /\ OneMessage'
<1> DEFINE out == stdOutput[Parent[t]]
<1>1. Inside(t)
  BY LocalStep DEF LInv
<1>2. \A u \in Thread : u # t =>
         /\ pc'[u] = pc[u] /\ stdOutput'[Parent[u]] = stdOutput[Parent[u]]
         /\ u \in InMessage' <=> u \in InMessage
  BY <1>1, OthersStay DEF LInv
<1>3. /\ stdOutput'[Parent[t]] = out /\ pc \in [Thread -> Statement]
      /\ t \in InMessage <=> pc[t] = "next" /\ out = Console
      /\ t \in InMessage' <=> pc'[t] = "next" /\ out = Console
      /\ InMessage \subseteq Thread /\ InMessage' \subseteq Thread
  BY <1>1 DEF Inside, procVars, InMessage, LInv, SInv, TypeOK, Statement
<1>4. /\ pc[t] = "lock" => out = Console
      /\ pc[t] \in {"write", "copy", "wrap", "inc"} => out # Console
  BY DEF LInv, WriterOutput
<1> HIDE DEF out
<1>5. ASSUME pc'[t] = "lock" => out = Console,
             pc'[t] \in {"write", "copy", "wrap", "inc"} => out # Console
      PROVE  WriterOutput'
  BY <1>2, <1>3, <1>5 DEF LInv, WriterOutput
<1>6. ASSUME t \in InMessage' <=> t \in InMessage, UNCHANGED stdOutStream
      PROVE  OneMessage'
  <2>1. InMessage' = InMessage
    BY <1>2, <1>3, <1>6, SMT
  <2> QED
    BY <1>6, <2>1, SameMessages DEF LInv
<1>7. CASE Lock(t)
  <2>1. pc[t] = "lock" /\ pc'[t] = "next" /\ stdOutStream = 0 /\ stdOutStream' = 1
    BY <1>3, <1>7 DEF Lock, At, Goto
  <2>2. InMessage = {}
    BY <2>1 DEF LInv, OneMessage
  <2>3. InMessage' = {t}
    BY <1>2, <1>3, <1>4, <2>1, <2>2
  <2> QED
    BY <1>5, <2>1, <2>3, SMT DEF OneMessage
<1>8. CASE NextByte(t)
  <2>1. /\ pc[t] = "next" /\ UNCHANGED stdOutStream
        /\ pc'[t] = "next" \/ (pc'[t] = "write" /\ out # Console)
    BY <1>3, <1>8 DEF NextByte, At, Goto, Fault, out
  <2> QED
    BY <1>3, <1>5, <1>6, <2>1
<1>9. CASE WriteEnd(t)
  <2>1. /\ pc[t] = "next" /\ pc'[t] = "user"
        /\ stdOutStream' = IF out = Console THEN 0 ELSE stdOutStream
    BY <1>3, <1>9 DEF WriteEnd, At, Goto, Return, out
  <2>2. CASE out = Console
    <3>1. stdOutStream \in {0, 1} /\ t \in InMessage
      BY <1>3, <2>1, <2>2 DEF LInv, SInv, TypeOK
    <3>2. InMessage = {t}
      BY <3>1 DEF LInv, OneMessage
    <3>3. InMessage' = {}
      BY <1>2, <1>3, <2>1, <3>2
    <3> QED
      BY <1>5, <2>1, <2>2, <3>3, SMT DEF OneMessage
  <2>3. CASE out # Console
    BY <1>3, <1>5, <1>6, <2>1, <2>3
  <2> QED
    BY <2>2, <2>3
<1>10. CASE WriteCheck(t) \/ WriteCopy(t) \/ WriteWrap(t) \/ WriteCount(t)
  <2>1. /\ pc[t] \in {"write", "copy", "wrap", "inc"} /\ UNCHANGED stdOutStream
        /\ pc'[t] \in {"write", "next", "copy", "wrap", "inc"}
    <3>1. CASE WriteCheck(t)
      BY <1>3, <3>1 DEF WriteCheck, At, Goto, Fault, ByteDone
    <3>2. CASE WriteCopy(t)
      BY <1>3, <3>2 DEF WriteCopy, At, Goto, Fault
    <3>3. CASE WriteWrap(t)
      BY <1>3, <3>3 DEF WriteWrap, At, Goto, Fault
    <3>4. CASE WriteCount(t)
      BY <1>3, <3>4 DEF WriteCount, At, Goto, Fault, ByteDone
    <3> QED
      BY <1>10, <3>1, <3>2, <3>3, <3>4
  <2> QED
    BY <1>3, <1>4, <1>5, <1>6, <2>1
<1>11. CASE Reading(t)
  <2>1. /\ pc[t] \in {"poll", "read", "load", "dec"} /\ UNCHANGED stdOutStream
        /\ pc'[t] \in {"user", "read", "load", "dec"}
    <3>1. CASE Poll(t)
      BY <1>3, <3>1 DEF Poll, At, Goto
    <3>2. CASE ReadCheck(t)
      BY <1>3, <3>2 DEF ReadCheck, At, Goto, Fault, Return
    <3>3. CASE ReadLoad(t)
      BY <1>3, <3>3 DEF ReadLoad, At, Goto, Fault
    <3>4. CASE ReadCount(t)
      BY <1>3, <3>4 DEF ReadCount, At, Goto, Fault, Return
    <3> QED
      BY <1>11, <3>1, <3>2, <3>3, <3>4 DEF Reading
  <2> QED
    BY <1>3, <1>5, <1>6, <2>1
<1> QED
  BY <1>7, <1>8, <1>9, <1>10, <1>11 DEF Writing

(* The calls that change outputs do so for processes whose threads are in   *)
(* no write: with one thread each, the caller's own process is one of them. *)
LEMMA LockedSyscall ==
  ASSUME LInv, SingleThreaded, NEW t \in Thread, Syscall(t)
  PROVE  WriterOutput' /\ OneMessage'
<1>1. /\ pc \in [Thread -> Statement] /\ Parent \in [Thread -> Process]
      /\ stdOutput \in [Process -> Stream \cup {Console, Null}]
      /\ stdInput \in [Process -> FIFO \cup {Null}]
      /\ life \in [Process -> {"none", "blocked", "live"}]
      /\ \A u \in Thread : life[Parent[u]] # "live" => pc[u] = "user"
      /\ WriterOutput /\ OneMessage
  BY StdioAssumption DEF LInv, SInv, TypeOK, Statement
<1>2. pc[t] = "user"
  BY DEF Syscall, WriteStdio, ReadStdio, RunProc, Unblock, Redirect, RedirectKeyboard,
         RemoveProcess, At
<1>3. ASSUME \A u \in Thread :
               \/ pc'[u] = pc[u] /\ (\/ pc[u] = "user"
                                    \/ stdOutput'[Parent[u]] = stdOutput[Parent[u]]
                                    \/ {stdOutput'[Parent[u]], stdOutput[Parent[u]]}
                                          \cap {Console} = {})
               \/ pc[u] = "user" /\ pc'[u] \in {"user", "poll"}
               \/ /\ pc[u] = "user"
                  /\ pc'[u] = IF stdOutput'[Parent[u]] = Console THEN "lock" ELSE "next",
             UNCHANGED stdOutStream
      PROVE  WriterOutput' /\ OneMessage'
  <2>1. ASSUME NEW u \in Thread
        PROVE  /\ pc'[u] = "lock" => stdOutput'[Parent[u]] = Console
               /\ pc'[u] \in {"write", "copy", "wrap", "inc"}
                    => stdOutput'[Parent[u]] # Console
               /\ (pc'[u] = "next" /\ stdOutput'[Parent[u]] = Console)
                    <=> (pc[u] = "next" /\ stdOutput[Parent[u]] = Console)
    BY <1>1, <1>3 DEF WriterOutput
  <2>2. InMessage' = InMessage
    BY <2>1 DEF InMessage
  <2> QED
    BY <1>1, <1>3, <2>1, <2>2, SameMessages DEF WriterOutput
<1>4. ASSUME NEW n \in 1..MaxWrite, WriteStdio(t, n)
      PROVE  WriterOutput' /\ OneMessage'
  BY <1>1, <1>2, <1>3, <1>4 DEF WriteStdio, Goto, procVars
<1>5. CASE ReadStdio(t)
  BY <1>1, <1>2, <1>3, <1>5 DEF ReadStdio, Goto, procVars
<1>6. ASSUME NEW p \in Process, NEW block \in BOOLEAN, RunProc(t, p, block)
      PROVE  WriterOutput' /\ OneMessage'
  BY <1>1, <1>3, <1>6 DEF RunProc
<1>7. ASSUME NEW p \in Process, Unblock(t, p)
      PROVE  WriterOutput' /\ OneMessage'
  BY <1>1, <1>3, <1>7 DEF Unblock
<1>8. ASSUME NEW p \in Process, Redirect(t, p)
      PROVE  WriterOutput' /\ OneMessage'
  <2>1. /\ life[p] = "blocked" /\ UNCHANGED <<pc, stdOutStream>>
        /\ \A q \in Process : q # p => stdOutput'[q] = stdOutput[q]
    BY <1>1, <1>8 DEF Redirect
  <2> QED
    BY <1>1, <1>3, <2>1
<1>9. CASE RedirectKeyboard(t)
  BY <1>1, <1>3, <1>9 DEF RedirectKeyboard
<1>10. CASE RemoveProcess(t)
  <2>1. /\ UNCHANGED stdOutStream
        /\ pc' = [u \in Thread |-> IF Parent[u] = Parent[t] THEN "user" ELSE pc[u]]
        /\ stdOutput' = [q \in Process |-> IF \/ q = Parent[t]
                                                \/ stdOutput[q] = stdInput[Parent[t]]
                                             THEN Null ELSE stdOutput[q]]
    BY <1>10 DEF RemoveProcess
  <2>2. stdInput[Parent[t]] # Console /\ Null # Console
    BY <1>1, StdioAssumption DEF FIFO
  <2>3. ASSUME NEW u \in Thread, u # t
        PROVE  /\ pc'[u] = pc[u]
               /\ \/ stdOutput'[Parent[u]] = stdOutput[Parent[u]]
                  \/ {stdOutput'[Parent[u]], stdOutput[Parent[u]]} \cap {Console} = {}
    <3>1. Parent[u] # Parent[t] /\ Parent[u] \in Process
      BY <1>1, <2>3 DEF SingleThreaded
    <3> QED
      BY <2>1, <2>2, <3>1
  <2>4. pc'[t] = "user"
    BY <2>1
  <2> QED
    BY <1>2, <1>3, <2>1, <2>3, <2>4
<1> QED
  BY <1>4, <1>5, <1>6, <1>7, <1>8, <1>9, <1>10 DEF Syscall

LEMMA LInitially == Init => LInv
<1> SUFFICES ASSUME Init PROVE LInv
  OBVIOUS
<1>1. stdOutStream = 0 /\ \A t \in Thread : pc[t] = "user"
  BY DEF Init
<1> QED
  BY <1>1, SInitially, SMT DEF LInv, WriterOutput, OneMessage, InMessage

LEMMA LPreserved == SingleThreaded /\ LInv /\ [Next]_vars => LInv'
<1> SUFFICES ASSUME SingleThreaded, LInv, [Next]_vars PROVE WriterOutput' /\ OneMessage'
  BY SPreserved DEF LInv
<1>1. ASSUME NEW t \in Thread, Writing(t) \/ Reading(t)
      PROVE  WriterOutput' /\ OneMessage'
  BY <1>1, LockedStep
<1>2. ASSUME NEW t \in Thread, Syscall(t)
      PROVE  WriterOutput' /\ OneMessage'
  BY <1>2, LockedSyscall
<1>3. CASE KeyPress \/ UNCHANGED vars
  BY <1>3 DEF KeyPress, vars, procVars, LInv, WriterOutput, OneMessage, InMessage
<1> QED
  BY <1>1, <1>2, <1>3 DEF Next

(* cactusos.cpp:317-326, "output text does not get mixed up": when every    *)
(* process has one thread, at most one message to the console is being      *)
(* written at any time, and the lock is taken exactly as long as one is.  A *)
(* second thread (SYSCALL_START_THREAD) could make its process exit in the  *)
(* middle of a message, with the lock taken.                                *)
THEOREM ConsoleNotMixed == SingleThreaded => (Spec => []OutputNotMixed)
<1> SUFFICES ASSUME SingleThreaded PROVE Spec => []OutputNotMixed
  OBVIOUS
<1>1. LInv /\ [Next]_vars => LInv'
  BY LPreserved
<1>2. LInv => OutputNotMixed
  <2> SUFFICES ASSUME LInv PROVE OutputNotMixed
    OBVIOUS
  <2>1. stdOutStream \in {0, 1} /\ OneMessage
    BY DEF LInv, SInv, TypeOK
  <2>2. CASE stdOutStream = 0
    BY <2>1, <2>2, FS_EmptySet DEF OneMessage, OutputNotMixed
  <2>3. CASE stdOutStream = 1
    <3>1. PICK t \in Thread : InMessage = {t}
      BY <2>1, <2>3 DEF OneMessage
    <3>2. Cardinality({t}) = 1
      BY FS_Singleton
    <3> QED
      BY <2>3, <3>1, <3>2 DEF OutputNotMixed
  <2> QED
    BY <2>1, <2>2, <2>3
<1> QED
  BY <1>1, <1>2, LInitially, PTL DEF Spec
-----------------------------------------------------------------------------
(***************************************************************************)
(* The bytes of a stream.  FIFOStream has no lock, so what follows is      *)
(* about streams that one thread at a time writes.                         *)
(***************************************************************************)
(* What a call has found out stays true until it acts on it: a reader works *)
(* on its process's own input, and nobody else takes the byte it saw;       *)
(* nobody else fills the room a writer saw.                                 *)
CallSound(t) ==
    /\ pc[t] \in {"poll", "read", "load", "dec"} => stdInput[Parent[t]] \in FIFO
    /\ pc[t] \in {"read", "load", "dec"} => call[t].stream = stdInput[Parent[t]]
    /\ pc[t] = "load" => count[call[t].stream] > 0
    /\ pc[t] = "dec" => call[t].loaded \in 1..capacity
    /\ pc[t] \in WriteStep => call[t].stream \in Stream
    /\ pc[t] \in {"copy", "wrap"} => count[call[t].stream] < capacity
    /\ pc[t] = "inc" => call[t].loaded \in 0..(capacity - 1)

(* head is at the end of the buffer only until its writer has wrapped it. *)
HeadSound ==
    \A s \in Stream :
        /\ head[s] <= capacity
        /\ head[s] = capacity => \E t \in Thread : pc[t] = "wrap" /\ call[t].stream = s

KeyboardOwner == \A p \in Process : stdInput[p] = Keyboard => p = FirstProcess

CInv == /\ SInv /\ KeyboardOwner /\ CountInRange /\ HeadSound
        /\ \A t \in Thread : CallSound(t)

(* No two threads read the same stream. *)
LEMMA OneReader ==
  ASSUME CInv, SingleThreaded, NEW t \in Thread, NEW u \in Thread, t # u,
         pc[t] \in {"read", "load", "dec"}, pc[u] \in {"read", "load", "dec"}
  PROVE  call[t].stream # call[u].stream
<1>1. Parent[t] \in Process /\ Parent[u] \in Process /\ Parent[t] # Parent[u]
  BY StdioAssumption DEF SingleThreaded
<1>2. /\ call[t].stream = stdInput[Parent[t]] /\ call[u].stream = stdInput[Parent[u]]
      /\ stdInput[Parent[t]] \in FIFO
  BY DEF CInv, CallSound
<1> QED
  BY <1>1, <1>2, StdioAssumption DEF CInv, SInv, NoDanglingStream, KeyboardOwner, FIFO

(* What a step of t must leave to the others. *)
LEMMA OthersSound ==
  ASSUME CInv, NEW t \in Thread, Moved(t), UNCHANGED stdInput,
         \A u \in Thread \ {t} :
            /\ pc[u] = "load" => count'[call[u].stream] > 0
            /\ pc[u] \in {"copy", "wrap"} => count'[call[u].stream] < capacity
  PROVE  \A u \in Thread \ {t} : CallSound(u)'
BY DEF CInv, CallSound, Moved

LEMMA HeadKept ==
  ASSUME CInv, NEW t \in Thread, Moved(t), UNCHANGED head, pc[t] # "wrap"
  PROVE  HeadSound'
BY SMT DEF CInv, HeadSound, Moved

LEMMA CountBounds ==
  ASSUME CInv, NEW s \in FIFO
  PROVE  /\ count[s] \in Int /\ capacity \in Nat \ {0}
         /\ 0 <= count[s] /\ count[s] <= capacity
BY StdioAssumption, SMT DEF CInv, CountInRange

(* A step inside a write: t may fill the last room of its stream, where no  *)
(* other thread counts on room.                                             *)
LEMMA WritingCounts ==
  ASSUME CInv, OneWriter, NEW t \in Thread, Writing(t)
  PROVE  CountInRange' /\ HeadSound' /\ \A u \in Thread : CallSound(u)'
<1> DEFINE s == call[t].stream
<1>1. /\ Moved(t) /\ UNCHANGED <<stdInput, stdOutput, allocated>>
      /\ count' \in [FIFO -> Int] /\ head' \in [Stream -> Nat]
  <2>1. Inside(t)
    BY LocalStep DEF CInv
  <2> QED
    BY <2>1 DEF Inside, procVars
<1>2. /\ count \in [FIFO -> Int] /\ head \in [Stream -> Nat] /\ call \in [Thread -> Record]
      /\ pc \in [Thread -> Statement] /\ stdOutput[Parent[t]] \in Stream \cup {Console, Null}
      /\ allocated \subseteq Stream /\ Stream \subseteq FIFO
      /\ CountInRange /\ HeadSound /\ CallSound(t) /\ capacity \in Nat \ {0}
  BY StdioAssumption DEF CInv, SInv, TypeOK, CallTyped, Statement, FIFO
<1>3. ASSUME UNCHANGED count
      PROVE  CountInRange' /\ \A u \in Thread \ {t} : CallSound(u)'
  <2>1. \A u \in Thread \ {t} :
          /\ pc[u] = "load" => count'[call[u].stream] > 0
          /\ pc[u] \in {"copy", "wrap"} => count'[call[u].stream] < capacity
    BY <1>3 DEF CInv, CallSound
  <2> QED
    BY <1>1, <1>2, <1>3, <2>1, OthersSound DEF CountInRange
<1>4. CASE Lock(t) \/ NextByte(t) \/ WriteEnd(t)
  <2>1. UNCHANGED <<count, head>> /\ pc[t] \in {"lock", "next"}
    BY <1>4 DEF Lock, NextByte, WriteEnd, At, streamVars
  <2>2. CallSound(t)'
    <3>1. CASE Lock(t)
      BY <1>2, <3>1 DEF Lock, Goto, CallSound, WriteStep
    <3>2. CASE WriteEnd(t)
      BY <1>2, <3>2 DEF WriteEnd, Return, Goto, CallSound, WriteStep
    <3>3. CASE NextByte(t)
      <4>1. CASE stdOutput[Parent[t]] = Null
        BY <1>2, <2>1, <3>3, <4>1 DEF NextByte, Fault, CallSound, WriteStep
      <4>2. CASE stdOutput[Parent[t]] = Console
        BY <1>2, <3>3, <4>2, StdioAssumption DEF NextByte, Goto, CallSound, WriteStep
      <4>3. CASE stdOutput[Parent[t]] \in Stream
        <5>1. stdOutput[Parent[t]] # Console /\ stdOutput[Parent[t]] # Null
          BY <4>3, StdioAssumption
        <5>2. pc'[t] = "write" /\ call'[t].stream = stdOutput[Parent[t]]
          BY <1>2, <3>3, <5>1, SMT DEF NextByte, Goto, Record
        <5> QED
          BY <4>3, <5>2 DEF CallSound
      <4> QED
        BY <1>2, <4>1, <4>2, <4>3
    <3> QED
      BY <1>4, <3>1, <3>2, <3>3
  <2> QED
    BY <1>1, <1>3, <2>1, <2>2, HeadKept
<1>5. CASE WriteCheck(t)
  <2>1. UNCHANGED <<count, head>> /\ pc[t] = "write" /\ s \in Stream
    BY <1>2, <1>5 DEF WriteCheck, At, streamVars, CallSound, WriteStep
  <2>2. CallSound(t)'
    <3>1. CASE Fault(t)
      BY <1>1, <1>2, <2>1, <3>1 DEF Fault, CallSound
    <3>2. CASE ByteDone(t)
      BY <1>2, <3>2 DEF ByteDone, Goto, CallSound, WriteStep
    <3>3. CASE count[s] # capacity /\ Goto(t, "copy") /\ UNCHANGED call
      <4>1. count[s] \in 0..capacity
        BY <1>2, <2>1 DEF CountInRange
      <4>2. count[s] < capacity
        BY <1>2, <3>3, <4>1, SMT
      <4>3. pc'[t] = "copy"
        BY <1>2, <3>3 DEF Goto
      <4> QED
        BY <2>1, <3>3, <4>2, <4>3 DEF CallSound, WriteStep
    <3> QED
      BY <1>5, <3>1, <3>2, <3>3 DEF WriteCheck
  <2> QED
    BY <1>1, <1>3, <2>1, <2>2, HeadKept
<1>6. CASE WriteCopy(t)
  <2>1. UNCHANGED count /\ pc[t] = "copy" /\ s \in Stream /\ count[s] < capacity
    BY <1>2, <1>6 DEF WriteCopy, At, CallSound, WriteStep
  <2>2. CASE Fault(t) /\ UNCHANGED head
    <3>1. CallSound(t)'
      BY <1>1, <1>2, <2>1, <2>2 DEF Fault, CallSound
    <3> QED
      BY <1>1, <1>3, <2>1, <2>2, <3>1, HeadKept
  <2>3. CASE head' = [head EXCEPT ![s] = @ + 1] /\ Goto(t, "wrap") /\ UNCHANGED call
    <3>1. pc'[t] = "wrap"
      BY <1>2, <2>3 DEF Goto
    <3>2. CallSound(t)'
      BY <2>1, <2>3, <3>1 DEF CallSound, WriteStep
    <3>3. head[s] < capacity
      <4>1. head[s] <= capacity /\ head[s] \in Nat
            /\ (head[s] = capacity => \E u \in Thread : pc[u] = "wrap" /\ call[u].stream = s)
        BY <1>2, <2>1 DEF HeadSound
      <4>2. ~ \E u \in Thread : pc[u] = "wrap" /\ call[u].stream = s
        BY <2>1 DEF OneWriter, WriteStep
      <4> QED
        BY <1>2, <4>1, <4>2, SMT
    <3>4. HeadSound'
      <4>1. ASSUME NEW r \in Stream, r # s
            PROVE  /\ head'[r] <= capacity
                   /\ head'[r] = capacity =>
                        \E u \in Thread : pc'[u] = "wrap" /\ call'[u].stream = r
        <5>1. head'[r] = head[r]
          BY <1>2, <2>3, <4>1
        <5>2. \A u \in Thread : pc[u] = "wrap" => pc'[u] = "wrap"
          BY <1>1, <2>1 DEF Moved
        <5> QED
          BY <1>2, <2>3, <5>1, <5>2 DEF HeadSound
      <4>2. head'[s] <= capacity
        BY <1>2, <2>1, <2>3, <3>3, SMT
      <4> QED
        BY <2>3, <3>1, <4>1, <4>2 DEF HeadSound
    <3> QED
      BY <1>3, <2>1, <3>2, <3>4
  <2> QED
    BY <1>6, <2>2, <2>3 DEF WriteCopy
<1>7. CASE WriteWrap(t)
  <2>1. UNCHANGED count /\ pc[t] = "wrap" /\ s \in Stream /\ count[s] < capacity
    BY <1>2, <1>7 DEF WriteWrap, At, CallSound, WriteStep
  <2>2. CASE Fault(t) /\ UNCHANGED head
    <3>1. CallSound(t)' /\ HeadSound'
      BY <1>1, <1>2, <2>1, <2>2 DEF Fault, CallSound, HeadSound
    <3> QED
      BY <1>3, <2>1, <3>1
  <2>3. CASE /\ head' = [head EXCEPT ![s] = Wrapped(@)]
             /\ Goto(t, "inc") /\ Local(t, "loaded", count[s])
    <3>1. pc'[t] = "inc" /\ call'[t].stream = s /\ call'[t].loaded = count[s]
      BY <1>2, <2>3 DEF Goto, Local, Record
    <3>2. count[s] \in 0..(capacity - 1)
      <4>1. s \in FIFO
        BY <2>1 DEF FIFO
      <4> QED
        BY <2>1, <4>1, CountBounds, SMT
    <3>3. CallSound(t)'
      BY <2>1, <3>1, <3>2 DEF CallSound, WriteStep
    <3>4. HeadSound'
      <4>1. ASSUME NEW r \in Stream, r # s
            PROVE  /\ head'[r] <= capacity
                   /\ head'[r] = capacity =>
                        \E u \in Thread : pc'[u] = "wrap" /\ call'[u].stream = r
        <5>1. head'[r] = head[r]
          BY <1>2, <2>3, <4>1
        <5>2. \A u \in Thread : pc[u] = "wrap" /\ call[u].stream = r
                                => pc'[u] = "wrap" /\ call'[u].stream = r
          BY <1>1, <4>1 DEF Moved
        <5> QED
          BY <1>2, <5>1, <5>2 DEF HeadSound
      <4>2. head'[s] < capacity
        BY <1>2, <2>1, <2>3, SMT DEF Wrapped, HeadSound
      <4>3. head'[s] # capacity /\ head'[s] <= capacity
        BY <1>1, <2>1, <4>2, StdioAssumption, SMT
      <4> QED
        BY <4>1, <4>3 DEF HeadSound
    <3> QED
      BY <1>3, <2>1, <3>3, <3>4
  <2> QED
    BY <1>7, <2>2, <2>3 DEF WriteWrap
<1>8. CASE WriteCount(t)
  <2>1. pc[t] = "inc" /\ s \in Stream /\ call[t].loaded \in 0..(capacity - 1)
    BY <1>2, <1>8 DEF WriteCount, At, CallSound, WriteStep
  <2>2. CASE Fault(t) /\ UNCHANGED streamVars
    <3>1. CallSound(t)' /\ UNCHANGED <<count, head>>
      BY <1>1, <1>2, <2>1, <2>2 DEF Fault, CallSound, streamVars
    <3> QED
      BY <1>1, <1>3, <2>1, <3>1, HeadKept
  <2>3. CASE /\ count' = [count EXCEPT ![s] = call[t].loaded + 1]
             /\ ByteDone(t) /\ UNCHANGED head
    <3>1. /\ count'[s] \in 1..capacity /\ \A r \in FIFO : r # s => count'[r] = count[r]
      <4>1. s \in FIFO /\ count \in [FIFO -> Int]
        BY <1>2, <2>1
      <4> QED
        BY <2>1, <2>3, <4>1, StdioAssumption, SMT
    <3>2. CallSound(t)'
      BY <1>2, <2>3 DEF ByteDone, Goto, CallSound, WriteStep
    <3>3. CountInRange'
      BY <3>1, StdioAssumption, SMT DEF CInv, CountInRange
    <3>4. ASSUME NEW u \in Thread \ {t}
          PROVE  /\ pc[u] = "load" => count'[call[u].stream] > 0
                 /\ pc[u] \in {"copy", "wrap"} => count'[call[u].stream] < capacity
      <4>1. CallSound(u)
        BY DEF CInv
      <4>2. CASE pc[u] = "load"
        <5>1. call[u].stream \in FIFO /\ count[call[u].stream] > 0
          BY <4>1, <4>2 DEF CallSound
        <5> QED
          BY <3>1, <4>2, <5>1, StdioAssumption, SMT
      <4>3. CASE pc[u] \in {"copy", "wrap"}
        <5>1. call[u].stream # s /\ call[u].stream \in FIFO
          BY <1>2, <2>1, <3>4, <4>1, <4>3 DEF OneWriter, WriteStep, CallSound
        <5> QED
          BY <3>1, <4>1, <4>3, <5>1 DEF CallSound
      <4> QED
        BY <4>2, <4>3
    <3> QED
      BY <1>1, <2>1, <2>3, <3>2, <3>3, <3>4, OthersSound, HeadKept
  <2> QED
    BY <1>8, <2>2, <2>3 DEF WriteCount
<1> QED
  BY <1>4, <1>5, <1>6, <1>7, <1>8 DEF Writing

(* A step inside a read: the byte t saw is still there, since no other      *)
(* thread reads its process's input.                                        *)
LEMMA ReadingCounts ==
  ASSUME CInv, SingleThreaded, NEW t \in Thread, Reading(t)
  PROVE  CountInRange' /\ HeadSound' /\ \A u \in Thread : CallSound(u)'
<1> DEFINE s == call[t].stream
           in == stdInput[Parent[t]]
<1>1. /\ Moved(t) /\ UNCHANGED <<stdInput, stdOutput, allocated>>
      /\ count' \in [FIFO -> Int] /\ head' \in [Stream -> Nat]
  <2>1. Inside(t)
    BY LocalStep DEF CInv
  <2> QED
    BY <2>1 DEF Inside, procVars
<1>2. /\ count \in [FIFO -> Int] /\ call \in [Thread -> Record]
      /\ pc \in [Thread -> Statement]
      /\ CountInRange /\ CallSound(t) /\ capacity \in Nat \ {0}
  BY StdioAssumption DEF CInv, SInv, TypeOK, CallTyped, Statement
<1>3. /\ pc[t] \in {"poll", "read", "load", "dec"} /\ UNCHANGED head /\ in \in FIFO
      /\ pc[t] # "poll" => s = in
  BY <1>2 DEF Reading, Poll, ReadCheck, ReadLoad, ReadCount, At, streamVars, CallSound
<1>4. HeadSound'
  BY <1>1, <1>3, HeadKept
<1>5. ASSUME UNCHANGED count
      PROVE  CountInRange' /\ \A u \in Thread \ {t} : CallSound(u)'
  <2>1. \A u \in Thread \ {t} :
          /\ pc[u] = "load" => count'[call[u].stream] > 0
          /\ pc[u] \in {"copy", "wrap"} => count'[call[u].stream] < capacity
    BY <1>5 DEF CInv, CallSound
  <2> QED
    BY <1>1, <1>2, <1>5, <2>1, OthersSound DEF CountInRange
<1>6. ASSUME Fault(t)
      PROVE  UNCHANGED count => CallSound(t)'
  BY <1>1, <1>2, <1>6 DEF Fault, CallSound
<1>7. Return(t) => CallSound(t)'
  BY <1>2 DEF Return, Goto, CallSound, WriteStep
<1>8. CASE Poll(t)
  <2>1. UNCHANGED count /\ pc'[t] = "read" /\ call'[t].stream = in
    BY <1>2, <1>8 DEF Poll, Goto, Local, streamVars, Record
  <2>2. CallSound(t)'
    BY <1>1, <1>3, <2>1 DEF CallSound, WriteStep
  <2> QED
    BY <1>4, <1>5, <2>1, <2>2
<1>9. CASE ReadCheck(t)
  <2>1. UNCHANGED count /\ pc[t] = "read"
    BY <1>9 DEF ReadCheck, At, streamVars
  <2>2. CASE count[s] # 0 /\ Goto(t, "load") /\ UNCHANGED call
    <3>1. count[s] > 0
      BY <1>3, <2>1, <2>2, CountBounds, SMT
    <3>2. pc'[t] = "load"
      BY <1>2, <2>2 DEF Goto
    <3> QED
      BY <1>1, <1>3, <1>4, <1>5, <2>1, <2>2, <3>1, <3>2 DEF CallSound, WriteStep
  <2> QED
    BY <1>4, <1>5, <1>6, <1>7, <1>9, <2>1, <2>2 DEF ReadCheck
<1>10. CASE ReadLoad(t)
  <2>1. UNCHANGED count /\ pc[t] = "load"
    BY <1>10 DEF ReadLoad, At, streamVars
  <2>2. CASE Goto(t, "dec") /\ Local(t, "loaded", count[s])
    <3>1. pc'[t] = "dec" /\ call'[t].stream = s /\ call'[t].loaded = count[s]
      BY <1>2, <2>2 DEF Goto, Local, Record
    <3>2. count[s] \in 1..capacity
      BY <1>2, <1>3, <2>1, SMT DEF CountInRange, CallSound
    <3>3. CallSound(t)'
      BY <1>1, <1>3, <2>1, <3>1, <3>2 DEF CallSound, WriteStep
    <3> QED
      BY <1>4, <1>5, <2>1, <3>3
  <2> QED
    BY <1>4, <1>5, <1>6, <1>10, <2>1, <2>2 DEF ReadLoad
<1>11. CASE ReadCount(t)
  <2>1. pc[t] = "dec" /\ call[t].loaded \in 1..capacity /\ s \in FIFO
    BY <1>2, <1>3, <1>11 DEF ReadCount, At, CallSound
  <2>2. CASE Fault(t) /\ UNCHANGED streamVars
    BY <1>4, <1>5, <1>6, <2>2 DEF streamVars
  <2>3. CASE count' = [count EXCEPT ![s] = call[t].loaded - 1] /\ Return(t)
    <3>1. /\ count'[s] \in 0..(capacity - 1) /\ \A r \in FIFO : r # s => count'[r] = count[r]
      BY <1>2, <2>1, <2>3, SMT
    <3>2. CountInRange'
      BY <1>2, <3>1, SMT DEF CountInRange
    <3>3. ASSUME NEW u \in Thread \ {t}
          PROVE  /\ pc[u] = "load" => count'[call[u].stream] > 0
                 /\ pc[u] \in {"copy", "wrap"} => count'[call[u].stream] < capacity
      <4>1. CallSound(u)
        BY DEF CInv
      <4>2. CASE pc[u] = "load"
        <5>1. call[u].stream # s
          BY <2>1, <3>3, <4>2, OneReader
        <5> QED
          BY <3>1, <4>1, <4>2, <5>1 DEF CallSound
      <4>3. CASE pc[u] \in {"copy", "wrap"}
        <5>1. call[u].stream \in FIFO
          BY <4>1, <4>3 DEF CallSound, WriteStep, FIFO
        <5>2. count[call[u].stream] < capacity
          BY <4>1, <4>3 DEF CallSound
        <5> QED
          BY <3>1, <4>3, <5>1, <5>2, StdioAssumption, SMT
      <4> QED
        BY <4>2, <4>3
    <3> QED
      BY <1>1, <1>4, <1>7, <2>3, <3>2, <3>3, OthersSound
  <2> QED
    BY <1>11, <2>2, <2>3 DEF ReadCount
<1> QED
  BY <1>8, <1>9, <1>10, <1>11 DEF Reading

(* A step that makes or deletes a stream, as the others see it: their input *)
(* is what it was, and a stream that changes is empty now and not theirs.   *)
LEMMA StreamsReset ==
  ASSUME CInv, NEW t \in Thread, NEW D \in SUBSET Stream,
         \A u \in Thread \ {t} :
            /\ pc'[u] = pc[u] /\ call'[u] = call[u]
            /\ pc[u] # "user" => /\ stdInput'[Parent[u]] = stdInput[Parent[u]]
                                 /\ stdInput[Parent[u]] \notin D,
         pc[t] = "user", pc'[t] \in {"user", "lock", "next"},
         \A s \in FIFO : count'[s] = IF s \in D THEN 0 ELSE count[s],
         \A s \in Stream : head'[s] = IF s \in D THEN 0 ELSE head[s]
  PROVE  CountInRange' /\ HeadSound' /\ \A u \in Thread : CallSound(u)'
<1>1. capacity \in Nat \ {0} /\ CountInRange /\ HeadSound /\ Stream \subseteq FIFO
  BY StdioAssumption DEF CInv, FIFO
<1>2. CountInRange'
  BY <1>1, SMT DEF CountInRange
<1>3. HeadSound'
  <2>1. ASSUME NEW s \in Stream
        PROVE  /\ head'[s] <= capacity
               /\ head'[s] = capacity =>
                    \E u \in Thread : pc'[u] = "wrap" /\ call'[u].stream = s
    <3>1. \A u \in Thread : pc[u] = "wrap" => pc'[u] = "wrap" /\ call'[u] = call[u]
      OBVIOUS
    <3> QED
      BY <1>1, <3>1, SMT DEF HeadSound
  <2> QED
    BY <2>1 DEF HeadSound
<1>4. ASSUME NEW u \in Thread \ {t}
      PROVE  CallSound(u)'
  <2>1. CallSound(u) /\ pc'[u] = pc[u] /\ call'[u] = call[u]
    BY DEF CInv
  <2>2. CASE pc[u] \in WriteStep
    <3>1. call[u].stream \in Stream /\ call[u].stream \in FIFO
      BY <1>1, <2>1, <2>2 DEF CallSound
    <3>2. pc[u] \in {"copy", "wrap"} => count'[call[u].stream] < capacity
      <4>1. pc[u] \in {"copy", "wrap"} => count[call[u].stream] < capacity
        BY <2>1 DEF CallSound
      <4>2. count'[call[u].stream] \in {0, count[call[u].stream]}
        BY <3>1
      <4> QED
        BY <1>1, <4>1, <4>2, SMT
    <3> QED
      BY <2>1, <2>2, <3>1, <3>2 DEF CallSound, WriteStep
  <2>3. CASE pc[u] \in {"poll", "read", "load", "dec"}
    <3>1. stdInput'[Parent[u]] = stdInput[Parent[u]] /\ stdInput[Parent[u]] \in FIFO \ D
      BY <2>1, <2>3 DEF CallSound
    <3>2. count'[stdInput[Parent[u]]] = count[stdInput[Parent[u]]]
      BY <3>1
    <3> QED
      BY <2>1, <2>3, <3>1, <3>2, SMT DEF CallSound, WriteStep
  <2>4. CASE pc[u] \notin WriteStep \cup {"poll", "read", "load", "dec"}
    BY <2>1, <2>4 DEF CallSound, WriteStep
  <2> QED
    BY <2>2, <2>3, <2>4
<1>5. CallSound(t)'
  BY DEF CallSound, WriteStep
<1> QED
  BY <1>2, <1>3, <1>4, <1>5

(* The other system calls: with one thread per process, no call is under    *)
(* way in a process whose input changes.                                    *)
LEMMA SyscallCounts ==
  ASSUME CInv, SingleThreaded, NEW t \in Thread, Syscall(t)
  PROVE  KeyboardOwner' /\ CountInRange' /\ HeadSound' /\ \A u \in Thread : CallSound(u)'
<1>1. /\ count \in [FIFO -> Int] /\ head \in [Stream -> Nat] /\ call \in [Thread -> Record]
      /\ pc \in [Thread -> Statement] /\ stdInput \in [Process -> FIFO \cup {Null}]
      /\ \A u \in Thread : life[Parent[u]] # "live" => pc[u] = "user"
      /\ allocated \subseteq Stream /\ Stream \subseteq FIFO
      /\ Parent \in [Thread -> Process] /\ KeyboardOwner /\ NoDanglingStream
      /\ \A u \in Thread : CallSound(u)
  BY StdioAssumption DEF CInv, SInv, TypeOK, CallTyped, Statement, FIFO
<1>2. pc[t] = "user" /\ \A u \in Thread \ {t} : Parent[u] # Parent[t]
  BY DEF Syscall, WriteStdio, ReadStdio, RunProc, Unblock, Redirect, RedirectKeyboard,
         RemoveProcess, At, SingleThreaded
<1>3. \A u \in Thread : stdInput[Parent[u]] \in Stream => stdInput[Parent[u]] \in allocated
  BY <1>1 DEF NoDanglingStream
<1>4. ASSUME UNCHANGED <<count, head>>, UNCHANGED <<pc, call>>,
             \A u \in Thread \ {t} : pc[u] # "user" =>
                stdInput'[Parent[u]] = stdInput[Parent[u]]
      PROVE  CountInRange' /\ HeadSound' /\ \A u \in Thread : CallSound(u)'
  <2>1. {} \in SUBSET Stream
    OBVIOUS
  <2>2. \A s : s \notin {}
    OBVIOUS
  <2> QED
    BY <1>2, <1>4, <2>1, <2>2, StreamsReset
<1>5. ASSUME NEW s \in Stream \ allocated,
             count' = [count EXCEPT ![s] = 0], head' = [head EXCEPT ![s] = 0],
             UNCHANGED <<pc, call>>,
             \A u \in Thread \ {t} : pc[u] # "user" =>
                stdInput'[Parent[u]] = stdInput[Parent[u]]
      PROVE  CountInRange' /\ HeadSound' /\ \A u \in Thread : CallSound(u)'
  <2>1. /\ \A r \in FIFO : count'[r] = IF r \in {s} THEN 0 ELSE count[r]
        /\ \A r \in Stream : head'[r] = IF r \in {s} THEN 0 ELSE head[r]
    BY <1>1, <1>5
  <2>2. \A u \in Thread : stdInput[Parent[u]] \notin {s}
    BY <1>3, <1>5
  <2>3. {s} \in SUBSET Stream
    BY <1>5
  <2> DEFINE D == {s}
  <2> HIDE DEF D
  <2>4. \A u \in Thread \ {t} :
           /\ pc'[u] = pc[u] /\ call'[u] = call[u]
           /\ pc[u] # "user" => /\ stdInput'[Parent[u]] = stdInput[Parent[u]]
                                /\ stdInput[Parent[u]] \notin D
    BY <1>5, <2>2 DEF D
  <2>5. /\ pc'[t] \in {"user", "lock", "next"} /\ D \in SUBSET Stream
        /\ \A r \in FIFO : count'[r] = IF r \in D THEN 0 ELSE count[r]
        /\ \A r \in Stream : head'[r] = IF r \in D THEN 0 ELSE head[r]
    BY <1>2, <1>5, <2>1, <2>3 DEF D
  <2> QED
    BY <1>2, <2>4, <2>5, StreamsReset
<1>6. ASSUME NEW n \in 1..MaxWrite, WriteStdio(t, n)
      PROVE  KeyboardOwner' /\ CountInRange' /\ HeadSound' /\ \A u \in Thread : CallSound(u)'
  <2>1. /\ UNCHANGED <<stdInput, count, head>> /\ pc'[t] \in {"lock", "next"}
        /\ \A u \in Thread \ {t} : pc'[u] = pc[u] /\ call'[u] = call[u]
    BY <1>1, <1>6 DEF WriteStdio, Goto, Local, procVars, streamVars
  <2>2. KeyboardOwner'
    BY <1>1, <2>1 DEF KeyboardOwner
  <2>3. {} \in SUBSET Stream
    OBVIOUS
  <2> QED
    BY <1>2, <2>1, <2>2, <2>3, StreamsReset
<1>7. CASE ReadStdio(t)
  <2>1. /\ UNCHANGED <<stdInput, count, head, call>> /\ pc'[t] = "poll"
        /\ stdInput[Parent[t]] \in FIFO
    BY <1>1, <1>7 DEF ReadStdio, Goto, procVars, streamVars
  <2>2. Moved(t)
    BY <1>1, <1>7, <2>1 DEF ReadStdio, Goto, Moved, Statement
  <2>3. \A u \in Thread \ {t} : CallSound(u)'
    <3>1. \A u \in Thread \ {t} :
            /\ pc[u] = "load" => count'[call[u].stream] > 0
            /\ pc[u] \in {"copy", "wrap"} => count'[call[u].stream] < capacity
      BY <1>1, <2>1 DEF CallSound
    <3> QED
      BY <2>1, <2>2, <3>1, OthersSound
  <2>4. CallSound(t)'
    BY <2>1 DEF CallSound, WriteStep
  <2>5. KeyboardOwner' /\ CountInRange'
    BY <2>1 DEF CInv, KeyboardOwner, CountInRange
  <2>6. HeadSound'
    BY <1>2, <2>1, <2>2, HeadKept
  <2> QED
    BY <2>3, <2>4, <2>5, <2>6
<1>8. ASSUME NEW p \in Process, NEW block \in BOOLEAN, RunProc(t, p, block)
      PROVE  KeyboardOwner' /\ CountInRange' /\ HeadSound' /\ \A u \in Thread : CallSound(u)'
  <2>1. FreeStream \in Stream \ allocated
    BY <1>8, FreshStream DEF RunProc, CInv, SInv
  <2>2. /\ count' = [count EXCEPT ![FreeStream] = 0] /\ head' = [head EXCEPT ![FreeStream] = 0]
        /\ stdInput' = [stdInput EXCEPT ![p] = FreeStream] /\ UNCHANGED <<pc, call>>
        /\ life[p] = "none"
    BY <1>8 DEF RunProc, NewStream
  <2> HIDE DEF FreeStream
  <2>3. KeyboardOwner'
    BY <1>1, <2>1, <2>2, StdioAssumption DEF KeyboardOwner
  <2>4. \A u \in Thread \ {t} : pc[u] # "user" =>
           stdInput'[Parent[u]] = stdInput[Parent[u]]
    BY <1>1, <2>2
  <2> QED
    BY <1>5, <2>1, <2>2, <2>3, <2>4
<1>9. ASSUME NEW p \in Process, Unblock(t, p)
      PROVE  KeyboardOwner' /\ CountInRange' /\ HeadSound' /\ \A u \in Thread : CallSound(u)'
  BY <1>1, <1>4, <1>9 DEF Unblock, KeyboardOwner, streamVars
<1>10. ASSUME NEW p \in Process, Redirect(t, p)
       PROVE  KeyboardOwner' /\ CountInRange' /\ HeadSound' /\ \A u \in Thread : CallSound(u)'
  <2>1. CASE stdInput[Parent[t]] \in {Keyboard, Null}
    <3>1. FreeStream \in Stream \ allocated
      BY <1>10, <2>1, FreshStream DEF Redirect, CInv, SInv
    <3>2. /\ count' = [count EXCEPT ![FreeStream] = 0] /\ head' = [head EXCEPT ![FreeStream] = 0]
          /\ stdInput' = [stdInput EXCEPT ![Parent[t]] = FreeStream] /\ UNCHANGED <<pc, call>>
      BY <1>10, <2>1 DEF Redirect, NewStream
    <3> HIDE DEF FreeStream
    <3>3. KeyboardOwner'
      BY <1>1, <3>1, <3>2, StdioAssumption DEF KeyboardOwner
    <3>4. \A u \in Thread \ {t} : pc[u] # "user" =>
             stdInput'[Parent[u]] = stdInput[Parent[u]]
      BY <1>1, <1>2, <3>2
    <3> QED
      BY <1>5, <3>1, <3>2, <3>3, <3>4
  <2>2. CASE stdInput[Parent[t]] \notin {Keyboard, Null}
    <3>1. UNCHANGED <<stdInput, count, head, pc, call>>
      BY <1>10, <2>2 DEF Redirect, streamVars
    <3> QED
      BY <1>1, <1>4, <3>1 DEF KeyboardOwner
  <2> QED
    BY <2>1, <2>2
<1>11. CASE RedirectKeyboard(t)
  <2>1. /\ stdInput' = [stdInput EXCEPT ![Parent[t]] = Keyboard] /\ Parent[t] = FirstProcess
        /\ UNCHANGED <<count, head, pc, call>>
    BY <1>11 DEF RedirectKeyboard, streamVars
  <2>2. KeyboardOwner'
    BY <1>1, <2>1 DEF KeyboardOwner
  <2>3. \A u \in Thread \ {t} : pc[u] # "user" =>
           stdInput'[Parent[u]] = stdInput[Parent[u]]
    BY <1>1, <1>2, <2>1
  <2> QED
    BY <1>4, <2>1, <2>2, <2>3
<1>12. CASE RemoveProcess(t)
  <2> DEFINE D == Deleted(stdInput[Parent[t]])
  <2>1. /\ stdInput' = [stdInput EXCEPT ![Parent[t]] = Null]
        /\ count' = [s \in FIFO |-> IF s \in D THEN 0 ELSE count[s]]
        /\ head' = [s \in Stream |-> IF s \in D THEN 0 ELSE head[s]]
        /\ pc' = [u \in Thread |-> IF Parent[u] = Parent[t] THEN "user" ELSE pc[u]]
        /\ call' = [u \in Thread |-> IF Parent[u] = Parent[t] THEN NoCall ELSE call[u]]
    BY <1>12 DEF RemoveProcess
  <2>2. KeyboardOwner'
    BY <1>1, <2>1, StdioAssumption DEF KeyboardOwner
  <2>3. Parent[t] \in Process /\ D \in SUBSET Stream
    BY <1>1 DEF Deleted, FIFO
  <2>4. ASSUME NEW u \in Thread \ {t}
        PROVE  /\ pc'[u] = pc[u] /\ call'[u] = call[u]
               /\ stdInput'[Parent[u]] = stdInput[Parent[u]] /\ stdInput[Parent[u]] \notin D
    <3>1. Parent[u] # Parent[t] /\ Parent[u] \in Process
      BY <1>1, <1>2
    <3>2. stdInput[Parent[u]] \notin D
      BY <1>1, <2>3, <3>1 DEF NoDanglingStream, Deleted
    <3> QED
      BY <1>1, <2>1, <3>1, <3>2
  <2>5. pc'[t] \in {"user", "lock", "next"}
    BY <2>1
  <2>6. /\ \A s \in FIFO : count'[s] = IF s \in D THEN 0 ELSE count[s]
        /\ \A s \in Stream : head'[s] = IF s \in D THEN 0 ELSE head[s]
    BY <2>1
  <2> HIDE DEF D
  <2>7. CountInRange' /\ HeadSound' /\ \A u \in Thread : CallSound(u)'
    BY <1>2, <2>3, <2>4, <2>5, <2>6, StreamsReset, SMT
  <2> QED
    BY <2>2, <2>7
<1> QED
  BY <1>6, <1>7, <1>8, <1>9, <1>10, <1>11, <1>12 DEF Syscall

LEMMA CInitially == Init => CInv
<1> SUFFICES ASSUME Init PROVE CInv
  OBVIOUS
<1>1. SInv
  BY SInitially
<1>2. /\ \A t \in Thread : pc[t] = "user"
      /\ \A s \in FIFO : count[s] = 0
      /\ \A s \in Stream : head[s] = 0
  BY DEF Init
<1>3. CountInRange /\ HeadSound
  BY <1>2, StdioAssumption, SMT DEF CountInRange, HeadSound
<1>4. KeyboardOwner
  <2> DEFINE first == CHOOSE s \in Stream : TRUE
  <2>1. first \in Stream
    BY StdioAssumption
  <2>2. stdInput = [p \in Process |-> IF p = FirstProcess THEN first ELSE Null]
    BY DEF Init
  <2> HIDE DEF first
  <2> QED
    BY <2>1, <2>2, StdioAssumption DEF KeyboardOwner
<1>5. \A t \in Thread : CallSound(t)
  BY <1>2 DEF CallSound, WriteStep
<1> QED
  BY <1>1, <1>3, <1>4, <1>5 DEF CInv

LEMMA CPreserved == SingleThreaded /\ CInv /\ OneWriter /\ [Next]_vars => CInv'
<1> SUFFICES ASSUME SingleThreaded, CInv, OneWriter, [Next]_vars
             PROVE  KeyboardOwner' /\ CountInRange' /\ HeadSound' /\ \A u \in Thread : CallSound(u)'
  BY SPreserved DEF CInv
<1>1. ASSUME NEW t \in Thread, Writing(t) \/ Reading(t)
      PROVE  KeyboardOwner' /\ CountInRange' /\ HeadSound' /\ \A u \in Thread : CallSound(u)'
  <2>1. UNCHANGED stdInput
    BY <1>1, LocalStep DEF CInv, Inside, procVars
  <2>2. KeyboardOwner'
    BY <2>1 DEF CInv, KeyboardOwner
  <2> QED
    BY <1>1, <2>2, WritingCounts, ReadingCounts
<1>2. ASSUME NEW t \in Thread, Syscall(t)
      PROVE  KeyboardOwner' /\ CountInRange' /\ HeadSound' /\ \A u \in Thread : CallSound(u)'
  BY <1>2, SyscallCounts
<1>3. CASE KeyPress
  <2>1. /\ UNCHANGED <<stdInput, head, pc, call>> /\ count \in [FIFO -> Int]
        /\ Keyboard \in FIFO /\ CountInRange
    BY <1>3 DEF KeyPress, procVars, CInv, SInv, TypeOK, FIFO
  <2>2. count[Keyboard] \in 0..capacity
    BY <2>1 DEF CountInRange
  <2>3. /\ count'[Keyboard] \in count[Keyboard]..capacity
        /\ \A s \in FIFO \ {Keyboard} : count'[s] = count[s]
    BY <1>3, <2>1, <2>2, StdioAssumption, SMT DEF KeyPress
  <2>4. KeyboardOwner' /\ CountInRange' /\ HeadSound'
    <3>1. KeyboardOwner' /\ HeadSound'
      BY <2>1 DEF CInv, KeyboardOwner, HeadSound
    <3>2. CountInRange'
      BY <2>1, <2>2, <2>3, StdioAssumption, SMT DEF CountInRange
    <3> QED
      BY <3>1, <3>2
  <2>5. ASSUME NEW u \in Thread
        PROVE  CallSound(u)'
    <3>1. CallSound(u)
      BY DEF CInv
    <3>2. CASE pc[u] \in WriteStep
      <4>1. call[u].stream \in FIFO \ {Keyboard}
        BY <3>1, <3>2, StdioAssumption DEF CallSound, FIFO
      <4> QED
        BY <2>1, <2>3, <3>1, <3>2, <4>1 DEF CallSound, WriteStep
    <3>3. CASE pc[u] = "load"
      <4>1. call[u].stream \in FIFO /\ count[call[u].stream] > 0
        BY <3>1, <3>3 DEF CallSound
      <4>2. count'[call[u].stream] > 0
        BY <2>1, <2>2, <2>3, <4>1, StdioAssumption, SMT
      <4> QED
        BY <2>1, <3>1, <3>3, <4>2 DEF CallSound, WriteStep
    <3>4. CASE pc[u] \notin WriteStep \cup {"load"}
      BY <2>1, <3>1, <3>4 DEF CallSound, WriteStep
    <3> QED
      BY <3>2, <3>3, <3>4
  <2> QED
    BY <2>4, <2>5
<1>4. CASE UNCHANGED vars
  BY <1>4 DEF vars, CInv, KeyboardOwner, CountInRange, HeadSound, CallSound
<1> QED
  BY <1>1, <1>2, <1>3, <1>4 DEF Next

(* fifostream.cpp:25-49: with one thread per process, and as long as no two *)
(* threads write to one stream at a time, lost updates of count by a writer,*)
(* the reader and the keyboard interrupt never take it below 0 or above     *)
(* capacity, for streams, packets and writes of any size.                   *)
THEOREM CountsStayInRange == SingleThreaded => (Spec /\ []OneWriter => []CountInRange)
<1> SUFFICES ASSUME SingleThreaded PROVE Spec /\ []OneWriter => []CountInRange
  OBVIOUS
<1>1. CInv /\ OneWriter /\ [Next]_vars => CInv'
  BY CPreserved
<1>2. CInv => CountInRange
  BY DEF CInv
<1> QED
  BY <1>1, <1>2, CInitially, PTL DEF Spec

(* fifostream.cpp:30-33: under the same conditions no byte is ever written  *)
(* behind the end of a stream's buffer.                                     *)
THEOREM NoByteOutside == SingleThreaded => (Spec /\ []OneWriter => []HeadInBuffer)
<1> SUFFICES ASSUME SingleThreaded PROVE Spec /\ []OneWriter => []HeadInBuffer
  OBVIOUS
<1>1. CInv /\ OneWriter /\ [Next]_vars => CInv'
  BY CPreserved
<1>2. CInv /\ OneWriter => HeadInBuffer
  <2> SUFFICES ASSUME CInv, OneWriter, NEW t \in Thread, pc[t] = "copy"
               PROVE  head[call[t].stream] < capacity
    BY DEF HeadInBuffer
  <2>1. call[t].stream \in Stream
    BY DEF CInv, CallSound, WriteStep
  <2>2. ~ \E u \in Thread : pc[u] = "wrap" /\ call[u].stream = call[t].stream
    BY DEF OneWriter, WriteStep
  <2> QED
    BY <2>1, <2>2, StdioAssumption, SMT DEF CInv, SInv, TypeOK, HeadSound
<1> QED
  BY <1>1, <1>2, CInitially, PTL DEF Spec
-----------------------------------------------------------------------------
(***************************************************************************)
(* Two processes, such as a terminal and the program it runs, never write  *)
(* to one stream at a time.                                                *)
(***************************************************************************)
TwoProcesses == \A p, q, r \in Process : p = q \/ p = r \/ q = r

(* No process writes to its own input, no two to the same stream; a thread  *)
(* inside FIFOStream::Write stays the only one whose process may write to   *)
(* that stream, also when its own output is cut off.                        *)
NoSelfOutput == \A p \in Process : stdOutput[p] \in Stream => stdOutput[p] # stdInput[p]
OwnOutput == \A p, q \in Process : p # q /\ stdOutput[p] \in Stream => stdOutput[p] # stdOutput[q]
WritesAlone(t) ==
    pc[t] \in WriteStep =>
        /\ call[t].stream \in Stream
        /\ \A q \in Process : stdOutput[q] = call[t].stream => q = Parent[t]

WInv == /\ SInv /\ NoSelfOutput /\ OwnOutput /\ OneWriter
        /\ \A t \in Thread : WritesAlone(t)

(* A thread works on the stream it was in, or begins with its output. *)
LEMMA StreamOfWrite ==
  ASSUME SInv, NEW t \in Thread, Writing(t) \/ Reading(t), pc'[t] \in WriteStep
  PROVE  \/ pc[t] \in WriteStep /\ call'[t].stream = call[t].stream
         \/ stdOutput[Parent[t]] \in Stream /\ call'[t].stream = stdOutput[Parent[t]]
<1> DEFINE Stays == pc[t] \in WriteStep /\ call'[t].stream = call[t].stream
           Begins == stdOutput[Parent[t]] \in Stream /\ call'[t].stream = stdOutput[Parent[t]]
<1>1. /\ pc \in [Thread -> Statement] /\ call \in [Thread -> Record]
      /\ stdOutput[Parent[t]] \in Stream \cup {Console, Null}
  BY StdioAssumption DEF SInv, TypeOK, CallTyped, Statement
<1>2. CASE Lock(t) \/ WriteEnd(t) \/ Reading(t)
  BY <1>1, <1>2 DEF Lock, WriteEnd, Reading, Poll, ReadCheck, ReadLoad, ReadCount, At, Goto,
                    Return, Fault, WriteStep
<1>3. CASE NextByte(t)
  <2>1. CASE stdOutput[Parent[t]] \in {Null, Console}
    BY <1>1, <1>3, <2>1 DEF NextByte, At, Goto, Fault, WriteStep
  <2>2. CASE stdOutput[Parent[t]] \notin {Null, Console}
    <3>1. call' = [call EXCEPT ![t].left = @ - 1, ![t].stream = stdOutput[Parent[t]]]
      BY <1>3, <2>2 DEF NextByte
    <3>2. call'[t].stream = stdOutput[Parent[t]]
      BY <1>1, <3>1 DEF Record
    <3> QED
      BY <1>1, <2>2, <3>2
  <2> QED
    BY <2>1, <2>2
<1>4. CASE WriteCheck(t)
  BY <1>1, <1>4 DEF WriteCheck, ByteDone, Fault, Goto, At, WriteStep
<1>5. CASE WriteCopy(t)
  BY <1>1, <1>5 DEF WriteCopy, Fault, Goto, At, WriteStep
<1>6. CASE WriteWrap(t)
  BY <1>1, <1>6, SMT DEF WriteWrap, Fault, Goto, Local, At, WriteStep, Record
<1>7. CASE WriteCount(t)
  BY <1>1, <1>7 DEF WriteCount, ByteDone, Fault, Goto, At, WriteStep
<1> QED
  BY <1>2, <1>3, <1>4, <1>5, <1>6, <1>7 DEF Writing

LEMMA InsideAlone ==
  ASSUME WInv, SingleThreaded, NEW t \in Thread, Writing(t) \/ Reading(t)
  PROVE  NoSelfOutput' /\ OwnOutput' /\ OneWriter' /\ \A u \in Thread : WritesAlone(u)'
<1>1. /\ UNCHANGED <<stdInput, stdOutput>> /\ Parent[t] \in Process
      /\ \A u \in Thread : u # t => pc'[u] = pc[u] /\ call'[u] = call[u]
  BY LocalStep, StdioAssumption DEF WInv, Inside, Moved, procVars
<1>2. NoSelfOutput' /\ OwnOutput'
  BY <1>1 DEF WInv, NoSelfOutput, OwnOutput
<1>3. ASSUME pc'[t] \in WriteStep
      PROVE  /\ call'[t].stream \in Stream
             /\ \A q \in Process : stdOutput[q] = call'[t].stream => q = Parent[t]
             /\ \A u \in Thread : u # t /\ pc[u] \in WriteStep => call[u].stream # call'[t].stream
  <2>1. CASE pc[t] \in WriteStep /\ call'[t].stream = call[t].stream
    BY <2>1 DEF WInv, WritesAlone, OneWriter
  <2>2. CASE stdOutput[Parent[t]] \in Stream /\ call'[t].stream = stdOutput[Parent[t]]
    <3>1. \A q \in Process : stdOutput[q] = call'[t].stream => q = Parent[t]
      BY <1>1, <2>2, SMT DEF WInv, OwnOutput
    <3>2. ASSUME NEW u \in Thread, u # t, pc[u] \in WriteStep
          PROVE  call[u].stream # call'[t].stream
      BY <1>1, <2>2, <3>2, SMT DEF WInv, WritesAlone, SingleThreaded
    <3> QED
      BY <2>2, <3>1, <3>2
  <2> QED
    BY <1>3, <2>1, <2>2, StreamOfWrite DEF WInv
<1>4. OneWriter'
  BY <1>1, <1>3, SMT DEF WInv, OneWriter
<1>5. ASSUME NEW u \in Thread
      PROVE  WritesAlone(u)'
  BY <1>1, <1>3, SMT DEF WInv, WritesAlone
<1> QED
  BY <1>2, <1>4, <1>5

(* While pc and call stay, only outputs matter. *)
LEMMA OutsideAlone ==
  ASSUME WInv, \A u \in Thread : pc'[u] \in WriteStep => pc[u] \in WriteStep /\ call'[u] = call[u],
         \A u \in Thread, q \in Process :
            pc[u] \in WriteStep /\ stdOutput'[q] = call[u].stream => stdOutput[q] = stdOutput'[q]
  PROVE  OneWriter' /\ \A u \in Thread : WritesAlone(u)'
BY SMT DEF WInv, OneWriter, WritesAlone

LEMMA SyscallAlone ==
  ASSUME WInv, SingleThreaded, TwoProcesses, NEW t \in Thread, Syscall(t)
  PROVE  NoSelfOutput' /\ OwnOutput' /\ OneWriter' /\ \A u \in Thread : WritesAlone(u)'
<1>1. /\ Parent[t] \in Process /\ pc \in [Thread -> Statement] /\ call \in [Thread -> Record]
      /\ stdInput \in [Process -> FIFO \cup {Null}]
      /\ stdOutput \in [Process -> Stream \cup {Console, Null}]
      /\ Console \notin Stream /\ Null \notin Stream /\ Keyboard \notin Stream
      /\ \A u \in Thread : pc[u] \in WriteStep => call[u].stream \in Stream
  BY StdioAssumption DEF WInv, SInv, TypeOK, CallTyped, Statement, WritesAlone
<1>2. CASE (\E n \in 1..MaxWrite : WriteStdio(t, n)) \/ ReadStdio(t)
  <2>1. /\ UNCHANGED <<stdInput, stdOutput>>
        /\ \A u \in Thread : u # t => pc'[u] = pc[u] /\ call'[u] = call[u]
        /\ pc'[t] \notin WriteStep
    BY <1>1, <1>2 DEF WriteStdio, ReadStdio, procVars, Goto, Local, WriteStep
  <2> QED
    BY <2>1, OutsideAlone DEF WInv, NoSelfOutput, OwnOutput
<1>3. ASSUME NEW p \in Process, NEW block \in BOOLEAN, RunProc(t, p, block)
      PROVE  NoSelfOutput' /\ OwnOutput' /\ OneWriter' /\ \A u \in Thread : WritesAlone(u)'
  <2>1. FreeStream \in Stream
    BY <1>3, FreshStream DEF RunProc, WInv, SInv
  <2>2. /\ stdInput' = [stdInput EXCEPT ![p] = FreeStream]
        /\ stdOutput' = [stdOutput EXCEPT ![p] = Console] /\ UNCHANGED <<pc, call>>
    BY <1>3 DEF RunProc
  <2> HIDE DEF FreeStream
  <2>3. NoSelfOutput' /\ OwnOutput'
    BY <1>1, <2>1, <2>2 DEF WInv, NoSelfOutput, OwnOutput
  <2>4. OneWriter' /\ \A u \in Thread : WritesAlone(u)'
    BY <1>1, <2>2, OutsideAlone
  <2> QED
    BY <2>3, <2>4
<1>4. CASE (\E p \in Process : Unblock(t, p)) \/ RedirectKeyboard(t)
  <2>1. /\ UNCHANGED <<stdOutput, pc, call>>
        /\ \A p \in Process : stdInput'[p] \in {stdInput[p], Keyboard}
    BY <1>1, <1>4 DEF Unblock, RedirectKeyboard
  <2>2. NoSelfOutput' /\ OwnOutput'
    BY <1>1, <2>1 DEF WInv, NoSelfOutput, OwnOutput
  <2> QED
    BY <2>1, <2>2, OutsideAlone
<1>5. ASSUME NEW p \in Process, Redirect(t, p)
      PROVE  NoSelfOutput' /\ OwnOutput' /\ OneWriter' /\ \A u \in Thread : WritesAlone(u)'
  <2>1. /\ life[p] = "blocked" /\ life[Parent[t]] = "live" /\ pc[t] = "user"
        /\ UNCHANGED <<pc, call>>
    BY <1>5 DEF Redirect, At
  <2>2. p # Parent[t] /\ \A q \in Process : q = p \/ q = Parent[t]
    BY <1>1, <2>1 DEF TwoProcesses
  <2>3. \A u \in Thread : pc[u] \notin WriteStep
    <3> SUFFICES ASSUME NEW u \in Thread, pc[u] \in WriteStep PROVE FALSE
      OBVIOUS
    <3>1. u # t /\ life[Parent[u]] = "live" /\ Parent[u] \in Process
      BY <2>1, StdioAssumption DEF WInv, SInv, TypeOK, WriteStep
    <3> QED
      BY <2>1, <2>2, <3>1 DEF SingleThreaded
  <2>4. OneWriter' /\ \A u \in Thread : WritesAlone(u)'
    BY <2>1, <2>3 DEF OneWriter, WritesAlone
  <2>5. PICK s \in Stream :
           /\ stdOutput' = [stdOutput EXCEPT ![p] = s] /\ stdInput'[Parent[t]] = s
           /\ stdInput'[p] = stdInput[p] /\ stdInput[p] # s /\ stdOutput[Parent[t]] # s
    <3>1. CASE stdInput[Parent[t]] \in {Keyboard, Null}
      <4>1. FreeStream \in Stream \ allocated
        BY <1>5, <3>1, FreshStream DEF Redirect, WInv, SInv
      <4>2. /\ stdInput' = [stdInput EXCEPT ![Parent[t]] = FreeStream]
            /\ stdOutput' = [stdOutput EXCEPT ![p] = FreeStream]
        BY <1>5, <3>1 DEF Redirect
      <4> HIDE DEF FreeStream
      <4>3. FreeStream \notin {stdInput[p], stdOutput[Parent[t]]}
        BY <1>1, <4>1 DEF WInv, SInv, NoDanglingStream
      <4> QED
        BY <1>1, <2>2, <4>1, <4>2, <4>3
    <3>2. CASE stdInput[Parent[t]] \notin {Keyboard, Null}
      <4>1. /\ UNCHANGED stdInput /\ stdInput[Parent[t]] \in Stream
            /\ stdOutput' = [stdOutput EXCEPT ![p] = stdInput[Parent[t]]]
        BY <1>1, <1>5, <3>2 DEF Redirect, FIFO
      <4>2. stdInput[p] # stdInput[Parent[t]]
        BY <1>1, <2>2, <3>2 DEF WInv, SInv, NoDanglingStream
      <4>3. stdOutput[Parent[t]] # stdInput[Parent[t]]
        BY <1>1, <4>1 DEF WInv, NoSelfOutput
      <4> QED
        BY <4>1, <4>2, <4>3
    <3> QED
      BY <3>1, <3>2
  <2>6. stdOutput'[p] = s /\ stdOutput'[Parent[t]] = stdOutput[Parent[t]]
    BY <1>1, <2>2, <2>5
  <2>7. NoSelfOutput' /\ OwnOutput'
    BY <2>2, <2>5, <2>6 DEF NoSelfOutput, OwnOutput
  <2> QED
    BY <2>4, <2>7
<1>6. CASE RemoveProcess(t)
  <2>1. /\ \A q \in Process : stdInput'[q] \in {stdInput[q], Null}
        /\ \A q \in Process : stdOutput'[q] \in {stdOutput[q], Null}
        /\ \A u \in Thread : pc'[u] \in WriteStep => pc[u] \in WriteStep /\ call'[u] = call[u]
    BY <1>1, <1>6 DEF RemoveProcess, WriteStep
  <2>2. NoSelfOutput' /\ OwnOutput'
    BY <1>1, <2>1, SMT DEF WInv, NoSelfOutput, OwnOutput
  <2>3. OneWriter' /\ \A u \in Thread : WritesAlone(u)'
    BY <1>1, <2>1, OutsideAlone
  <2> QED
    BY <2>2, <2>3
<1> QED
  BY <1>2, <1>3, <1>4, <1>5, <1>6 DEF Syscall

LEMMA WPreserved == SingleThreaded /\ TwoProcesses /\ WInv /\ [Next]_vars => WInv'
<1> SUFFICES ASSUME SingleThreaded, TwoProcesses, WInv, [Next]_vars
             PROVE  NoSelfOutput' /\ OwnOutput' /\ OneWriter' /\ \A u \in Thread : WritesAlone(u)'
  BY SPreserved DEF WInv
<1>1. CASE KeyPress \/ UNCHANGED vars
  BY <1>1 DEF KeyPress, vars, procVars, WInv, NoSelfOutput, OwnOutput, OneWriter, WritesAlone
<1> QED
  BY <1>1, InsideAlone, SyscallAlone DEF Next

(* cactusos.cpp:317-326 and fifostream.cpp:23-36: where there are only a    *)
(* terminal and the program it runs, each with one thread, no two threads   *)
(* are ever inside Write of one stream, although it has no lock: not after  *)
(* either exits and is run again, and not at an address that is used again. *)
(* With a third process, two whose output is redirected to one input break  *)
(* it.                                                                      *)
THEOREM WritersAlone == SingleThreaded /\ TwoProcesses => (Spec => []OneWriter)
<1> SUFFICES ASSUME SingleThreaded, TwoProcesses PROVE Spec => []OneWriter
  OBVIOUS
<1>1. Init => WInv
  <2> SUFFICES ASSUME Init PROVE WInv
    OBVIOUS
  <2>1. /\ \A t \in Thread : pc[t] = "user"
        /\ \A p \in Process : stdOutput[p] \in {Console, Null}
    BY DEF Init
  <2> QED
    BY <2>1, SInitially, StdioAssumption
    DEF WInv, NoSelfOutput, OwnOutput, OneWriter, WritesAlone, WriteStep
<1>2. WInv /\ [Next]_vars => WInv'
  BY WPreserved
<1>3. WInv => OneWriter
  BY DEF WInv
<1> QED
  BY <1>1, <1>2, <1>3, PTL DEF Spec

(* fifostream.cpp:23-51: between a terminal and its program the unprotected *)
(* updates of count may lose bytes, but no stream's count or head ever      *)
(* leaves the buffer; no hypothesis on who writes is needed.                *)
THEOREM TerminalStreamsSound ==
  SingleThreaded /\ TwoProcesses => (Spec => [](CountInRange /\ HeadInBuffer))
<1> SUFFICES ASSUME SingleThreaded, TwoProcesses
             PROVE  Spec => [](CountInRange /\ HeadInBuffer)
  OBVIOUS
<1>1. Spec => []OneWriter
  BY WritersAlone
<1>2. Spec /\ []OneWriter => []CountInRange
  BY CountsStayInRange
<1>3. Spec /\ []OneWriter => []HeadInBuffer
  BY NoByteOutside
<1> QED
  BY <1>1, <1>2, <1>3, PTL
=============================================================================
