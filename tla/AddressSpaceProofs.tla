------------------------- MODULE AddressSpaceProofs --------------------------
(***************************************************************************)
(* AddressInvariant is an invariant of AddressSpace; what that says about  *)
(* who uses which frame, what the counter of free frames promises and      *)
(* which frames are lost.                                                  *)
(***************************************************************************)
EXTENDS AddressFrames, AddressSteps

(* Zenon proves the steps that name no prover. *)
USE Zenon
-----------------------------------------------------------------------------
(***************************************************************************)
(* Every step keeps the invariant.                                         *)
(***************************************************************************)
LEMMA StutterSound ==
  ASSUME RegionPages = 1, NEW t, Thread = {t}, NEW k, NEW m, AInv(t, k, m), UNCHANGED vars
  PROVE  AInv(t, k, m)'
<1>1. UNCHANGED <<memoryArray, usedBlocks, todo, call, live, table, entry, heapEnd, threads>>
      /\ UNCHANGED <<work, failed, removed, leaked>>
  BY DEF vars, spaceVars
<1>2. TInv(t)'
  BY TypesPreserved DEF AInv
<1>3. FreeBlocks' = FreeBlocks
  BY <1>1 DEF FreeBlocks
<1>4. CASE Booting(t, k, m)
  <2>1. \A p \in Process : Absent(p)'
    BY <1>1, <1>4 DEF Booting, Absent, Mapped
  <2>2. Freed' = Freed /\ Marked' = Marked /\ CountedUsed(k, m)' = CountedUsed(k, m)
    BY <1>1 DEF Freed, Marked, CountedUsed
  <2>3. Cardinality(Freed)' = Cardinality(Freed)
    BY <2>2
  <2>4. Booting(t, k, m)'
    BY <1>1, <1>3, <1>4, <2>1, <2>2, <2>3 DEF Booting
  <2> QED
    BY <1>2, <2>4 DEF AInv
<1>5. CASE Booted /\ Running(t)
  <2>1. Booted'
    BY <1>1, <1>5 DEF Booted
  <2>2. CASE failed
    <3>1. CountSound'
      BY <1>1, <1>3, <1>5, <2>2 DEF Running, CountSound
    <3>2. Running(t)'
      BY <1>1, <1>5, <2>2, <3>1 DEF Running
    <3> QED
      BY <1>2, <2>1, <3>2 DEF AInv
  <2>3. CASE ~failed
    <3>1. Control(t) /\ Frames(Holding(t), memoryArray, FreeBlocks, removed, leaked)
      BY <1>5, <2>3 DEF Running
    <3>2. CallSound(t)'
      BY <1>1, <1>3, <3>1 DEF CallSound, Control
    <3>3. \A p \in Process \ live : Absent(p)'
      BY <1>1, <3>1 DEF Control, Absent, Mapped
    <3>4. Control(t)'
      BY <1>1, <3>1, <3>2, <3>3, ControlSame
    <3>5. Holding(t)' = Holding(t)
      <4>1. Held(t, InCall)' = Held(t, InCall)
        BY <1>1 DEF Held
      <4>2. Holding(t)' = [Holding(t) EXCEPT ![InCall] = Held(t, InCall)]
        BY <1>1, <4>1, HoldsSame
      <4> QED
        BY <4>2, SlotFacts DEF Holding
    <3>6. Running(t)'
      BY <1>1, <1>3, <2>3, <3>1, <3>4, <3>5 DEF Running
    <3> QED
      BY <1>2, <2>1, <3>6 DEF AInv
  <2> QED
    BY <2>2, <2>3
<1> QED
  BY <1>4, <1>5 DEF AInv

LEMMA CallStepSound ==
  ASSUME RegionPages = 1, IsFiniteSet(Slot), NEW t, Thread = {t}, TInv(t), Run(t), Step(t)
  PROVE  Running(t)'
<1>1. CASE Allocate(t)
  BY <1>1, AllocateSound, MovesSound
<1>2. CASE Allocating(t)
  <2>1. CASE Search(t)
    BY <1>2, <2>1, SearchResult, SearchSound, MovesSound DEF Allocating
  <2>2. CASE Claim(t)
    BY <1>2, <2>2, ClaimSound, MovesSound DEF Allocating
  <2> QED
    BY <1>2, <2>1, <2>2 DEF Allocating
<1>3. CASE NewTable(t)
  BY <1>3, NewTableSound, MovesSound, GaveUpSound
<1>4. CASE AllocatePage(t)
  BY <1>4, AllocatePageSound, MovesSound, GaveUpSound
<1>5. CASE RegionReady(t)
  BY <1>5, RegionReadyTyped, RegionReadySound, MovesSound, GaveUpSound
<1>6. CASE SharePage(t)
  BY <1>6, SharePageSound, MovesSound
<1>7. CASE Finish(t)
  BY <1>7, FinishSound, MovesSound
<1> QED
  BY <1>1, <1>2, <1>3, <1>4, <1>5, <1>6, <1>7 DEF Step

LEMMA SyscallSound ==
  ASSUME RegionPages = 1, IsFiniteSet(Slot), NEW t, Thread = {t}, TInv(t), Run(t), Syscall(t)
  PROVE  Running(t)'
<1>1. PICK p \in Process :
        \/ Create(t, p) \/ StartThread(t, p) \/ RemoveProcess(t, p)
        \/ \E n \in 1..MaxHeap : ExpandHeap(t, p, n) \/ ShrinkHeap(t, p, n)
        \/ \E q \in Process : CreateSharedRegion(t, p, q) \/ RemoveSharedRegion(t, p, q)
  BY DEF Syscall
<1>2. CASE Create(t, p)
  BY <1>2, CreateTyped, CreateSound, MovesSound
<1>3. CASE StartThread(t, p)
  BY <1>3, StartThreadTyped, StartThreadSound, MovesSound
<1>4. CASE RemoveProcess(t, p)
  BY <1>4, RemoveProcessSound, MovesSound
<1>5. CASE \E n \in 1..MaxHeap : ExpandHeap(t, p, n)
  BY <1>5, ExpandHeapTyped, ExpandHeapSound, MovesSound
<1>6. CASE \E n \in 1..MaxHeap : ShrinkHeap(t, p, n)
  BY <1>6, ShrinkHeapSound, MovesSound
<1>7. CASE \E q \in Process : CreateSharedRegion(t, p, q)
  BY <1>7, CreateRegionSound, MovesSound
<1>8. CASE \E q \in Process : RemoveSharedRegion(t, p, q)
  BY <1>8, RemoveRegionSound, MovesSound
<1> QED
  BY <1>1, <1>2, <1>3, <1>4, <1>5, <1>6, <1>7, <1>8

(* No call goes on before boot ends or after an allocation failed. *)
LEMMA CallsWhenRunning ==
  ASSUME NEW t, Thread = {t}, NEW k, NEW m, AInv(t, k, m), Step(t) \/ Syscall(t)
  PROVE  Booted /\ ~failed /\ todo' = todo
<1>1. todo' = todo
  <2>1. CASE Step(t)
    BY <2>1 DEF Step, Allocate, Start, Allocating, Search, Claim, NewTable, AllocatePage, RegionReady,
                SharePage, Finish, frameVars
  <2>2. CASE Syscall(t)
    BY <2>2, ZenonT(30) DEF Syscall, Create, StartThread, ExpandHeap, ShrinkHeap, CreateSharedRegion,
                RemoveSharedRegion, RemoveProcess, FreePage, FreeBlock, frameVars
  <2> QED
    BY <2>1, <2>2
<1>2. \/ Working(t)
      \/ call[t].at \in {"search", "claim"}
      \/ Idle(t)
  <2>1. CASE Step(t)
    <3>1. Allocate(t) \/ SharePage(t) \/ Finish(t) => Working(t)
      BY DEF Allocate, SharePage, Finish
    <3>2. NewTable(t) \/ AllocatePage(t) \/ RegionReady(t) => Working(t)
      BY DEF NewTable, AllocatePage, RegionReady, Returned
    <3>3. Allocating(t) => call[t].at \in {"search", "claim"}
      BY DEF Allocating, Search, Claim
    <3> QED
      BY <2>1, <3>1, <3>2, <3>3 DEF Step
  <2>2. CASE Syscall(t)
    BY <2>2 DEF Syscall, Create, StartThread, ExpandHeap, ShrinkHeap, CreateSharedRegion,
                RemoveSharedRegion, RemoveProcess
  <2> QED
    BY <2>1, <2>2
<1>3. CASE Booting(t, k, m)
  BY <1>1, <1>2, <1>3 DEF Booting, Working, Idle
<1>4. CASE Booted /\ Running(t)
  BY <1>1, <1>2, <1>4 DEF Running, Working, Idle
<1> QED
  BY <1>3, <1>4 DEF AInv

LEMMA InvariantKept ==
  ASSUME RegionPages = 1, IsFiniteSet(Slot), NEW t, Thread = {t}, NEW k, NEW m, BootFits(k, m),
         AInv(t, k, m), [Next]_vars
  PROVE  AInv(t, k, m)'
<1>1. TInv(t) /\ TInv(t)'
  BY TypesPreserved DEF AInv
<1>2. CASE UNCHANGED vars
  BY <1>2, StutterSound
<1>3. CASE Boot /\ UNCHANGED <<spaceVars, work, failed, removed, leaked>>
  <2>1. ~Booted
    BY <1>3 DEF Boot, SetRegionFree, SetRegionUsed, Booted
  <2>2. Booting(t, k, m)
    BY <2>1 DEF AInv
  <2>3. Booting(t, k, m)'
    BY <1>1, <1>3, <2>2, RegionFreed, RegionMarked DEF Boot
  <2> QED
    BY <1>1, <2>3 DEF AInv
<1>4. CASE Step(t) \/ Syscall(t)
  <2>1. Booted /\ ~failed /\ todo' = todo
    BY <1>4, CallsWhenRunning
  <2>2. Running(t)
    BY <1>1, <2>1, BootEnd DEF AInv
  <2>3. Run(t)
    BY <2>1, <2>2 DEF Run, Running
  <2>4. Running(t)'
    BY <1>1, <1>4, <2>3, CallStepSound, SyscallSound
  <2>5. Booted'
    BY <2>1 DEF Booted
  <2> QED
    BY <1>1, <2>4, <2>5 DEF AInv
<1> QED
  BY <1>2, <1>3, <1>4 DEF Next

(* What is used is held. *)
LEMMA UsesHeld ==
  ASSUME RegionPages = 1, NEW t, Run(t), NEW u \in PageUses \cup TableUses
  PROVE  /\ u \in Slot /\ Holding(t)[u] = FrameUsed(u) /\ FrameUsed(u) # 0
         /\ u \in SharedSlot => u \in PageUses
<1>1. CASE u \in PageUses
  <2>1. u \in Process \X Page /\ Mapped(u) /\ FrameUsed(u) = FrameOf(u)
    BY <1>1 DEF PageUses, FrameUsed
  <2> QED
    BY <1>1, <2>1, PageHeld DEF Run, Control
<1>2. CASE u \notin PageUses
  <2>1. u \in Process \X Table /\ table[u[1]][u[2]] # 0 /\ FrameUsed(u) = table[u[1]][u[2]]
    BY <1>2 DEF TableUses, FrameUsed
  <2>2. u \in Slot /\ u # InCall /\ u \notin SharedSlot /\ u[2] \in Table
    BY <2>1, SlotFacts, SMT
  <2> QED
    BY <2>1, <2>2 DEF Holding, Held
<1> QED
  BY <1>1, <1>2

LEMMA InvariantSuffices ==
  ASSUME RegionPages = 1, IsFiniteSet(Slot), NEW t, Thread = {t}, NEW k, NEW m, BootFits(k, m),
         AInv(t, k, m)
  PROVE  Exclusive /\ CountSound /\ OnlyTablesLost
<1> DEFINE H == Holding(t)
<1>1. Booted => Running(t)
  BY BootEnd DEF AInv
<1>2. Exclusive
  <2>1. CASE Booting(t, k, m)
    <3>1. PageUses = {} /\ TableUses = {}
      BY <2>1 DEF Booting, Absent, PageUses, TableUses, Mapped
    <3> QED
      BY <3>1 DEF Exclusive
  <2>2. CASE Running(t) /\ ~failed
    <3>1. Run(t) /\ HeldOK(H, memoryArray, removed)
      BY <2>2 DEF Running, Run, Frames
    <3>2. \A u \in PageUses \cup TableUses :
            u \in Slot /\ H[u] = FrameUsed(u) /\ FrameUsed(u) # 0 /\ (u \in SharedSlot => u \in PageUses)
      BY <3>1, UsesHeld
    <3> HIDE DEF H
    <3>3. \A u \in PageUses \cup TableUses :
             \/ FrameUsed(u) \in Usable \cap memoryArray
             \/ FrameUsed(u) >= Top /\ removed > 0
      BY <3>1, <3>2, SMT DEF HeldOK
    <3>4. ASSUME NEW u \in PageUses \cup TableUses, NEW v \in PageUses \cup TableUses,
                 u # v, FrameUsed(u) = FrameUsed(v), FrameUsed(u) < Top
          PROVE  {u, v} \subseteq PageUses /\ SamePage(u, v)
      <4>1. u \in SharedSlot /\ v \in SharedSlot
        BY <3>1, <3>2, <3>4 DEF HeldOK
      <4>2. u[2] = SharedPage /\ v[2] = SharedPage /\ SharedPage[1] = "shared"
        BY <4>1 DEF SharedSlot, SharedPage
      <4> QED
        BY <3>2, <4>1, <4>2 DEF SamePage
    <3> QED
      BY <3>3, <3>4 DEF Exclusive
  <2>3. CASE failed
    BY <2>3 DEF Exclusive
  <2> QED
    BY <2>1, <2>2, <2>3 DEF AInv
<1>3. CountSound
  <2> SUFFICES ASSUME Booted
               PROVE  CountSound
    BY DEF CountSound
  <2>1. CASE failed
    BY <1>1, <2>1 DEF Running
  <2>2. CASE ~failed
    BY <1>1, <2>2, CountFromFrames DEF Running, CountSound
  <2> QED
    BY <2>1, <2>2
<1>4. OnlyTablesLost
  <2> SUFFICES ASSUME Booted, ~failed, work[t] = <<>>, NEW f \in Usable \cap memoryArray
               PROVE  f \in leaked \cup {FrameUsed(u) : u \in PageUses \cup TableUses}
    BY DEF OnlyTablesLost
  <2>1. Found(H, memoryArray, leaked)
    BY <1>1 DEF Running, Frames
  <2>2. CASE f \in leaked
    BY <2>2
  <2>3. ASSUME NEW u \in Slot, f = H[u]
        PROVE  f \in {FrameUsed(v) : v \in PageUses \cup TableUses}
    <3>1. f # 0 /\ Held(t, u) = f
      BY <2>3, UsableFrames, SMTT(30) DEF Holding
    <3>2. call[t].at = "none" /\ ~Sharing(work[t], u)
      <4>1. Len(work[t]) = 0
        BY SMT
      <4> QED
        BY <4>1, SMT DEF AInv, TInv, CallTyped, Sharing
    <3>3. u # InCall
      BY <3>1, <3>2 DEF Held
    <3>4. u \in Process \X (Page \cup Table) /\ u[2] \in Page \cup Table
      BY <3>3, SlotCases
    <3>5. CASE u[2] \in Table
      <4>1. u \in TableUses /\ u \notin PageUses /\ table[u[1]][u[2]] = f
        BY <3>1, <3>3, <3>4, <3>5, SlotFacts DEF Held, TableUses, PageUses
      <4> QED
        BY <4>1 DEF FrameUsed
    <3>6. CASE u[2] \notin Table
      <4>1. u \in PageUses /\ FrameOf(u) = f
        BY <3>1, <3>2, <3>3, <3>4, <3>6 DEF Held, PageUses
      <4> QED
        BY <4>1 DEF FrameUsed
    <3> QED
      BY <3>5, <3>6
  <2> QED
    BY <2>1, <2>2, <2>3 DEF Found
<1> QED
  BY <1>2, <1>3, <1>4

LEMMA MemoryInvariant ==
  ASSUME OrdinaryMachine
  PROVE  Spec => [](Exclusive /\ CountSound /\ OnlyTablesLost)
<1>1. PICK t, k, m : Thread = {t} /\ BootFits(k, m)
  BY DEF OrdinaryMachine, OneCaller
<1>2. RegionPages = 1 /\ IsFiniteSet(Slot) /\ BitmapCoversHoles
  BY SlotFinite DEF OrdinaryMachine
<1>3. Init => AInv(t, k, m)
  <2> SUFFICES ASSUME Init
               PROVE  AInv(t, k, m)
    OBVIOUS
  <2> QED
    BY <1>1, <1>2, TypesInitially, BootInitially DEF AInv
<1>4. AInv(t, k, m) /\ [Next]_vars => AInv(t, k, m)'
  BY <1>1, <1>2, InvariantKept
<1>5. AInv(t, k, m) => Exclusive /\ CountSound /\ OnlyTablesLost
  BY <1>1, <1>2, InvariantSuffices
<1> QED
  BY <1>3, <1>4, <1>5, PTL DEF Spec

(* virtualmemory.cpp:112-149, process.cpp:224-230: however many processes   *)
(* are created, grow, shrink, share and exit, a frame in use is marked in   *)
(* the bitmap, is not the kernel's, and has one user or two that share it.  *)
THEOREM FramesExclusive == OrdinaryMachine => (Spec => []Exclusive)
<1> SUFFICES ASSUME OrdinaryMachine
             PROVE  Spec => []Exclusive
  OBVIOUS
<1>1. Spec => [](Exclusive /\ CountSound /\ OnlyTablesLost)
  BY MemoryInvariant
<1> QED
  BY <1>1, PTL

(* physicalmemory.cpp:135 and 161: the counter of free frames promises no   *)
(* more than the clear bits and the removals of shared regions allow.       *)
THEOREM CounterSound == OrdinaryMachine => (Spec => []CountSound)
<1> SUFFICES ASSUME OrdinaryMachine
             PROVE  Spec => []CountSound
  OBVIOUS
<1>1. Spec => [](Exclusive /\ CountSound /\ OnlyTablesLost)
  BY MemoryInvariant
<1> QED
  BY <1>1, PTL

(* process.cpp:215-230 and 263-271, thread.cpp:66-67: between calls every   *)
(* marked frame is in use or was left behind as a page table or a region of *)
(* a process that exited; code, heap and stacks are never lost.             *)
THEOREM NothingElseLost == OrdinaryMachine => (Spec => []OnlyTablesLost)
<1> SUFFICES ASSUME OrdinaryMachine
             PROVE  Spec => []OnlyTablesLost
  OBVIOUS
<1>1. Spec => [](Exclusive /\ CountSound /\ OnlyTablesLost)
  BY MemoryInvariant
<1> QED
  BY <1>1, PTL
=============================================================================
