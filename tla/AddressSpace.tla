---------------------------- MODULE AddressSpace ----------------------------
(***************************************************************************)
(* The address spaces of user processes in libcx/kernelcc, over the frame  *)
(* allocator of PhysicalMemory: page tables (src/core/virtualmemory.cpp),  *)
(* what processes and threads map and give back                            *)
(* (src/system/tasking/process.cpp and thread.cpp), and memory shared by   *)
(* two processes (src/system/memory/sharedmem.cpp).                        *)
(*                                                                         *)
(* A call that allocates is a list of items a thread works off, one        *)
(* allocation after the other; every allocation takes the steps of         *)
(* PhysicalMemory.  Most results of allocations are not looked at: once    *)
(* one was 0 the model follows no further calls.                           *)
(***************************************************************************)
EXTENDS PhysicalMemory, Sequences

CONSTANTS
    Process,
    HeapStart,      \* heap pages of a new process
    MaxHeap,        \* bound: heap pages of a process
    MaxThreads,     \* bound: threads of a process
    RegionPages,    \* pages of a shared region
    MaxRemoved      \* bound: shared pages removed

ASSUME AddressAssumption ==
    /\ MaxHeap \in Nat /\ HeapStart \in 1..MaxHeap /\ MaxThreads \in Nat \ {0} /\ MaxRemoved \in Nat
    /\ RegionPages \in 1..MaxSize

(* Virtual pages: executable, heap, one stack for each thread, and a region *)
(* shared with another process.  Each lies under a page table.              *)
Pages(area, n) == {<<area, i>> : i \in 1..n}
Page == Pages("code", 1) \cup Pages("heap", MaxHeap) \cup Pages("stack", MaxThreads)
          \cup Pages("shared", RegionPages)
TableOf(page) == <<IF page[1] = "heap" THEN "code" ELSE page[1], 0>>
Table == {TableOf(page) : page \in Page}

VARIABLES
    live,           \* the processes there are
    table,          \* frames of their page tables, 0 for none
    entry,          \* page table entries, [frame, present]
    heapEnd,        \* heap pages of a process
    threads,        \* threads of a process
    work,           \* what is left to do of a thread's call
    failed,         \* history: an allocation returned 0
    removed,        \* history: shared pages removed
    leaked          \* history: frames nobody can give back

spaceVars == <<live, table, entry, heapEnd, threads>>
vars == <<memoryArray, usedBlocks, todo, call, spaceVars, work, failed, removed, leaked>>

NoEntry == [frame |-> 0, present |-> FALSE]

Init ==
    /\ MemoryInit
    /\ live = {}
    /\ table = [p \in Process |-> [d \in Table |-> 0]]
    /\ entry = [p \in Process |-> [page \in Page |-> NoEntry]]
    /\ heapEnd = [p \in Process |-> 0] /\ threads = [p \in Process |-> 0]
    /\ work = [t \in Thread |-> <<>>]
    /\ failed = FALSE /\ removed = 0 /\ leaked = {}

Item(op, p, page, f) == [op |-> op, proc |-> p, page |-> page, frame |-> f]
MapPages(p, area, from, to) ==
    [i \in 1..(to - from + 1) |-> Item("map", p, <<area, from + i - 1>>, 0)]

Item1(t) == Head(work[t])
Working(t) == work[t] # <<>> /\ ~failed
NoTable(i) == i.op \in {"map", "share"} /\ table[i.proc][TableOf(i.page)] = 0
-----------------------------------------------------------------------------
(* AllocateBlock for a page table or a page, AllocateBlocks for a region. *)
Allocate(t) ==
    /\ Working(t)
    /\ NoTable(Item1(t)) \/ Item1(t).op \in {"map", "region"}
    /\ LET ranged == Item1(t).op = "region" IN
       Start(t, IF ranged THEN RegionPages ELSE 1, ranged)
    /\ UNCHANGED <<spaceVars, work, failed, removed, leaked>>

Allocating(t) ==
    /\ Search(t) \/ Claim(t)
    /\ UNCHANGED <<spaceVars, work, failed, removed, leaked>>

Returned(t) == Working(t) /\ call[t].at = "done" /\ call' = [call EXCEPT ![t] = NoCall]
ItemDone(t) == work' = [work EXCEPT ![t] = Tail(@)]

(* GetPageForAddress with shouldCreate: an empty page table is put in. *)
NewTable(t) ==
    LET i == Item1(t) IN
    /\ Returned(t) /\ NoTable(i)
    /\ table' = [table EXCEPT ![i.proc][TableOf(i.page)] = call[t].frame]
    /\ failed' = (call[t].frame = 0)
    /\ UNCHANGED <<frameVars, live, entry, heapEnd, threads, work, removed, leaked>>

(* AllocatePage leaves the entry alone if there is no frame. *)
AllocatePage(t) ==
    LET i == Item1(t) IN
    /\ Returned(t) /\ i.op = "map" /\ ~NoTable(i)
    /\ entry' = IF call[t].frame = 0 THEN entry
                ELSE [entry EXCEPT ![i.proc][i.page] =
                        [frame |-> call[t].frame, present |-> TRUE]]
    /\ failed' = (call[t].frame = 0)
    /\ ItemDone(t)
    /\ UNCHANGED <<frameVars, live, table, heapEnd, threads, removed, leaked>>

(* CreateSharedRegion has its frames, and maps them for both processes. *)
RegionReady(t) ==
    LET i == Item1(t)
        MapFor(p) == [n \in 1..RegionPages |->
                        Item("share", p, <<"shared", n>>, call[t].frame + n - 1)]
    IN
    /\ Returned(t) /\ i.op = "region"
    /\ work' = [work EXCEPT ![t] = MapFor(i.proc[1]) \o MapFor(i.proc[2])]
    /\ failed' = (call[t].frame = 0)
    /\ UNCHANGED <<frameVars, spaceVars, removed, leaked>>

SharePage(t) ==
    LET i == Item1(t) IN
    /\ Working(t) /\ i.op = "share" /\ ~NoTable(i)
    /\ entry' = [entry EXCEPT ![i.proc][i.page] = [frame |-> i.frame, present |-> TRUE]]
    /\ ItemDone(t)
    /\ UNCHANGED <<frameVars, call, live, table, heapEnd, threads, failed, removed, leaked>>

(* The last statement of UpdateHeap, and of SYSCALL_START_THREAD. *)
Finish(t) ==
    LET i == Item1(t) IN
    /\ Working(t) /\ i.op \in {"heapEnd", "thread"}
    /\ IF i.op = "heapEnd"
         THEN heapEnd' = [heapEnd EXCEPT ![i.proc] = i.page[2]] /\ UNCHANGED threads
         ELSE threads' = [threads EXCEPT ![i.proc] = @ + 1] /\ UNCHANGED heapEnd
    /\ ItemDone(t)
    /\ UNCHANGED <<frameVars, call, live, table, entry, failed, removed, leaked>>
-----------------------------------------------------------------------------
(* FreePage for a set S of pages of processes: the frame is freed, the      *)
(* entry keeps its number.                                                  *)
FrameOf(u) == entry[u[1]][u[2]].frame

FreePage(S) ==
    /\ FreeBlock({FrameOf(u) : u \in S} \ {0}, Cardinality({u \in S : FrameOf(u) # 0}))
    /\ entry' = [p \in Process |-> [page \in Page |->
                   IF <<p, page>> \in S THEN [entry[p][page] EXCEPT !.present = FALSE]
                   ELSE entry[p][page]]]

Idle(t) == Booted /\ work[t] = <<>> /\ ~failed
Call(t, items) == work' = [work EXCEPT ![t] = items]

(* ProcessHelper::Create: code, stack and heap, in this order. *)
Create(t, p) ==
    /\ Idle(t) /\ p \notin live
    /\ live' = live \cup {p}
    /\ Call(t, MapPages(p, "code", 1, 1) \o MapPages(p, "stack", 1, 1)
                 \o MapPages(p, "heap", 1, HeapStart))
    /\ heapEnd' = [heapEnd EXCEPT ![p] = HeapStart]
    /\ threads' = [threads EXCEPT ![p] = 1]
    /\ UNCHANGED <<frameVars, call, table, entry, failed, removed, leaked>>

StartThread(t, p) ==
    /\ Idle(t) /\ p \in live /\ threads[p] < MaxThreads
    /\ Call(t, MapPages(p, "stack", threads[p] + 1, threads[p] + 1)
                 \o <<Item("thread", p, <<"stack", threads[p] + 1>>, 0)>>)
    /\ UNCHANGED <<frameVars, call, spaceVars, failed, removed, leaked>>

(* UpdateHeap *)
ExpandHeap(t, p, newEnd) ==
    /\ Idle(t) /\ p \in live /\ newEnd > heapEnd[p]
    /\ Call(t, MapPages(p, "heap", heapEnd[p] + 1, newEnd)
                 \o <<Item("heapEnd", p, <<"heap", newEnd>>, 0)>>)
    /\ UNCHANGED <<frameVars, call, spaceVars, failed, removed, leaked>>

(* Mutant: the first page freed is the last one that stays. *)
ShrinkHeapFar(t, p, newEnd) ==
    /\ Idle(t) /\ p \in live /\ newEnd < heapEnd[p]
    /\ FreePage({<<p, <<"heap", i>>>> : i \in newEnd..heapEnd[p]})
    /\ heapEnd' = [heapEnd EXCEPT ![p] = newEnd]
    /\ UNCHANGED <<call, live, table, threads, work, failed, removed, leaked>>

ShrinkHeap(t, p, newEnd) ==
    /\ Idle(t) /\ p \in live /\ newEnd < heapEnd[p]
    /\ FreePage({<<p, <<"heap", i>>>> : i \in (newEnd + 1)..heapEnd[p]})
    /\ heapEnd' = [heapEnd EXCEPT ![p] = newEnd]
    /\ UNCHANGED <<call, live, table, threads, work, failed, removed, leaked>>

(* The compositor asks for a region at addresses both sides have free. *)
Shared(p) == {<<p, page>> : page \in Pages("shared", RegionPages)}
Mapped(u) == entry[u[1]][u[2]].present

CreateSharedRegion(t, p, q) ==
    /\ Idle(t) /\ {p, q} \subseteq live /\ p # q
    /\ \A u \in Shared(p) \cup Shared(q) : ~Mapped(u)
    /\ Call(t, <<Item("region", <<p, q>>, <<"shared", 1>>, 0)>>)
    /\ UNCHANGED <<frameVars, call, spaceVars, failed, removed, leaked>>

(* RemoveSharedRegion of a region the two share: both sides free it. *)
RemoveSharedRegion(t, p, q) ==
    /\ Idle(t) /\ {p, q} \subseteq live /\ p # q
    /\ removed + RegionPages <= MaxRemoved
    /\ \A u \in Shared(p) \cup Shared(q) : Mapped(u)
    /\ \A u \in Shared(p) : FrameOf(u) = FrameOf(<<q, u[2]>>)
    /\ FreePage(Shared(p) \cup Shared(q))
    /\ removed' = removed + RegionPages
    /\ UNCHANGED <<call, live, table, heapEnd, threads, work, failed, leaked>>

(* Mutant: the stack of the main thread only. *)
OwnedByMain(p) ==
    {<<p, page>> : page \in Pages("stack", 1) \cup Pages("code", 1)
                               \cup Pages("heap", heapEnd[p])}

(* What a process frees when it exits: stacks, code and heap. *)
Owned(p) ==
    {<<p, page>> : page \in Pages("stack", threads[p]) \cup Pages("code", 1)
                               \cup Pages("heap", heapEnd[p])}

(* RemoveProcess forgets the page tables and the shared regions: their      *)
(* frames stay marked as used.                                              *)
RemoveProcess(t, p) ==
    /\ Idle(t) /\ p \in live
    /\ FreeBlock({FrameOf(u) : u \in Owned(p)} \ {0},
                 Cardinality({u \in Owned(p) : FrameOf(u) # 0}))
    /\ live' = live \ {p}
    /\ table' = [table EXCEPT ![p] = [d \in Table |-> 0]]
    /\ entry' = [entry EXCEPT ![p] = [page \in Page |-> NoEntry]]
    /\ heapEnd' = [heapEnd EXCEPT ![p] = 0] /\ threads' = [threads EXCEPT ![p] = 0]
    /\ leaked' = leaked \cup ({table[p][d] : d \in Table} \ {0})
                    \cup {FrameOf(u) : u \in {v \in Shared(p) : Mapped(v)
                             /\ \A q \in live \ {p} : ~\E w \in Shared(q) :
                                  Mapped(w) /\ FrameOf(w) = FrameOf(v)}}
    /\ UNCHANGED <<call, work, failed, removed>>
-----------------------------------------------------------------------------
(* The steps of a call, and the calls. *)
Step(t) ==
    \/ Allocate(t) \/ Allocating(t) \/ NewTable(t) \/ AllocatePage(t)
    \/ RegionReady(t) \/ SharePage(t) \/ Finish(t)

Syscall(t) ==
    \E p \in Process :
        \/ Create(t, p) \/ StartThread(t, p) \/ RemoveProcess(t, p)
        \/ \E n \in 1..MaxHeap : ExpandHeap(t, p, n) \/ ShrinkHeap(t, p, n)
        \/ \E q \in Process : CreateSharedRegion(t, p, q) \/ RemoveSharedRegion(t, p, q)

Next ==
    \/ Boot /\ UNCHANGED <<spaceVars, work, failed, removed, leaked>>
    \/ \E t \in Thread : Step(t) \/ Syscall(t)

Spec == Init /\ [][Next]_vars
-----------------------------------------------------------------------------
(* The variables have their types; usedBlocks runs below zero while the     *)
(* kernel boots and stays an unsigned number.                               *)
TypeOK ==
    /\ MemoryTypeOK
    /\ live \subseteq Process
    /\ table \in [Process -> [Table -> Frame]]
    /\ entry \in [Process -> [Page -> [frame : Frame, present : BOOLEAN]]]
    /\ heapEnd \in [Process -> 0..MaxHeap] /\ threads \in [Process -> 0..MaxThreads]
    /\ failed \in BOOLEAN /\ removed \in 0..MaxRemoved /\ leaked \subseteq Frame

(* Who uses which frame: pages that are present, and page tables. *)
PageUses == {u \in Process \X Page : Mapped(u)}
TableUses == {u \in Process \X Table : table[u[1]][u[2]] # 0}
FrameUsed(u) == IF u \in PageUses THEN FrameOf(u) ELSE table[u[1]][u[2]]
SamePage(u, v) == u[2] = v[2] /\ u[2][1] = "shared"

(* virtualmemory.cpp:112-149, process.cpp:224-230: whatever processes map,  *)
(* free, share and leave behind when they exit, a frame in use is marked in *)
(* the bitmap and is neither kernel nor boot module memory; and two uses    *)
(* of one frame are the two sides of a shared page.  Only after a shared    *)
(* region was removed may a frame be handed out that does not exist.        *)
Exclusive ==
    ~failed =>
    /\ \A u \in PageUses \cup TableUses :
          \/ FrameUsed(u) \in Usable \cap memoryArray
          \/ FrameUsed(u) >= Top /\ removed > 0
    /\ \A u, v \in PageUses \cup TableUses :
          u # v /\ FrameUsed(u) = FrameUsed(v) /\ FrameUsed(u) < Top
             => {u, v} \subseteq PageUses /\ SamePage(u, v)

(* physicalmemory.cpp:135 and 161: the counter never promises more frames   *)
(* than have a clear bit, though boot counts some frames as used twice and  *)
(* lets it run below zero and back; RemoveSharedRegion, which frees every   *)
(* frame on both sides, is the one call that makes it promise too many.     *)
CountSound ==
    Booted => FreeBlocks <= Cardinality(0..(Top - 1) \ memoryArray) + removed

(* process.cpp:215-230, thread.cpp:66-67, process.cpp:263-271: between      *)
(* calls a frame marked as used is mapped by a process or is one of those   *)
(* exits leave behind, page tables and regions; code, heap and stacks of    *)
(* every thread are given back, however the heap grew and shrank.           *)
OnlyTablesLost ==
    Booted /\ ~failed /\ (\A t \in Thread : work[t] = <<>>)
      => Usable \cap memoryArray
           \subseteq leaked \cup {FrameUsed(u) : u \in PageUses \cup TableUses}
-----------------------------------------------------------------------------
(* The machine the proofs are about.  One thread at a time is in a call, as *)
(* two may find the same clear bit; a shared region is one page, as a       *)
(* longer one may be given frames that are in use (physicalmemory.cpp:49).  *)
OneCaller == \E t \in Thread : Thread = {t}

(* The bitmap reaches as far as the last hole of the memory map. *)
BitmapCoversHoles == (0..(Top - 1)) \ Available \subseteq 0..(8 * (maximumBlocks \div 8) - 1)

(* The kernel, in which frame 0 lies, and the boot module are what is       *)
(* marked, and there is memory for both.                                    *)
BootFits(k, m) ==
    /\ Protected = {k, m} /\ 0 \in Region(k)
    /\ k.blocks + (IF m = k THEN 0 ELSE m.blocks) <= Cardinality(Available)

OrdinaryMachine ==
    /\ OneCaller /\ RegionPages = 1 /\ IsFiniteSet(Process)
    /\ BitmapCoversHoles /\ \E k, m \in Protected : BootFits(k, m)
=============================================================================
