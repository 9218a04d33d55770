-------------------------- MODULE AddressInvariant ---------------------------
(***************************************************************************)
(* The inductive invariant of AddressSpace, for any memory map, any number *)
(* of processes, heap pages, threads and shared regions, when one thread   *)
(* at a time is inside a call that allocates or frees frames.              *)
(***************************************************************************)
EXTENDS AddressSpace
-----------------------------------------------------------------------------
(***************************************************************************)
(* Types.  Beside TypeOK, the items of a call name what their operation    *)
(* needs, and an allocation is for the first of them.                      *)
(***************************************************************************)
ItemType ==
    [op : {"map", "share", "heapEnd", "thread", "region"},
     proc : Process \cup (Process \X Process), page : Page, frame : Frame]

ItemTyped(i) ==
    /\ i \in ItemType
    /\ IF i.op = "region" THEN i.proc \in Process \X Process ELSE i.proc \in Process
    /\ i.op = "heapEnd" => i.page \in Pages("heap", MaxHeap)

WorkTyped(w) ==
    /\ w \in Seq(ItemType)
    /\ \A i \in 1..Len(w) :
          /\ ItemTyped(w[i])
          /\ w[i].op = "thread" => i = Len(w) /\ threads[w[i].proc] < MaxThreads

CallTyped(t) ==
    /\ call[t].at # "none" =>
         /\ work[t] # <<>>
         /\ NoTable(Item1(t)) \/ Item1(t).op \in {"map", "region"}
         /\ call[t].size = IF Item1(t).op = "region" THEN RegionPages ELSE 1
    /\ call[t].frame + call[t].size <= Top + MaxSize + 1

TInv(t) ==
    /\ TypeOK
    /\ todo \in [free : SUBSET MemoryMap, used : SUBSET Protected]
    /\ DOMAIN work = Thread /\ WorkTyped(work[t])
    /\ CallTyped(t)

(* The items the calls begin with, and what AllocateBlock finds. *)
CreateList(w, p) ==
    /\ Len(w) = HeapStart + 2
    /\ w[1] = Item("map", p, <<"code", 1>>, 0) /\ w[2] = Item("map", p, <<"stack", 1>>, 0)
    /\ \A i \in 3..(HeapStart + 2) : w[i] = Item("map", p, <<"heap", i - 2>>, 0)

ThreadList(w, p, k) ==
    /\ Len(w) = 2
    /\ w[1] = Item("map", p, <<"stack", k>>, 0) /\ w[2] = Item("thread", p, <<"stack", k>>, 0)

HeapList(w, p, h, n) ==
    /\ h \in Nat /\ h < n /\ Len(w) = n - h + 1
    /\ w[n - h + 1] = Item("heapEnd", p, <<"heap", n>>, 0)
    /\ \A i \in 1..(n - h) : w[i] = Item("map", p, <<"heap", h + i>>, 0)

RegionList(w, p, q, f) ==
    /\ w \in Seq(ItemType) /\ Len(w) = 2 * RegionPages
    /\ \A n \in 1..RegionPages :
         /\ w[n] = Item("share", p, <<"shared", n>>, f + n - 1)
         /\ w[RegionPages + n] = Item("share", q, <<"shared", n>>, f + n - 1)

FirstClear(t) ==
    \/ call' = [call EXCEPT ![t].at = "done"]
    \/ \E f \in Frame, F \in SUBSET Foreign :
         LET clear == (0..(Top - 1) \ memoryArray) \cup F IN
         /\ Enough(clear, f, call[t].size)
         /\ \A g \in Frame : Enough(clear, g, call[t].size) => f <= g
         /\ call' = [call EXCEPT ![t] = [@ EXCEPT !.at = "claim", !.frame = f]]

(* The pages ShrinkHeap frees. *)
HeapPages(p, a, b) == {<<p, <<"heap", i>>>> : i \in (a + 1)..b}
-----------------------------------------------------------------------------
(***************************************************************************)
(* Who holds which frame.  A slot is a page or a page table of a process,  *)
(* or the result of the allocation in progress; the pages of a region hold *)
(* their frame from the moment the region has one.  From here on a region  *)
(* is one page long: a longer one may be given frames that are in use.     *)
(***************************************************************************)
InCall == <<>>
Slot == (Process \X (Page \cup Table)) \cup {InCall}
SharedPage == <<"shared", 1>>
SharedSlot == Process \X {SharedPage}
OwnSlot == Slot \ SharedSlot

Sharing(w, u) == \E i \in 1..Len(w) : w[i].op = "share" /\ u = <<w[i].proc, w[i].page>>

Held(t, u) ==
    IF u = InCall THEN IF call[t].at = "done" THEN call[t].frame ELSE 0
    ELSE IF u[2] \in Table THEN table[u[1]][u[2]]
    ELSE IF Mapped(u) THEN FrameOf(u)
    ELSE IF Sharing(work[t], u) THEN Item1(t).frame ELSE 0

Holding(t) == [u \in Slot |-> Held(t, u)]

Clear(M) == 0..(Top - 1) \ M
Beyond(H) == {u \in Slot : H[u] >= Top}
BeyondOwn(H) == {u \in OwnSlot : H[u] >= Top}

(* Frames in use are marked and belong to one slot, or to two that share a  *)
(* page.                                                                    *)
HeldOK(H, M, rem) ==
    /\ H \in [Slot -> Frame] /\ M \subseteq 0..(Top - 1) /\ Clear(M) \subseteq Usable
    /\ \A u \in Slot : H[u] # 0 => H[u] \in Usable \cap M \/ (H[u] >= Top /\ rem > 0)
    /\ \A u, v \in Slot :
          u # v /\ H[u] = H[v] /\ H[u] # 0 /\ H[u] < Top => u \in SharedSlot
    /\ \A u, v, w \in Slot :
          H[u] = H[v] /\ H[v] = H[w] /\ H[u] # 0 /\ H[u] < Top => u = v \/ v = w \/ u = w

(* What the counter promises: a frame that does not exist was paid for, by  *)
(* each side of a region with one half, since removing the region gives     *)
(* back two.                                                                *)
Paid(H, M, free, rem) ==
    /\ free \in Nat /\ rem \in Nat
    /\ 2 * free + Cardinality(Beyond(H)) + Cardinality(BeyondOwn(H))
         <= 2 * (Cardinality(Clear(M)) + rem)

Found(H, M, lost) == Usable \cap M \subseteq lost \cup {H[u] : u \in Slot}

Frames(H, M, free, rem, lost) == HeldOK(H, M, rem) /\ Paid(H, M, free, rem) /\ Found(H, M, lost)

(* What is left of a call fits the address spaces. *)
OwnPage == Pages("code", 1) \cup Pages("heap", MaxHeap) \cup Pages("stack", MaxThreads)
ItemSlot(i) == <<i.proc, i.page>>

ItemSound(w, k) ==
    LET i == w[k] IN
    /\ i.op = "map" => i.proc \in live /\ i.page \in OwnPage /\ ~Mapped(ItemSlot(i))
    /\ i.op \in {"heapEnd", "thread"} => k = Len(w) /\ i.proc \in live
    /\ i.op = "heapEnd" => heapEnd[i.proc] < i.page[2]
    /\ i.op = "thread" => i.page = <<"stack", threads[i.proc] + 1>>
    /\ i.op = "region" =>
         /\ Len(w) = 1 /\ i.proc[1] # i.proc[2]
         /\ \A j \in 1..2 : i.proc[j] \in live /\ ~Mapped(<<i.proc[j], SharedPage>>)
    /\ i.op = "share" =>
         /\ i.proc \in live /\ i.page = SharedPage /\ ~Mapped(ItemSlot(i)) /\ i.frame # 0
         /\ \A j \in 1..Len(w) : w[j].op = "share" /\ w[j].frame = i.frame

WorkSound(w) ==
    /\ \A k \in 1..Len(w) : ItemSound(w, k)
    /\ \A j, k \in 1..Len(w) :
          j # k /\ w[j].op = w[k].op => ItemSlot(w[j]) # ItemSlot(w[k])

ToMap(w, u) == \E k \in 1..Len(w) : w[k].op = "map" /\ u = ItemSlot(w[k])
Grows(w, u) ==
    \E k \in 1..Len(w) :
       \/ w[k].op = "thread" /\ u = ItemSlot(w[k])
       \/ w[k].op = "heapEnd" /\ u \in HeapPages(w[k].proc, heapEnd[w[k].proc], w[k].page[2])

(* Code, heap and stacks of a process are what it will free. *)
Covered(t) ==
    \A p \in Process, page \in OwnPage :
       Mapped(<<p, page>>) \/ ToMap(work[t], <<p, page>>)
         <=> (p \in live /\ <<p, page>> \in Owned(p)) \/ Grows(work[t], <<p, page>>)

CallSound(t) ==
    /\ call[t].at \in {"search", "claim"} => FreeBlocks > 0
    /\ call[t].at = "search" => call[t].frame = 0
    /\ call[t].at = "claim" =>
         \/ call[t].frame \in Clear(memoryArray)
         \/ Clear(memoryArray) = {} /\ call[t].frame \in Foreign

Absent(p) ==
    (\A d \in Table : table[p][d] = 0) /\ (\A page \in Page : ~Mapped(<<p, page>>))

Control(t) ==
    /\ WorkSound(work[t]) /\ Covered(t) /\ CallSound(t)
    /\ \A p \in Process \ live : Absent(p)
    /\ \A u \in Process \X Page : Mapped(u) => FrameOf(u) # 0

Run(t) == ~failed /\ Control(t) /\ Frames(Holding(t), memoryArray, FreeBlocks, removed, leaked)

Running(t) ==
    IF failed THEN call[t].at = "none" /\ CountSound
    ELSE Control(t) /\ Frames(Holding(t), memoryArray, FreeBlocks, removed, leaked)

(* Until the first process: the holes stay marked, and what was freed and    *)
(* not marked again is clear.  k and m are the regions of kernel and module. *)
Freed == UNION {Region(r) : r \in MemoryMap \ todo.free}
Marked == UNION {Region(r) : r \in Protected \ todo.used}
CountedUsed(k, m) == (IF k \in todo.used THEN 0 ELSE k.blocks)
                       + (IF m \in todo.used \/ m = k THEN 0 ELSE m.blocks)

Booting(t, k, m) ==
    /\ live = {} /\ work[t] = <<>> /\ call[t].at = "none"
    /\ ~failed /\ removed = 0 /\ leaked = {}
    /\ \A p \in Process : Absent(p)
    /\ Clear(memoryArray) \subseteq Available
    /\ todo.free # {} => todo.used = Protected
    /\ todo.free # MemoryMap => 0 \in memoryArray
    /\ Marked \subseteq memoryArray /\ memoryArray \cap Freed \subseteq Marked \cup {0}
    /\ FreeBlocks = (Cardinality(Freed) - CountedUsed(k, m)) % UINT32

AInv(t, k, m) == TInv(t) /\ (Booting(t, k, m) \/ (Booted /\ Running(t)))
-----------------------------------------------------------------------------
(***************************************************************************)
(* What one step of a call does to the frames that are held.               *)
(***************************************************************************)
SlotsOf(p) == {u \in Slot : u # InCall /\ u[1] = p}
HandOver(H, S) == [s \in Slot |-> IF s = InCall THEN 0 ELSE IF s \in S THEN H[InCall] ELSE H[s]]
Emptied(H, S) == [s \in Slot |-> IF s \in S THEN 0 ELSE H[s]]
FreeOf(S) == FreeBlock({FrameOf(u) : u \in S} \ {0}, Cardinality({u \in S : FrameOf(u) # 0}))

EntrySet(u, f) ==
    entry' = [entry EXCEPT ![u[1]][u[2]] = [frame |-> f, present |-> TRUE]]

(* Nothing changes hands. *)
Kept(t) ==
    /\ Holding(t)' = Holding(t) /\ memoryArray' = memoryArray /\ FreeBlocks' = FreeBlocks
    /\ removed' = removed /\ leaked' = leaked

(* The call has marked frame f: a clear one, or one that was never free     *)
(* when the search found no clear one.                                      *)
Took(t, f) ==
    /\ Holding(t)[InCall] = 0 /\ FreeBlocks > 0
    /\ f \in Clear(memoryArray) \/ (Clear(memoryArray) = {} /\ f \in Foreign)
    /\ Holding(t)' = [Holding(t) EXCEPT ![InCall] = f]
    /\ memoryArray' = memoryArray \cup ({f} \cap 0..(Top - 1))
    /\ usedBlocks' = (usedBlocks + 1) % UINT32
    /\ removed' = removed /\ leaked' = leaked

(* The frame of the call becomes a page, a table or both ends of a region. *)
HandedOver(t, a, b) ==
    /\ Holding(t)[InCall] # 0 /\ Holding(t)[a] = 0 /\ Holding(t)[b] = 0
    /\ IF a = b THEN a \in OwnSlot ELSE a \in SharedSlot /\ b \in SharedSlot
    /\ Holding(t)' = HandOver(Holding(t), {a, b})
    /\ memoryArray' = memoryArray /\ FreeBlocks' = FreeBlocks
    /\ removed' = removed /\ leaked' = leaked

(* The frames of the slots S are freed, and what the slots P still hold is *)
(* lost, unless another slot holds it as well.                             *)
GaveBack(t, S, P) ==
    /\ \A u \in S : Holding(t)[u] # 0
    /\ memoryArray' = memoryArray \ {Holding(t)[u] : u \in S}
    /\ usedBlocks' = (usedBlocks - Cardinality(S)) % UINT32
    /\ Holding(t)' = Emptied(Emptied(Holding(t), S), P)
    /\ removed' = removed /\ leaked \subseteq leaked'
    /\ \A u \in P \ S : Holding(t)[u] \in Usable =>
          \/ Holding(t)[u] \in leaked'
          \/ \E v \in Slot \ (S \cup P) : Holding(t)[v] = Holding(t)[u]

(* The frame of a region is freed once for each of its two ends. *)
Unshared(t, a, b) ==
    /\ a # b /\ Holding(t)[a] = Holding(t)[b] /\ Holding(t)[a] # 0
    /\ memoryArray' = memoryArray \ {Holding(t)[a]}
    /\ usedBlocks' = (usedBlocks - Cardinality({a, b})) % UINT32
    /\ Holding(t)' = Emptied(Holding(t), {a, b})
    /\ removed' = removed + 1 /\ leaked' = leaked

Moves(t) ==
    /\ ~failed' /\ Control(t)'
    /\ \/ Kept(t)
       \/ \E f \in Frame : Took(t, f)
       \/ \E a, b \in Slot \ {InCall} : HandedOver(t, a, b)
       \/ \E S \in SUBSET OwnSlot, P \in SUBSET Slot : GaveBack(t, S, P)
       \/ \E a, b \in SharedSlot : Unshared(t, a, b)

(* An allocation returned 0: the call ends where it is. *)
GaveUp(t) == failed' /\ call'[t].at = "none" /\ UNCHANGED <<frameVars, removed>>
=============================================================================
