--------------------------- MODULE PhysicalMemory ---------------------------
(***************************************************************************)
(* The frame allocator of libcx/kernelcc src/core/physicalmemory.cpp: a    *)
(* bitmap of 4 KB frames and a counter beside it, filled in at boot from   *)
(* the memory map (kernel.cpp:204-221).  All sizes are in frames.          *)
(*                                                                         *)
(* Initialize is given mem_upper, the memory above 1 MB, so the bitmap is  *)
(* shorter than the memory it describes; the bits of the last frames lie   *)
(* behind it.  The searches look at even more bits, whose values are those *)
(* of unrelated memory: any.                                               *)
(***************************************************************************)
EXTENDS Integers, FiniteSets

CONSTANTS
    maximumBlocks,      \* mem_upper / 4 KB
    MemoryMap,          \* the available regions, [base, blocks]
    Protected,          \* the two regions kernelMain marks as used
    UINT32,             \* the range of uint32_t
    Thread,             \* threads inside system calls at the same time
    MaxSize             \* bound: frames asked for at once

Region(r) == r.base..(r.base + r.blocks - 1)
Available == UNION {Region(r) : r \in MemoryMap}
Top == 1 + CHOOSE f \in Available : \A g \in Available : g <= f

ASSUME MemoryAssumption ==
    /\ \A r \in MemoryMap \cup Protected : r.base \in Nat /\ r.blocks \in Nat
    /\ \A r, s \in MemoryMap : r # s => Region(r) \cap Region(s) = {}
    /\ UNION {Region(r) : r \in Protected} \subseteq 0..(Top - 1)

ASSUME SizeAssumption ==
    /\ maximumBlocks \in Nat /\ MaxSize \in Nat \ {0}
    /\ Top \in Nat \ {0} /\ Available # {} /\ Available \subseteq 0..(Top - 1)
    /\ UINT32 \in Nat \ {0} /\ UINT32 > 2 * (Top + maximumBlocks)

VARIABLES
    memoryArray,    \* the frames whose bit is set, as far as Top
    usedBlocks,
    todo,           \* calls of SetRegionFree and SetRegionUsed still to come
    call            \* the allocation a thread is in: statement, size, frame

frameVars == <<memoryArray, usedBlocks, todo>>

Frame == 0..(Top + MaxSize)
Foreign == Top..(Top + MaxSize)
NoCall == [at |-> "none", size |-> 0, frame |-> 0]

FreeBlocks == (maximumBlocks - usedBlocks) % UINT32

(* Initialize sets the bits of the bitmap, whole bytes; the others are what *)
(* they were.                                                               *)
MemoryInit ==
    /\ LET set == 0..(8 * (maximumBlocks \div 8) - 1) \cap 0..(Top - 1) IN
       \E F \in SUBSET (0..(Top - 1) \ set) : memoryArray = set \cup F
    /\ usedBlocks = maximumBlocks
    /\ todo = [free |-> MemoryMap, used |-> Protected]
    /\ call = [t \in Thread |-> NoCall]

Booted == todo.free = {} /\ todo.used = {}

(* Mutant: the counter is a signed number. *)
SetRegionFreeSigned(r) ==
    /\ r \in todo.free
    /\ todo' = [todo EXCEPT !.free = @ \ {r}]
    /\ memoryArray' = (memoryArray \ Region(r)) \cup {0}
    /\ usedBlocks' = usedBlocks - r.blocks
    /\ UNCHANGED call

(* ParseMemoryMap calls SetRegionFree for each available region. *)
SetRegionFree(r) ==
    /\ r \in todo.free
    /\ todo' = [todo EXCEPT !.free = @ \ {r}]
    /\ memoryArray' = (memoryArray \ Region(r)) \cup {0}
    /\ usedBlocks' = (usedBlocks - r.blocks) % UINT32
    /\ UNCHANGED call

(* Mutant: the counter is not adjusted. *)
SetRegionUsedUncounted(r) ==
    /\ todo.free = {} /\ r \in todo.used
    /\ todo' = [todo EXCEPT !.used = @ \ {r}]
    /\ memoryArray' = memoryArray \cup Region(r) \cup {0}
    /\ UNCHANGED <<usedBlocks, call>>

SetRegionUsed(r) ==
    /\ todo.free = {} /\ r \in todo.used
    /\ todo' = [todo EXCEPT !.used = @ \ {r}]
    /\ memoryArray' = memoryArray \cup Region(r) \cup {0}
    /\ usedBlocks' = (usedBlocks + r.blocks) % UINT32
    /\ UNCHANGED call

(* AllocateBlock, or AllocateBlocks if ranged, begins; it returns 0 at once *)
(* if the counter says so.                                                  *)
Start(t, size, ranged) ==
    /\ Booted /\ call[t].at = "none"
    /\ LET enough == IF ranged THEN FreeBlocks > size ELSE FreeBlocks > 0
       IN  call' = [call EXCEPT ![t] =
                      [at |-> IF enough THEN "search" ELSE "done", size |-> size, frame |-> 0]]
    /\ UNCHANGED frameVars

(* The first clear bit from which on size of the next size + 1 are clear;  *)
(* for one frame FirstFree stops at the first clear bit.                   *)
Enough(clear, f, size) ==
    f \in clear /\ (size = 1 \/ Cardinality(clear \cap (f..(f + size))) >= size)

(* FirstFree or FirstFreeSize; 0 is returned if the search fails. *)
Search(t) ==
    /\ call[t].at = "search"
    /\ \E F \in SUBSET Foreign :
          LET clear == (0..(Top - 1) \ memoryArray) \cup F
              fits  == {f \in Frame : Enough(clear, f, call[t].size)}
          IN  call' = [call EXCEPT ![t] =
                         IF fits = {} THEN [@ EXCEPT !.at = "done"]
                         ELSE [@ EXCEPT !.at = "claim",
                                 !.frame = CHOOSE f \in fits : \A g \in fits : f <= g]]
    /\ UNCHANGED frameVars

Claimed(t) == call[t].frame..(call[t].frame + call[t].size - 1)

(* The bits are set, and the address is returned; bits from Top on are not  *)
(* followed.                                                                *)
Claim(t) ==
    /\ call[t].at = "claim"
    /\ memoryArray' = memoryArray \cup (Claimed(t) \cap 0..(Top - 1))
    /\ usedBlocks' = (usedBlocks + call[t].size) % UINT32
    /\ call' = [call EXCEPT ![t].at = "done"]
    /\ UNCHANGED todo

(* n calls of FreeBlock, on the frames F. *)
FreeBlock(F, n) ==
    /\ memoryArray' = memoryArray \ F
    /\ usedBlocks' = (usedBlocks - n) % UINT32
    /\ UNCHANGED todo

Boot ==
    \/ \E r \in MemoryMap : SetRegionFree(r)
    \/ \E r \in Protected : SetRegionUsed(r)

MemoryTypeOK ==
    /\ memoryArray \subseteq 0..(Top - 1)
    /\ usedBlocks \in 0..(UINT32 - 1)
    /\ todo.free \subseteq MemoryMap /\ todo.used \subseteq Protected
    /\ call \in [Thread -> [at : {"none", "search", "claim", "done"}, size : 0..MaxSize,
                            frame : Frame]]

Usable == Available \ ({0} \cup UNION {Region(r) : r \in Protected})
=============================================================================
