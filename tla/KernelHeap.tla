----------------------------- MODULE KernelHeap -----------------------------
(***************************************************************************)
(* The kernel heap of libcx/kernelcc (src/system/memory/heap.cpp): a       *)
(* first-fit allocator over a doubly linked list of block headers that lie *)
(* in the memory they describe.  heapMutex makes each operation one step.  *)
(* Callers free what they were given, once.                                *)
(***************************************************************************)
EXTENDS Integers, FiniteSets

CONSTANTS
    startAddress, endAddress,
    Request,    \* sizes asked for
    Alignment,  \* alignments asked of alignedMalloc: powers of two
    MaxLive     \* bound: allocations alive at a time

HeaderSize == 20            \* sizeof(MemoryHeader)
MINIMAL_SPLIT_SIZE == 4
UINT16 == 65536             \* values of a uint16_t

ASSUME HeapAssumption ==
    /\ startAddress \in Nat \ {0} /\ startAddress % 4 = 0
    /\ endAddress \in Nat /\ endAddress % 4 = 0
    /\ endAddress >= startAddress + HeaderSize
    /\ Request \subseteq Nat /\ Alignment \subseteq 1..4096
    /\ MaxLive \in Nat

VARIABLES
    header,     \* the headers in the list, by address
    live,       \* history: what callers hold
    panicked    \* System::Panic was called

vars == <<header, live, panicked>>

Blocks == DOMAIN header
Null == 0

MemoryHeader == [next : Nat, prev : Nat, allocated : BOOLEAN, size : Nat]

(* What a caller holds: a pointer, the size it asked for and, from          *)
(* alignedMalloc, the 16-bit offset stored in front of the memory.          *)
Allocation == [ptr : Nat, size : Nat, offset : Nat]

Init ==
    /\ header = [a \in {startAddress} |->
                   [next |-> Null, prev |-> Null, allocated |-> FALSE,
                    size |-> endAddress - startAddress - HeaderSize]]
    /\ live = {} /\ panicked = FALSE

align_up(n, align) == ((n + align - 1) \div align) * align

(* Mutant: one word too small is taken for large enough. *)
FitsAlmost(b, size) == ~header[b].allocated /\ header[b].size + 4 >= size

Fits(b, size) == ~header[b].allocated /\ header[b].size >= size

(* Does FirstFree return b?  It follows the list, which is in address order *)
(* (ListSound), and stops at the first block that fits.                     *)
FirstFree(b, size) ==
    /\ b \in Blocks /\ Fits(b, size)
    /\ \A c \in Blocks : c < b => ~Fits(c, size)

(* The rest of InternalAllocate: block b is split if that is worth it, and  *)
(* is from now on as large as was asked for.                                *)
TakeBlock(b, size) ==
    LET h     == header[b]
        split == h.size >= size + HeaderSize + MINIMAL_SPLIT_SIZE
        n     == b + size + HeaderSize
        rest  == [next |-> h.next, prev |-> b, allocated |-> FALSE,
                  size |-> h.size - size - HeaderSize]
        taken == [h EXCEPT !.next = IF split THEN n ELSE @,
                           !.allocated = TRUE, !.size = size]
    IN  header' = [a \in Blocks \cup IF split THEN {n} ELSE {} |->
                     IF a = b THEN taken
                     ELSE IF split /\ a = n THEN rest
                     ELSE IF split /\ a = h.next THEN [header[a] EXCEPT !.prev = n]
                     ELSE header[a]]

InternalAllocate(b, size) ==
    /\ ~panicked /\ Cardinality(live) < MaxLive
    /\ FirstFree(b, align_up(size, 4))
    /\ TakeBlock(b, align_up(size, 4))
    /\ UNCHANGED panicked

malloc(b, size) ==
    /\ InternalAllocate(b, size)
    /\ live' = live \cup {[ptr |-> b + HeaderSize, size |-> size, offset |-> 0]}

(* Mutant: no room is added for the offset. *)
alignedMallocNoRoom(b, size, align) ==
    LET block == b + HeaderSize
        ptr   == align_up(block + 2, align)
    IN  /\ size > 0
        /\ InternalAllocate(b, size + (align - 1))
        /\ live' = live \cup {[ptr |-> ptr, size |-> size, offset |-> (ptr - block) % UINT16]}

alignedMalloc(b, size, align) ==
    LET block == b + HeaderSize
        ptr   == align_up(block + 2, align)
    IN  /\ size > 0
        /\ InternalAllocate(b, size + 2 + (align - 1))
        /\ live' = live \cup {[ptr |-> ptr, size |-> size, offset |-> (ptr - block) % UINT16]}

OutOfHeapSpace(size) ==
    /\ ~panicked /\ Cardinality(live) < MaxLive
    /\ \A b \in Blocks : ~Fits(b, align_up(size, 4))
    /\ panicked' = TRUE
    /\ UNCHANGED <<header, live>>

(* Mutant: the block is not merged with the one behind it. *)
ReleaseNoNext(b) ==
    LET h    == header[b]
        back == h.prev # Null /\ ~header[h.prev].allocated
        m    == IF back THEN h.prev ELSE b
    IN  header' = [a \in Blocks \ IF back THEN {b} ELSE {} |->
                     IF a = m THEN [header[m] EXCEPT !.next = h.next, !.allocated = FALSE,
                                      !.size = IF back THEN @ + h.size + HeaderSize ELSE @]
                     ELSE IF a = h.next THEN [header[a] EXCEPT !.prev = m]
                     ELSE header[a]]

(* Mutant: the block behind the merged one keeps its prev pointer. *)
ReleaseStalePrev(b) ==
    LET h     == header[b]
        back  == h.prev # Null /\ ~header[h.prev].allocated
        m     == IF back THEN h.prev ELSE b
        ahead == h.next # Null /\ ~header[h.next].allocated
        sizeB == IF back THEN header[m].size + h.size + HeaderSize ELSE h.size
        free  == [header[m] EXCEPT
                    !.next = IF ahead THEN header[h.next].next ELSE h.next,
                    !.allocated = FALSE,
                    !.size = IF ahead THEN sizeB + header[h.next].size + HeaderSize
                                      ELSE sizeB]
    IN  header' = [a \in Blocks \ ((IF back THEN {b} ELSE {})
                                     \cup (IF ahead THEN {h.next} ELSE {})) |->
                     IF a = m THEN free ELSE header[a]]

(* The block is merged with a free one in front of it, then with a free one *)
(* behind it.                                                               *)
Release(b) ==
    LET h     == header[b]
        back  == h.prev # Null /\ ~header[h.prev].allocated
        m     == IF back THEN h.prev ELSE b
        ahead == h.next # Null /\ ~header[h.next].allocated
        sizeB == IF back THEN header[m].size + h.size + HeaderSize ELSE h.size
        free  == [header[m] EXCEPT
                    !.next = IF ahead THEN header[h.next].next ELSE h.next,
                    !.allocated = FALSE,
                    !.size = IF ahead THEN sizeB + header[h.next].size + HeaderSize
                                      ELSE sizeB]
    IN  header' = [a \in Blocks \ ((IF back THEN {b} ELSE {})
                                     \cup (IF ahead THEN {h.next} ELSE {})) |->
                     IF a = m THEN free
                     ELSE IF a = free.next THEN [header[a] EXCEPT !.prev = m]
                     ELSE header[a]]

(* allignedFree goes back by the offset; free(ptr) is the case of none. *)
BlockOf(x) == x.ptr - x.offset - HeaderSize

free(x) ==
    LET b == BlockOf(x) IN
    /\ ~panicked
    /\ live' = live \ {x}
    /\ IF b \in Blocks /\ header[b].allocated
         THEN Release(b) /\ UNCHANGED panicked
         ELSE panicked' = TRUE /\ UNCHANGED header

Next ==
    \/ \E b \in Blocks, size \in Request :
          \/ malloc(b, size)
          \/ \E align \in Alignment : alignedMalloc(b, size, align)
    \/ \E size \in Request :
          \/ OutOfHeapSpace(size)
          \/ \E align \in Alignment : size > 0 /\ OutOfHeapSpace(size + 2 + (align - 1))
    \/ \E x \in live : free(x)

Spec == Init /\ [][Next]_vars
-----------------------------------------------------------------------------
TypeOK ==
    /\ Blocks \subseteq startAddress..(endAddress - HeaderSize)
    /\ header \in [Blocks -> MemoryHeader]
    /\ live \subseteq Allocation
    /\ panicked \in BOOLEAN

(* The end of what block b may use. *)
Limit(b) == IF header[b].next = Null THEN endAddress ELSE header[b].next

(* The list is a list, in address order, and no block reaches into the      *)
(* next header: whatever was allocated, split, freed and merged, free and   *)
(* FirstFree find every block exactly once.                                 *)
ListSound ==
    /\ startAddress \in Blocks
    /\ \A b \in Blocks :
          /\ b + HeaderSize + header[b].size <= Limit(b)
          /\ \A c \in Blocks : c <= b \/ c >= Limit(b)
          /\ header[b].next # Null => /\ header[b].next \in Blocks
                                      /\ header[header[b].next].prev = b
          /\ IF b = startAddress THEN header[b].prev = Null
             ELSE header[b].prev \in Blocks /\ header[header[b].prev].next = b

(* No two neighbours are both free: free merges on both sides and a split   *)
(* never leaves a free block in front of another.                           *)
Coalesced ==
    \A b \in Blocks : header[b].next # Null /\ ~header[b].allocated =>
                        header[header[b].next].allocated

(* The memory a caller holds lies inside an allocated block that nobody     *)
(* else holds, so no two callers share a byte, no caller overwrites a       *)
(* header and free finds the block again (for alignedMalloc, through the    *)
(* offset stored below the pointer, itself inside the block).               *)
ClientsIntact ==
    /\ \A x \in live :
          LET b == BlockOf(x) IN
          /\ b \in Blocks /\ header[b].allocated
          /\ IF x.offset = 0 THEN x.ptr = b + HeaderSize ELSE x.ptr - 2 >= b + HeaderSize
          /\ x.ptr + x.size <= b + HeaderSize + header[b].size
    /\ \A b \in Blocks : header[b].allocated =>
          \E x \in live : BlockOf(x) = b /\ \A y \in live : BlockOf(y) = b => y = x
=============================================================================
