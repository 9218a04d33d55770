---------------------------- MODULE AddressFrames ----------------------------
(***************************************************************************)
(* The types of AddressSpace, which need no more than one thread inside a  *)
(* call, and frames as sets and numbers: how boot counts them, and how a   *)
(* change of the frames that are held keeps them exclusive, counted and    *)
(* found.                                                                  *)
(***************************************************************************)
EXTENDS AddressInvariant, FiniteSetTheorems, TLAPS

(* Zenon proves the steps that name no prover. *)
USE Zenon
-----------------------------------------------------------------------------
(***************************************************************************)
(* Sets of pages, slots and frames.                                        *)
(***************************************************************************)
PagesOf(p, area, n) == {<<p, page>> : page \in Pages(area, n)}

LEMMA PagesFinite ==
  ASSUME NEW p, NEW area, NEW n \in Nat
  PROVE  IsFiniteSet(Pages(area, n)) /\ IsFiniteSet(PagesOf(p, area, n))
<1> DEFINE I == 1..n
           S == Pages(area, n)
           f == [i \in I |-> <<area, i>>]
           U == {<<p, page>> : page \in S}
           g == [page \in S |-> <<p, page>>]
<1>1. IsFiniteSet(I)
  BY FS_Interval, SMT
<1>2. f \in Surjection(I, S)
  BY DEF Surjection, Pages
<1>3. IsFiniteSet(S)
  BY <1>1, <1>2, FS_Surjection
<1>4. g \in Surjection(S, U)
  BY DEF Surjection
<1> QED
  BY <1>3, <1>4, FS_Surjection DEF PagesOf

LEMMA TableFinite == IsFiniteSet(Page) /\ IsFiniteSet(Table)
<1>1. MaxHeap \in Nat /\ MaxThreads \in Nat /\ RegionPages \in Nat /\ 1 \in Nat
  BY AddressAssumption, SizeAssumption, SMT
<1>2. /\ IsFiniteSet(Pages("code", 1)) /\ IsFiniteSet(Pages("heap", MaxHeap))
      /\ IsFiniteSet(Pages("stack", MaxThreads)) /\ IsFiniteSet(Pages("shared", RegionPages))
  BY <1>1, PagesFinite
<1>3. IsFiniteSet(Page)
  BY <1>2, FS_Union DEF Page
<1>4. [page \in Page |-> TableOf(page)] \in Surjection(Page, Table)
  BY DEF Surjection, Table
<1> QED
  BY <1>3, <1>4, FS_Surjection

LEMMA SlotFinite ==
  ASSUME IsFiniteSet(Process)
  PROVE  IsFiniteSet(Slot)
<1>1. IsFiniteSet(Page \cup Table)
  BY TableFinite, FS_Union
<1>2. IsFiniteSet(Process \X (Page \cup Table))
  BY <1>1, FS_Product
<1> QED
  BY <1>2, FS_AddElement DEF Slot

LEMMA OwnedFinite ==
  ASSUME heapEnd \in [Process -> 0..MaxHeap], threads \in [Process -> 0..MaxThreads],
         NEW p \in Process
  PROVE  IsFiniteSet(Owned(p)) /\ Owned(p) \subseteq Process \X Page
<1>1. MaxHeap \in Nat /\ MaxThreads \in Nat /\ heapEnd[p] \in 0..MaxHeap
      /\ threads[p] \in 0..MaxThreads
  BY AddressAssumption
<1>2. /\ IsFiniteSet(PagesOf(p, "stack", threads[p])) /\ IsFiniteSet(PagesOf(p, "code", 1))
      /\ IsFiniteSet(PagesOf(p, "heap", heapEnd[p]))
  BY <1>1, PagesFinite, SMT
<1>3. Owned(p) = PagesOf(p, "stack", threads[p])
                   \cup (PagesOf(p, "code", 1) \cup PagesOf(p, "heap", heapEnd[p]))
  BY DEF Owned, PagesOf
<1>4. Owned(p) \subseteq Process \X Page
  BY <1>1, SMT DEF Owned, Pages, Page
<1> QED
  BY <1>2, <1>3, <1>4, FS_Union, ZenonT(30)

LEMMA HeapPagesFinite ==
  ASSUME NEW p \in Process, NEW a \in 0..MaxHeap, NEW b \in 0..MaxHeap
  PROVE  IsFiniteSet(HeapPages(p, a, b)) /\ HeapPages(p, a, b) \subseteq Process \X Page
<1> DEFINE S == HeapPages(p, a, b)
<1>1. MaxHeap \in Nat
  BY AddressAssumption
<1>2. IsFiniteSet(PagesOf(p, "heap", b))
  BY <1>1, PagesFinite, SMT
<1>3. S \subseteq PagesOf(p, "heap", b)
  BY <1>1, SMT DEF Pages, PagesOf, HeapPages
<1>4. IsFiniteSet(S)
  BY <1>2, <1>3, FS_Subset
<1> QED
  BY <1>1, <1>4, SMT DEF Page, Pages, HeapPages

LEMMA SharedFinite ==
  ASSUME NEW p \in Process
  PROVE  IsFiniteSet(Shared(p)) /\ Shared(p) \subseteq Process \X Page
<1>1. RegionPages \in Nat
  BY AddressAssumption, SizeAssumption, SMT
<1>2. Shared(p) = PagesOf(p, "shared", RegionPages)
  BY DEF Shared, PagesOf
<1>3. Shared(p) \subseteq Process \X Page
  BY SMT DEF Shared, Page
<1> QED
  BY <1>1, <1>2, <1>3, PagesFinite

(* What is counted is a number. *)
LEMMA CountType ==
  ASSUME NEW S, IsFiniteSet(S)
  PROVE  Cardinality({u \in S : FrameOf(u) # 0}) \in Nat
<1> {u \in S : FrameOf(u) # 0} \subseteq S
  OBVIOUS
<1> QED
  BY FS_Subset, FS_CardinalityType

LEMMA TableOfPage ==
  ASSUME NEW page \in Page
  PROVE  TableOf(page) \in Table
BY DEF Table
-----------------------------------------------------------------------------
(***************************************************************************)
(* The items of a call.                                                    *)
(***************************************************************************)
ArePages(area, from, to) == \A i \in from..to : <<area, i>> \in Page

IsMapList(w, p, area, from, to) ==
    /\ w \in Seq(ItemType) /\ Len(w) = to - from + 1
    /\ \A i \in 1..(to - from + 1) : w[i] = Item("map", p, <<area, from + i - 1>>, 0)

IsGrowList(w, p, area, from, to, last) ==
    /\ w \in Seq(ItemType) /\ Len(w) = to - from + 2 /\ w[to - from + 2] = last
    /\ \A i \in 1..(to - from + 1) : w[i] = Item("map", p, <<area, from + i - 1>>, 0)

(* Items one after the other. *)
LEMMA ConcatItems ==
  ASSUME NEW S, NEW a \in Seq(S), NEW b \in Seq(S)
  PROVE  /\ a \o b \in Seq(S) /\ Len(a \o b) = Len(a) + Len(b)
         /\ \A i \in 1..(Len(a) + Len(b)) :
              (a \o b)[i] = IF i <= Len(a) THEN a[i] ELSE b[i - Len(a)]
BY SMT

LEMMA MapPagesItems ==
  ASSUME NEW p \in Process, NEW area, NEW from \in Nat \ {0}, NEW to \in Nat, from <= to + 1,
         ArePages(area, from, to)
  PROVE  IsMapList(MapPages(p, area, from, to), p, area, from, to)
<1> DEFINE m == MapPages(p, area, from, to)
           n == to - from + 1
<1>1. n \in Nat
  BY SMT
<1>2. 0 \in Frame
  BY SizeAssumption, SMT DEF Frame
<1>3. \A i \in 1..n : from + i - 1 \in from..to
  BY SMT
<1>4. \A i \in 1..n : Item("map", p, <<area, from + i - 1>>, 0) \in ItemType
  BY <1>2, <1>3 DEF Item, ItemType, ArePages
<1>5. m \in [1..n -> ItemType]
  BY <1>4 DEF MapPages
<1>6. \A i \in 1..n : m[i] = Item("map", p, <<area, from + i - 1>>, 0)
  BY DEF MapPages
<1> HIDE DEF m, n
<1>7. m \in Seq(ItemType) /\ Len(m) = n
  BY <1>1, <1>5, SMT
<1> QED
  BY <1>6, <1>7 DEF m, n, IsMapList

LEMMA OneItem ==
  ASSUME NEW p \in Process, NEW area, NEW k \in Nat \ {0}, <<area, k>> \in Page
  PROVE  /\ MapPages(p, area, k, k) \in Seq(ItemType) /\ Len(MapPages(p, area, k, k)) = 1
         /\ MapPages(p, area, k, k)[1] = Item("map", p, <<area, k>>, 0)
<1>1. k \in Nat /\ k <= k + 1 /\ ArePages(area, k, k)
  BY SMT DEF ArePages
<1>2. IsMapList(MapPages(p, area, k, k), p, area, k, k)
  BY <1>1, MapPagesItems
<1> QED
  BY <1>2, SMT DEF IsMapList

(* The items of UpdateHeap and SYSCALL_START_THREAD. *)
LEMMA GrowItems ==
  ASSUME NEW p \in Process, NEW area, NEW from \in Nat \ {0}, NEW to \in Nat, from <= to,
         ArePages(area, from, to), NEW e \in Seq(ItemType), Len(e) = 1
  PROVE  IsGrowList(MapPages(p, area, from, to) \o e, p, area, from, to, e[1])
<1> DEFINE m == MapPages(p, area, from, to)
           n == to - from + 1
<1>1. IsMapList(m, p, area, from, to)
  <2>1. from <= to + 1
    BY SMT
  <2> QED
    BY <2>1, MapPagesItems
<1>2. n \in Nat \ {0} /\ n + 1 = to - from + 2 /\ n = to - from + 1
  BY SMT
<1> HIDE DEF m, n
<1>3. m \in Seq(ItemType) /\ Len(m) = n
  BY <1>1, <1>2 DEF IsMapList
<1>4. \A i \in 1..n : m[i] = Item("map", p, <<area, from + i - 1>>, 0)
  BY <1>1, <1>2 DEF IsMapList
<1>5. /\ m \o e \in Seq(ItemType) /\ Len(m \o e) = Len(m) + Len(e)
      /\ \A i \in 1..(Len(m) + Len(e)) :
            (m \o e)[i] = IF i <= Len(m) THEN m[i] ELSE e[i - Len(m)]
  BY <1>3, ConcatItems
<1>6. Len(m \o e) = n + 1 /\ (m \o e)[n + 1] = e[1] /\ \A i \in 1..n : (m \o e)[i] = m[i]
  <2>1. Len(m) = n /\ Len(m) + Len(e) = n + 1
    BY <1>3
  <2>2. /\ \A i \in 1..n : i \in 1..(n + 1) /\ i <= n
        /\ n + 1 \in 1..(n + 1) /\ ~(n + 1 <= n) /\ (n + 1) - n = 1
    BY <1>2, SMT
  <2> QED
    BY <1>5, <2>1, <2>2
<1>7. \A i \in 1..n : (m \o e)[i] = Item("map", p, <<area, from + i - 1>>, 0)
  BY <1>4, <1>6
<1> QED
  BY <1>2, <1>5, <1>6, <1>7 DEF m, IsGrowList

(* The items of ProcessHelper::Create. *)
LEMMA CreateItems ==
  ASSUME NEW p \in Process
  PROVE  LET w == MapPages(p, "code", 1, 1) \o MapPages(p, "stack", 1, 1)
                    \o MapPages(p, "heap", 1, HeapStart) IN
         /\ w \in Seq(ItemType) /\ Len(w) = HeapStart + 2
         /\ w[1] = Item("map", p, <<"code", 1>>, 0) /\ w[2] = Item("map", p, <<"stack", 1>>, 0)
         /\ \A i \in 3..(HeapStart + 2) : w[i] = Item("map", p, <<"heap", i - 2>>, 0)
<1> DEFINE a == MapPages(p, "code", 1, 1)
           b == MapPages(p, "stack", 1, 1)
           c == MapPages(p, "heap", 1, HeapStart)
<1>1. HeapStart \in Nat \ {0}
  BY AddressAssumption, SMT
<1>2. /\ <<"code", 1>> \in Page /\ <<"stack", 1>> \in Page
      /\ ArePages("heap", 1, HeapStart)
  BY AddressAssumption, SMT DEF Page, Pages, ArePages
<1>3. a \in Seq(ItemType) /\ Len(a) = 1 /\ a[1] = Item("map", p, <<"code", 1>>, 0)
  BY <1>2, OneItem, SMT
<1>4. b \in Seq(ItemType) /\ Len(b) = 1 /\ b[1] = Item("map", p, <<"stack", 1>>, 0)
  BY <1>2, OneItem, SMT
<1>5. IsMapList(c, p, "heap", 1, HeapStart)
  <2>1. 1 \in Nat \ {0} /\ HeapStart \in Nat /\ 1 <= HeapStart + 1
    BY <1>1, SMT
  <2> QED
    BY <1>2, <2>1, MapPagesItems
<1> HIDE DEF a, b, c
<1>8. /\ c \in Seq(ItemType) /\ Len(c) = HeapStart
      /\ \A i \in 1..HeapStart : c[i] = Item("map", p, <<"heap", i>>, 0)
  <2>1. HeapStart - 1 + 1 = HeapStart /\ \A i \in 1..HeapStart : 1 + i - 1 = i
    BY <1>1, SMT
  <2> QED
    BY <1>5, <2>1 DEF IsMapList
<1>9. /\ a \o b \in Seq(ItemType) /\ Len(a \o b) = 2
      /\ (a \o b)[1] = a[1] /\ (a \o b)[2] = b[1]
  <2>1. /\ a \o b \in Seq(ItemType) /\ Len(a \o b) = Len(a) + Len(b)
        /\ \A i \in 1..(Len(a) + Len(b)) :
              (a \o b)[i] = IF i <= Len(a) THEN a[i] ELSE b[i - Len(a)]
    BY <1>3, <1>4, ConcatItems
  <2> QED
    BY <1>3, <1>4, <2>1, SMT
<1>10. /\ (a \o b) \o c \in Seq(ItemType) /\ Len((a \o b) \o c) = HeapStart + 2
       /\ \A i \in 1..(HeapStart + 2) :
             ((a \o b) \o c)[i] = IF i <= 2 THEN (a \o b)[i] ELSE c[i - 2]
  <2>1. /\ (a \o b) \o c \in Seq(ItemType) /\ Len((a \o b) \o c) = Len(a \o b) + Len(c)
        /\ \A i \in 1..(Len(a \o b) + Len(c)) :
              ((a \o b) \o c)[i] = IF i <= Len(a \o b) THEN (a \o b)[i] ELSE c[i - Len(a \o b)]
    BY <1>8, <1>9, ConcatItems, SMT
  <2> QED
    <3>1. 2 + HeapStart = HeapStart + 2
      BY <1>1, SMT
    <3> QED
      BY <1>8, <1>9, <2>1, <3>1
<1>11. /\ ((a \o b) \o c)[1] = a[1] /\ ((a \o b) \o c)[2] = b[1]
       /\ \A i \in 3..(HeapStart + 2) : ((a \o b) \o c)[i] = Item("map", p, <<"heap", i - 2>>, 0)
  BY <1>1, <1>8, <1>9, <1>10, SMT
<1> QED
  BY <1>3, <1>4, <1>10, <1>11 DEF a, b, c

LEMMA TypesInitially ==
  ASSUME NEW t, Thread = {t}, Init
  PROVE  TInv(t)
<1> USE SizeAssumption, AddressAssumption
<1>1. MemoryTypeOK
  <2>1. memoryArray \subseteq 0..(Top - 1)
    BY DEF Init, MemoryInit
  <2>2. call \in [Thread -> [at : {"none", "search", "claim", "done"}, size : 0..MaxSize,
                            frame : Frame]]
    BY SMT DEF Init, MemoryInit, NoCall, Frame
  <2> QED
    BY <2>1, <2>2, SMT DEF Init, MemoryInit, MemoryTypeOK
<1>2. TypeOK
  <2>1. table \in [Process -> [Table -> Frame]]
    BY SMT DEF Init, Frame
  <2>2. entry \in [Process -> [Page -> [frame : Frame, present : BOOLEAN]]]
    BY SMT DEF Init, Frame, NoEntry
  <2>3. heapEnd \in [Process -> 0..MaxHeap] /\ threads \in [Process -> 0..MaxThreads]
    BY SMT DEF Init
  <2>4. live \subseteq Process /\ removed \in 0..MaxRemoved /\ leaked \subseteq Frame
    BY SMT DEF Init
  <2>5. failed \in BOOLEAN
    BY DEF Init
  <2> QED
    BY <1>1, <2>1, <2>2, <2>3, <2>4, <2>5 DEF TypeOK
<1>3. WorkTyped(work[t])
  BY SMT DEF Init, WorkTyped
<1>4. CallTyped(t)
  BY SMT DEF Init, MemoryInit, CallTyped, NoCall
<1> QED
  BY <1>2, <1>3, <1>4 DEF Init, MemoryInit, TInv

LEMMA BootTyped ==
  ASSUME NEW t, Thread = {t}, TInv(t), Boot, UNCHANGED <<spaceVars, work, failed, removed, leaked>>
  PROVE  TInv(t)'
<1>1. /\ memoryArray' \subseteq 0..(Top - 1) /\ usedBlocks' \in 0..(UINT32 - 1)
      /\ todo' \in [free : SUBSET MemoryMap, used : SUBSET Protected] /\ call' = call
  <2>0. /\ memoryArray \subseteq 0..(Top - 1) /\ usedBlocks \in Int
        /\ todo \in [free : SUBSET MemoryMap, used : SUBSET Protected]
    BY SizeAssumption, SMT DEF TInv, TypeOK, MemoryTypeOK
  <2>1. CASE \E r \in MemoryMap : SetRegionFree(r)
    <3>1. PICK r \in MemoryMap : SetRegionFree(r)
      BY <2>1
    <3>2. usedBlocks - r.blocks \in Int
      BY <2>0, MemoryAssumption, SizeAssumption, SMT
    <3>3. usedBlocks' \in 0..(UINT32 - 1)
      BY <3>1, <3>2, SizeAssumption, SMT DEF SetRegionFree
    <3>4. memoryArray' \subseteq 0..(Top - 1)
      BY <2>0, <3>1, SizeAssumption, SMT DEF SetRegionFree
    <3> QED
      BY <2>0, <3>1, <3>3, <3>4 DEF SetRegionFree
  <2>2. CASE \E r \in Protected : SetRegionUsed(r)
    <3>1. PICK r \in Protected : SetRegionUsed(r)
      BY <2>2
    <3>2. usedBlocks + r.blocks \in Int /\ Region(r) \subseteq 0..(Top - 1)
      BY <2>0, MemoryAssumption, SizeAssumption, SMT
    <3>3. usedBlocks' \in 0..(UINT32 - 1)
      BY <3>1, <3>2, SizeAssumption, SMT DEF SetRegionUsed
    <3>4. memoryArray' \subseteq 0..(Top - 1)
      BY <2>0, <3>1, <3>2, SizeAssumption, SMT DEF SetRegionUsed
    <3> QED
      BY <2>0, <3>1, <3>3, <3>4 DEF SetRegionUsed
  <2> QED
    BY <2>1, <2>2 DEF Boot
<1>2. TypeOK'
  BY <1>1 DEF TInv, TypeOK, MemoryTypeOK, spaceVars
<1>3. WorkTyped(work[t])' /\ CallTyped(t)'
  BY <1>1 DEF TInv, WorkTyped, CallTyped, spaceVars, NoTable, Item1
<1> QED
  BY <1>1, <1>2, <1>3 DEF TInv

(* A search that succeeds finds a range of frames that ends inside Frame. *)
LEMMA RangeInside ==
  ASSUME NEW clear \in SUBSET Frame, NEW f \in Frame, NEW n \in 0..MaxSize,
         Enough(clear, f, n)
  PROVE  f + n <= Top + MaxSize + 1
<1>1. CASE n = 1
  BY <1>1, SizeAssumption, SMT DEF Frame
<1>2. CASE n # 1
  <2> DEFINE W == clear \cap (f..(f + n))
             V == f..(Top + MaxSize)
  <2>1. W \subseteq V
    BY SizeAssumption, SMT DEF Frame
  <2>2. IsFiniteSet(V) /\ Cardinality(V) = Top + MaxSize - f + 1
    BY SizeAssumption, FS_Interval, SMT DEF Frame
  <2>3. Cardinality(W) >= n
    BY <1>2 DEF Enough
  <2>4. IsFiniteSet(W) /\ Cardinality(W) <= Cardinality(V) /\ Cardinality(W) \in Nat
    <3> HIDE DEF W, V
    <3> QED
      BY <2>1, <2>2, FS_Subset, FS_CardinalityType
  <2> HIDE DEF W, V
  <2> QED
    BY <2>2, <2>3, <2>4, SizeAssumption, SMT DEF Frame
<1> QED
  BY <1>1, <1>2

LEMMA SearchResult ==
  ASSUME NEW t, Thread = {t}, TInv(t), Search(t)
  PROVE  FirstClear(t)
<1>1. PICK F \in SUBSET Foreign :
          LET clear == (0..(Top - 1) \ memoryArray) \cup F
              fits  == {f \in Frame : Enough(clear, f, call[t].size)}
          IN  call' = [call EXCEPT ![t] =
                         IF fits = {} THEN [@ EXCEPT !.at = "done"]
                         ELSE [@ EXCEPT !.at = "claim",
                                 !.frame = CHOOSE f \in fits : \A g \in fits : f <= g]]
  BY DEF Search
<1> DEFINE clear == (0..(Top - 1) \ memoryArray) \cup F
           fits  == {f \in Frame : Enough(clear, f, call[t].size)}
           f0 == CHOOSE f \in fits : \A g \in fits : f <= g
<1>2. CASE fits = {}
  BY <1>1, <1>2 DEF FirstClear
<1>3. CASE fits # {}
  <2>1. fits \in SUBSET Nat
    BY SizeAssumption, SMT DEF Frame
  <2>2. \E f \in fits : \A g \in fits : f <= g
    <3> HIDE DEF fits
    <3>1. PICK f \in fits : \A g \in fits : ~(<<g, f>> \in OpToRel(<, Nat))
      BY <1>3, <2>1, NatLessThanWellFounded, WFMin
    <3>2. \A g \in fits : ~(g < f)
      BY <2>1, <3>1 DEF OpToRel
    <3> QED
      BY <2>1, <3>2, SMT
  <2>3. f0 \in fits /\ \A g \in fits : f0 <= g
    <3> HIDE DEF fits
    <3> QED
      BY <2>2
  <2>4. call' = [call EXCEPT ![t] = [@ EXCEPT !.at = "claim", !.frame = f0]]
    BY <1>1, <1>3
  <2>5. f0 \in Frame /\ Enough(clear, f0, call[t].size)
        /\ \A g \in Frame : Enough(clear, g, call[t].size) => f0 <= g
    <3> HIDE DEF f0, clear
    <3> QED
      BY <2>3
  <2> HIDE DEF f0
  <2> QED
    BY <2>4, <2>5 DEF FirstClear
<1> QED
  BY <1>2, <1>3

LEMMA AllocationTyped ==
  ASSUME NEW t, Thread = {t}, TInv(t), Allocate(t) \/ Allocating(t)
  PROVE  TInv(t)'
<1> DEFINE CallType == [at : {"none", "search", "claim", "done"}, size : 0..MaxSize,
                        frame : Frame]
<1>0. UNCHANGED <<spaceVars, work, failed, removed, leaked>>
  BY DEF Allocate, Allocating
<1>1. call \in [{t} -> CallType]
  BY DEF TInv, TypeOK, MemoryTypeOK
<1>2. CASE Allocate(t)
  <2>1. PICK at \in {"search", "done"} :
          call' = [call EXCEPT ![t] =
                     [at |-> at, size |-> IF Item1(t).op = "region" THEN RegionPages ELSE 1,
                      frame |-> 0]]
    BY <1>2 DEF Allocate, Start
  <2>2. call' \in [{t} -> CallType]
    BY <1>1, <2>1, SizeAssumption, AddressAssumption, SMT DEF Frame
  <2>3. UNCHANGED frameVars
    BY <1>2 DEF Allocate, Start
  <2>4. TypeOK'
    BY <1>0, <2>2, <2>3 DEF TInv, TypeOK, MemoryTypeOK, spaceVars, frameVars
  <2>5. WorkTyped(work[t])'
    BY <1>0, ZenonT(30) DEF TInv, WorkTyped, spaceVars
  <2>6. CallTyped(t)'
    BY <1>0, <1>1, <1>2, <2>1, SizeAssumption, AddressAssumption, SMT
    DEF CallTyped, Allocate, Working, NoTable, Item1, spaceVars
  <2> QED
    BY <1>0, <2>3, <2>4, <2>5, <2>6 DEF TInv, frameVars
<1>3. CASE Search(t) /\ Allocating(t)
  <2>1. /\ call' \in [{t} -> CallType] /\ call[t].at # "none" /\ call'[t].size = call[t].size
        /\ call'[t].frame + call'[t].size <= Top + MaxSize + 1
    <3>1. call[t].at # "none"
      BY <1>3 DEF Search
    <3>2. CASE call' = [call EXCEPT ![t].at = "done"]
      BY <1>1, <3>1, <3>2 DEF TInv, CallTyped
    <3>3. CASE \E f \in Frame, F \in SUBSET Foreign :
              LET clear == (0..(Top - 1) \ memoryArray) \cup F IN
              /\ Enough(clear, f, call[t].size)
              /\ \A g \in Frame : Enough(clear, g, call[t].size) => f <= g
              /\ call' = [call EXCEPT ![t] = [@ EXCEPT !.at = "claim", !.frame = f]]
      <4>1. PICK f \in Frame, F \in SUBSET Foreign :
              /\ Enough((0..(Top - 1) \ memoryArray) \cup F, f, call[t].size)
              /\ call' = [call EXCEPT ![t] = [@ EXCEPT !.at = "claim", !.frame = f]]
        BY <3>3
      <4> DEFINE clear == (0..(Top - 1) \ memoryArray) \cup F
      <4>2. clear \in SUBSET Frame /\ Enough(clear, f, call[t].size)
        BY <4>1, SizeAssumption, SMT DEF Frame, Foreign
      <4>3. call[t].size \in 0..MaxSize
        BY <1>1
      <4> HIDE DEF clear
      <4>4. f + call[t].size <= Top + MaxSize + 1
        BY <4>2, <4>3, RangeInside
      <4> QED
        BY <1>1, <3>1, <4>1, <4>4
    <3> QED
      BY <1>3, <3>2, <3>3, SearchResult DEF FirstClear
  <2>2. UNCHANGED frameVars
    BY <1>3 DEF Search
  <2>3. TypeOK'
    BY <1>0, <2>1, <2>2 DEF TInv, TypeOK, MemoryTypeOK, spaceVars, frameVars
  <2>4. WorkTyped(work[t])'
    BY <1>0 DEF TInv, WorkTyped, spaceVars
  <2>5. CallTyped(t)'
    BY <1>0, <2>1 DEF TInv, CallTyped, NoTable, Item1, spaceVars
  <2> QED
    BY <1>0, <2>2, <2>3, <2>4, <2>5 DEF TInv, frameVars
<1>4. CASE Claim(t) /\ Allocating(t)
  <2>1. /\ call' \in [{t} -> CallType] /\ call[t].at # "none" /\ call'[t].size = call[t].size
        /\ call'[t].frame = call[t].frame
    BY <1>1, <1>4 DEF Claim
  <2>2. /\ memoryArray' \subseteq 0..(Top - 1) /\ usedBlocks' \in 0..(UINT32 - 1)
        /\ UNCHANGED todo
    BY <1>1, <1>4, SizeAssumption, SMT DEF Claim, TInv, TypeOK, MemoryTypeOK
  <2>3. TypeOK'
    BY <1>0, <2>1, <2>2 DEF TInv, TypeOK, MemoryTypeOK, spaceVars
  <2>4. WorkTyped(work[t])'
    BY <1>0 DEF TInv, WorkTyped, spaceVars
  <2>5. CallTyped(t)'
    BY <1>0, <2>1 DEF TInv, CallTyped, NoTable, Item1, spaceVars
  <2> QED
    BY <1>0, <2>2, <2>3, <2>4, <2>5 DEF TInv
<1> QED
  BY <1>2, <1>3, <1>4 DEF Allocating
(* What is left after an item is done. *)
LEMMA TailTyped ==
  ASSUME NEW w, WorkTyped(w), w # <<>>
  PROVE  /\ Len(w) \in Nat \ {0} /\ Head(w) = w[1] /\ ItemTyped(w[1])
         /\ Tail(w) \in Seq(ItemType) /\ Len(Tail(w)) = Len(w) - 1
         /\ \A i \in 1..(Len(w) - 1) : Tail(w)[i] = w[i + 1]
         /\ WorkTyped(Tail(w))
<1>1. w \in Seq(ItemType)
  BY DEF WorkTyped
<1>2. Len(w) \in Nat \ {0} /\ Head(w) = w[1]
  BY <1>1, SMT
<1>3. /\ Tail(w) \in Seq(ItemType) /\ Len(Tail(w)) = Len(w) - 1
      /\ \A i \in 1..(Len(w) - 1) : Tail(w)[i] = w[i + 1]
  BY <1>1, SMT
<1>4. \A i \in 1..(Len(w) - 1) : i + 1 \in 1..Len(w) /\ (i + 1 = Len(w) => i = Len(w) - 1)
  BY <1>2, SMT
<1>5. WorkTyped(Tail(w))
  BY <1>3, <1>4, ZenonT(30) DEF WorkTyped
<1>6. ItemTyped(w[1])
  <2>1. 1 \in 1..Len(w)
    BY <1>2, SMT
  <2> QED
    BY <2>1 DEF WorkTyped
<1> QED
  BY <1>2, <1>3, <1>5, <1>6

LEMMA NewTableTyped ==
  ASSUME NEW t, Thread = {t}, TInv(t), NewTable(t)
  PROVE  TInv(t)'
<1> DEFINE i == Item1(t)
<1>1. ItemTyped(i) /\ i.op \in {"map", "share"}
  BY TailTyped, SMT DEF TInv, NewTable, Returned, Working, Item1, NoTable
<1>2. i.proc \in Process /\ i.page \in Page
  BY <1>1 DEF ItemTyped, ItemType
<1>3. /\ call \in [{t} -> [at : {"none", "search", "claim", "done"}, size : 0..MaxSize,
                          frame : Frame]]
      /\ table \in [Process -> [Table -> Frame]] /\ call' = [call EXCEPT ![t] = NoCall]
  BY DEF TInv, TypeOK, MemoryTypeOK, NewTable, Returned
<1>4. TableOf(i.page) \in Table
  BY <1>2, TableOfPage
<1> HIDE DEF i
<1>5. table' \in [Process -> [Table -> Frame]]
  <2>1. table' = [table EXCEPT ![i.proc][TableOf(i.page)] = call[t].frame]
    BY DEF NewTable, i
  <2>2. call[t].frame \in Frame
    BY <1>3
  <2> QED
    BY <1>2, <1>3, <1>4, <2>1, <2>2
<1>6. call' \in [{t} -> [at : {"none", "search", "claim", "done"}, size : 0..MaxSize,
                          frame : Frame]]
  BY <1>3, SizeAssumption, SMT DEF NoCall, Frame
<1>7. failed' \in BOOLEAN /\ UNCHANGED <<frameVars, live, entry, heapEnd, threads, work, removed, leaked>>
  BY DEF NewTable
<1>8. TypeOK'
  BY <1>5, <1>6, <1>7 DEF TInv, TypeOK, MemoryTypeOK, frameVars
<1>9. WorkTyped(work[t])'
  BY <1>7 DEF TInv, WorkTyped
<1>10. CallTyped(t)'
  BY <1>3, SizeAssumption, SMT DEF CallTyped, NoCall
<1> QED
  BY <1>7, <1>8, <1>9, <1>10 DEF TInv, frameVars

LEMMA ItemStepTyped ==
  ASSUME NEW t, Thread = {t}, TInv(t), AllocatePage(t) \/ SharePage(t) \/ Finish(t)
  PROVE  TInv(t)'
<1> DEFINE i == Item1(t)
           w == work[t]
           CallType == [at : {"none", "search", "claim", "done"}, size : 0..MaxSize,
                        frame : Frame]
           EntryType == [frame : Frame, present : BOOLEAN]
<1>1. /\ Working(t) /\ ItemDone(t) /\ ~NoTable(i) /\ i.op \in {"map", "share", "heapEnd", "thread"}
      /\ UNCHANGED <<frameVars, live, table, removed, leaked>>
  BY DEF AllocatePage, SharePage, Finish, Returned, NoTable
<1>2. /\ WorkTyped(w) /\ w # <<>> /\ DOMAIN work = {t} /\ work'[t] = Tail(w) /\ DOMAIN work' = {t}
  BY <1>1 DEF TInv, Working, ItemDone
<1>3. /\ Len(w) \in Nat \ {0} /\ i = w[1] /\ ItemTyped(w[1]) /\ Len(Tail(w)) = Len(w) - 1
      /\ \A k \in 1..(Len(w) - 1) : Tail(w)[k] = w[k + 1]
      /\ WorkTyped(Tail(w))
  BY <1>2, TailTyped DEF Item1
<1>4. i.proc \in Process /\ i.page \in Page /\ i.frame \in Frame
  BY <1>1, <1>3 DEF ItemTyped, ItemType
<1>5. call \in [{t} -> CallType] /\ entry \in [Process -> [Page -> EntryType]] /\ failed \in BOOLEAN
      /\ heapEnd \in [Process -> 0..MaxHeap] /\ threads \in [Process -> 0..MaxThreads]
  BY DEF TInv, TypeOK, MemoryTypeOK
<1>6. call' \in [{t} -> CallType] /\ call'[t].at = "none"
      /\ call'[t].frame + call'[t].size <= Top + MaxSize + 1
  <2>1. CASE AllocatePage(t)
    BY <2>1, <1>5, SizeAssumption, SMT DEF AllocatePage, Returned, NoCall, Frame
  <2>2. CASE SharePage(t) \/ Finish(t)
    <3>1. call' = call /\ (i.op \in {"share", "heapEnd", "thread"})
      BY <2>2 DEF SharePage, Finish
    <3>2. call[t].at = "none"
      BY <1>1, <3>1 DEF TInv, CallTyped
    <3> QED
      BY <1>5, <3>1, <3>2 DEF TInv, CallTyped
  <2> QED
    BY <2>1, <2>2
<1>7. entry' \in [Process -> [Page -> EntryType]]
  <2> HIDE DEF i
  <2>1. CASE AllocatePage(t)
    <3> DEFINE e == [frame |-> call[t].frame, present |-> TRUE]
    <3>1. entry' = entry \/ entry' = [entry EXCEPT ![i.proc][i.page] = e]
      BY <2>1 DEF AllocatePage, i
    <3>2. e \in EntryType
      BY <1>5
    <3>3. entry \in [Process -> [Page -> EntryType]]
      BY <1>5
    <3> HIDE DEF EntryType, e
    <3>4. CASE entry' = entry
      BY <3>3, <3>4
    <3>5. CASE entry' = [entry EXCEPT ![i.proc][i.page] = e]
      BY <1>4, <3>2, <3>3, <3>5
    <3> QED
      BY <3>1, <3>4, <3>5
  <2>2. CASE SharePage(t)
    <3>1. entry' = [entry EXCEPT ![i.proc][i.page] = [frame |-> i.frame, present |-> TRUE]]
      BY <2>2 DEF SharePage, i
    <3>2. [frame |-> i.frame, present |-> TRUE] \in EntryType
      BY <1>4
    <3> HIDE DEF EntryType
    <3> QED
      BY <1>4, <1>5, <3>1, <3>2
  <2>3. CASE Finish(t)
    BY <2>3, <1>5 DEF Finish
  <2> QED
    BY <2>1, <2>2, <2>3
<1>8. failed' \in BOOLEAN
  BY <1>5 DEF AllocatePage, SharePage, Finish
<1>9. heapEnd' \in [Process -> 0..MaxHeap]
  <2>1. CASE Finish(t) /\ i.op = "heapEnd"
    <3>1. i.page \in Pages("heap", MaxHeap)
      BY <1>3, <2>1 DEF ItemTyped
    <3>2. i.page[2] \in 0..MaxHeap
      BY <3>1, AddressAssumption, SMT DEF Pages
    <3>3. heapEnd' = [heapEnd EXCEPT ![i.proc] = i.page[2]]
      BY <2>1 DEF Finish
    <3> QED
      BY <1>5, <3>2, <3>3
  <2>2. CASE ~(Finish(t) /\ i.op = "heapEnd")
    BY <1>5, <2>2 DEF AllocatePage, SharePage, Finish
  <2> QED
    BY <2>1, <2>2
<1>10. /\ threads' \in [Process -> 0..MaxThreads]
       /\ WorkTyped(work[t])'
  <2>1. CASE Finish(t) /\ i.op = "thread"
    <3>1. Len(w) = 1 /\ threads[i.proc] < MaxThreads
      <4>1. 1 \in 1..Len(w) /\ w[1].op = "thread"
        BY <1>3, <2>1, SMT
      <4> QED
        BY <1>2, <1>3, <4>1 DEF WorkTyped
    <3>2. threads' = [threads EXCEPT ![i.proc] = @ + 1]
      BY <2>1 DEF Finish
    <3>3. threads' \in [Process -> 0..MaxThreads]
      BY <1>4, <1>5, <3>1, <3>2, AddressAssumption, SMTT(30)
    <3>4. WorkTyped(work[t])'
      BY <1>2, <1>3, <3>1, SMT DEF WorkTyped
    <3> QED
      BY <3>3, <3>4
  <2>2. CASE ~(Finish(t) /\ i.op = "thread")
    <3>1. threads' = threads
      BY <1>1, <2>2 DEF AllocatePage, SharePage, Finish
    <3> QED
      BY <1>2, <1>3, <1>5, <3>1 DEF WorkTyped
  <2> QED
    BY <2>1, <2>2
<1>11. TypeOK'
  BY <1>1, <1>6, <1>7, <1>8, <1>9, <1>10 DEF TInv, TypeOK, MemoryTypeOK, frameVars
<1>12. CallTyped(t)'
  BY <1>6 DEF CallTyped
<1> QED
  BY <1>1, <1>2, <1>10, <1>11, <1>12 DEF TInv, frameVars
(* The work list of a region is the list of its pages, on both sides. *)
LEMMA RegionItems ==
  ASSUME NEW p \in Process, NEW q \in Process, NEW f \in Frame, f + RegionPages <= Top + MaxSize + 1
  PROVE  LET MapFor(r) == [n \in 1..RegionPages |-> Item("share", r, <<"shared", n>>, f + n - 1)]
             w == MapFor(p) \o MapFor(q)
         IN  /\ w \in Seq(ItemType) /\ Len(w) = 2 * RegionPages
             /\ \A n \in 1..RegionPages :
                  /\ w[n] = Item("share", p, <<"shared", n>>, f + n - 1)
                  /\ w[RegionPages + n] = Item("share", q, <<"shared", n>>, f + n - 1)
<1> DEFINE R == RegionPages
           MapFor(r) == [n \in 1..R |-> Item("share", r, <<"shared", n>>, f + n - 1)]
           a == MapFor(p)
           b == MapFor(q)
<1>1. R \in Nat \ {0} /\ f \in Nat /\ f + R <= Top + MaxSize + 1
  BY AddressAssumption, SizeAssumption, SMT DEF Frame
<1>2. \A n \in 1..R : <<"shared", n>> \in Page /\ f + n - 1 \in Frame
  BY <1>1, SizeAssumption, SMT DEF Page, Pages, Frame
<1>3. \A r \in Process : \A n \in 1..R : Item("share", r, <<"shared", n>>, f + n - 1) \in ItemType
  BY <1>2 DEF Item, ItemType
<1>4. a \in [1..R -> ItemType] /\ b \in [1..R -> ItemType]
  BY <1>3
<1>5. \A n \in 1..R : /\ a[n] = Item("share", p, <<"shared", n>>, f + n - 1)
                      /\ b[n] = Item("share", q, <<"shared", n>>, f + n - 1)
  OBVIOUS
<1> HIDE DEF a, b, R
<1>6. a \in Seq(ItemType) /\ Len(a) = R /\ b \in Seq(ItemType) /\ Len(b) = R
  BY <1>1, <1>4, SMT
<1>7. /\ a \o b \in Seq(ItemType) /\ Len(a \o b) = Len(a) + Len(b)
      /\ \A n \in 1..(Len(a) + Len(b)) :
            (a \o b)[n] = IF n <= Len(a) THEN a[n] ELSE b[n - Len(a)]
  BY <1>6, ConcatItems
<1>8. Len(a \o b) = 2 * R /\ \A n \in 1..R : (a \o b)[n] = a[n] /\ (a \o b)[R + n] = b[n]
  BY <1>1, <1>6, <1>7, SMT
<1> QED
  BY <1>5, <1>7, <1>8 DEF a, b, R

LEMMA RegionReadyTyped ==
  ASSUME NEW t, Thread = {t}, TInv(t), RegionReady(t)
  PROVE  /\ TInv(t)'
         /\ RegionList(work'[t], Item1(t).proc[1], Item1(t).proc[2], call[t].frame)
<1> DEFINE i == Item1(t)
           f == call[t].frame
           p == i.proc[1]
           q == i.proc[2]
           MapFor(r) == [n \in 1..RegionPages |-> Item("share", r, <<"shared", n>>, f + n - 1)]
           w == MapFor(p) \o MapFor(q)
<1>1. /\ call \in [{t} -> [at : {"none", "search", "claim", "done"}, size : 0..MaxSize,
                          frame : Frame]]
      /\ call[t].at = "done" /\ call' = [call EXCEPT ![t] = NoCall] /\ i.op = "region"
      /\ DOMAIN work = {t}
  BY DEF TInv, TypeOK, MemoryTypeOK, RegionReady, Returned
<1>2. ItemTyped(i)
  BY TailTyped DEF TInv, RegionReady, Returned, Working, Item1
<1>3. p \in Process /\ q \in Process
  BY <1>1, <1>2 DEF ItemTyped
<1>4. f \in Frame /\ f + RegionPages <= Top + MaxSize + 1
  BY <1>1 DEF TInv, CallTyped
<1>5. work' = [work EXCEPT ![t] = w]
  BY DEF RegionReady
<1>6. /\ w \in Seq(ItemType) /\ Len(w) = 2 * RegionPages
      /\ \A n \in 1..RegionPages :
           /\ w[n] = Item("share", p, <<"shared", n>>, f + n - 1)
           /\ w[RegionPages + n] = Item("share", q, <<"shared", n>>, f + n - 1)
  <2> HIDE DEF p, q, f
  <2> QED
    BY <1>3, <1>4, RegionItems
<1>7. RegionPages \in Nat
  BY AddressAssumption, SizeAssumption, SMT
<1>8. failed' \in BOOLEAN /\ UNCHANGED <<frameVars, spaceVars, removed, leaked>>
  BY DEF RegionReady
<1> HIDE DEF w, p, q, f, i
<1>9. \A n \in 1..Len(w) : w[n].op = "share" /\ w[n].proc \in Process
  <2> TAKE n \in 1..Len(w)
  <2>1. CASE n <= RegionPages
    <3>1. n \in 1..RegionPages
      BY <1>6, <1>7, <2>1, SMT
    <3>2. w[n] = Item("share", p, <<"shared", n>>, f + n - 1)
      BY <1>6, <3>1
    <3> QED
      BY <1>3, <3>2, SMT DEF Item
  <2>2. CASE n > RegionPages
    <3>1. n - RegionPages \in 1..RegionPages /\ n = RegionPages + (n - RegionPages)
      BY <1>6, <1>7, <2>2, SMT
    <3>2. PICK m \in 1..RegionPages : n = RegionPages + m
      BY <3>1
    <3>3. w[n] = Item("share", q, <<"shared", m>>, f + m - 1)
      BY <1>6, <3>2
    <3> QED
      BY <1>3, <3>3, SMT DEF Item
  <2> QED
    BY <1>6, <1>7, <2>1, <2>2, SMT
<1>10. \A n \in 1..Len(w) : w[n] \in ItemType
  BY <1>6, SMT
<1>11. work'[t] = w /\ DOMAIN work' = {t}
  BY <1>1, <1>5
<1>12. WorkTyped(work[t])'
  BY <1>6, <1>9, <1>10, <1>11 DEF WorkTyped, ItemTyped
<1>13. call' \in [{t} -> [at : {"none", "search", "claim", "done"}, size : 0..MaxSize,
                          frame : Frame]]
  BY <1>1, SizeAssumption, SMT DEF NoCall, Frame
<1>14. CallTyped(t)'
  BY <1>1, SizeAssumption, SMT DEF CallTyped, NoCall
<1>15. TypeOK'
  BY <1>8, <1>13 DEF TInv, TypeOK, MemoryTypeOK, frameVars, spaceVars
<1>16. TInv(t)'
  BY <1>8, <1>11, <1>12, <1>14, <1>15 DEF TInv, frameVars
<1> QED
  BY <1>6, <1>11, <1>16 DEF i, p, q, f, RegionList

(* A call that begins to allocate: its items are all that matters. *)
LEMMA CallBegins ==
  ASSUME NEW t, Thread = {t}, TInv(t), Idle(t), NEW w, Call(t, w),
         UNCHANGED <<frameVars, call, table, entry, failed, removed, leaked>>,
         live' \subseteq Process, heapEnd' \in [Process -> 0..MaxHeap],
         threads' \in [Process -> 0..MaxThreads],
         w \in Seq(ItemType), \A i \in 1..Len(w) : ItemTyped(w[i]),
         \A i \in 1..Len(w) :
            w[i].op = "thread" => i = Len(w) /\ threads'[w[i].proc] < MaxThreads
  PROVE  TInv(t)' /\ work'[t] = w
<1>1. work'[t] = w /\ DOMAIN work' = Thread
  BY DEF Call, TInv
<1>2. WorkTyped(work[t])'
  <2>1. \A i \in 1..Len(w) : ItemTyped(w[i])'
    BY DEF ItemTyped
  <2> QED
    BY <1>1, <2>1 DEF WorkTyped
<1>3. CallTyped(t)'
  <2>1. call'[t].at = "none" /\ call' = call
    BY DEF Idle, TInv, CallTyped
  <2> QED
    BY <2>1 DEF TInv, CallTyped
<1>4. TypeOK'
  BY DEF TInv, TypeOK, MemoryTypeOK, frameVars
<1> QED
  BY <1>1, <1>2, <1>3, <1>4 DEF TInv, frameVars

LEMMA MapItemTyped ==
  ASSUME NEW p \in Process, NEW page \in Page
  PROVE  LET i == Item("map", p, page, 0) IN ItemTyped(i) /\ i.op # "thread"
<1> 0 \in Frame
  BY SizeAssumption, SMT DEF Frame
<1> QED
  BY DEF Item, ItemTyped, ItemType

LEMMA CreateTyped ==
  ASSUME NEW t, Thread = {t}, TInv(t), NEW p \in Process, Create(t, p)
  PROVE  TInv(t)' /\ CreateList(work'[t], p)
<1> DEFINE w == MapPages(p, "code", 1, 1) \o MapPages(p, "stack", 1, 1)
                    \o MapPages(p, "heap", 1, HeapStart)
<1>1. Call(t, w) /\ Idle(t)
  BY DEF Create
<1>2. /\ w \in Seq(ItemType) /\ Len(w) = HeapStart + 2
      /\ w[1] = Item("map", p, <<"code", 1>>, 0) /\ w[2] = Item("map", p, <<"stack", 1>>, 0)
      /\ \A i \in 3..(HeapStart + 2) : w[i] = Item("map", p, <<"heap", i - 2>>, 0)
  BY CreateItems
<1> HIDE DEF w
<1>3. HeapStart \in Nat \ {0}
  BY AddressAssumption, SMT
<1>4. \A i \in 1..Len(w) : \E page \in Page : w[i] = Item("map", p, page, 0)
  <2> TAKE i \in 1..Len(w)
  <2>1. CASE i = 1
    BY <1>2, <2>1, AddressAssumption, SMT DEF Page, Pages
  <2>2. CASE i = 2
    BY <1>2, <2>2, AddressAssumption, SMT DEF Page, Pages
  <2>3. CASE i \in 3..(HeapStart + 2)
    <3>1. i - 2 \in 1..MaxHeap
      BY <2>3, AddressAssumption, SMT
    <3> QED
      BY <1>2, <2>3, <3>1 DEF Page, Pages
  <2> QED
    BY <1>2, <1>3, <2>1, <2>2, <2>3, SMT
<1>5. \A i \in 1..Len(w) : ItemTyped(w[i]) /\ w[i].op # "thread"
  BY <1>4, MapItemTyped
<1>6. /\ live' \subseteq Process /\ heapEnd' \in [Process -> 0..MaxHeap]
      /\ threads' \in [Process -> 0..MaxThreads]
      /\ UNCHANGED <<frameVars, call, table, entry, failed, removed, leaked>>
  BY AddressAssumption, SMT DEF Create, TInv, TypeOK
<1>7. TInv(t)' /\ work'[t] = w
  BY <1>1, <1>2, <1>5, <1>6, CallBegins
<1> QED
  BY <1>2, <1>7 DEF CreateList

LEMMA StartThreadTyped ==
  ASSUME NEW t, Thread = {t}, TInv(t), NEW p \in Process, StartThread(t, p)
  PROVE  TInv(t)' /\ ThreadList(work'[t], p, threads[p] + 1)
<1> DEFINE k == threads[p] + 1
           last == Item("thread", p, <<"stack", k>>, 0)
           e == <<last>>
           w == MapPages(p, "stack", k, k) \o e
<1>1. Call(t, w) /\ Idle(t) /\ threads[p] < MaxThreads
      /\ UNCHANGED <<frameVars, call, spaceVars, failed, removed, leaked>>
  BY DEF StartThread
<1>2. k \in Nat \ {0} /\ k \in Nat /\ <<"stack", k>> \in Page
  <2>1. k \in 1..MaxThreads
    BY <1>1, AddressAssumption, SMT DEF TInv, TypeOK
  <2> QED
    BY <2>1, AddressAssumption, SMT DEF Page, Pages
<1>3. ItemTyped(last) /\ last.op = "thread" /\ last.proc = p
  BY <1>2, SizeAssumption, SMT DEF Item, ItemTyped, ItemType, Frame
<1>4. ItemTyped(Item("map", p, <<"stack", k>>, 0)) /\ Item("map", p, <<"stack", k>>, 0).op # "thread"
  <2> HIDE DEF k
  <2> QED
    BY <1>2, MapItemTyped
<1> HIDE DEF k, last
<1>5. IsGrowList(w, p, "stack", k, k, last)
  <2>1. k <= k /\ ArePages("stack", k, k)
    BY <1>2, SMT DEF ArePages
  <2>2. e \in Seq(ItemType) /\ Len(e) = 1 /\ e[1] = last
    BY <1>3, SMT DEF ItemTyped
  <2> HIDE DEF e
  <2> QED
    BY <1>2, <2>1, <2>2, GrowItems
<1> HIDE DEF w
<1>6. w \in Seq(ItemType) /\ Len(w) = 2 /\ w[1] = Item("map", p, <<"stack", k>>, 0) /\ w[2] = last
  BY <1>2, <1>5, SMT DEF IsGrowList
<1>7. threads' = threads /\ heapEnd' = heapEnd /\ live' = live /\ table' = table /\ entry' = entry
  BY <1>1 DEF spaceVars
<1>8. \A i \in 1..Len(w) : ItemTyped(w[i])
  BY <1>3, <1>4, <1>6, SMT
<1>9. \A i \in 1..Len(w) : w[i].op = "thread" => i = Len(w) /\ threads'[w[i].proc] < MaxThreads
  BY <1>1, <1>3, <1>4, <1>6, <1>7, SMT
<1>10. live' \subseteq Process /\ heapEnd' \in [Process -> 0..MaxHeap]
       /\ threads' \in [Process -> 0..MaxThreads]
  BY <1>7 DEF TInv, TypeOK
<1>11. TInv(t)' /\ work'[t] = w
  BY <1>1, <1>6, <1>7, <1>8, <1>9, <1>10, CallBegins
<1> QED
  BY <1>6, <1>11 DEF k, last, ThreadList

LEMMA ExpandHeapTyped ==
  ASSUME NEW t, Thread = {t}, TInv(t), NEW p \in Process, NEW n \in 1..MaxHeap, ExpandHeap(t, p, n)
  PROVE  TInv(t)' /\ HeapList(work'[t], p, heapEnd[p], n)
<1> DEFINE h == heapEnd[p]
           k == h + 1
           last == Item("heapEnd", p, <<"heap", n>>, 0)
           e == <<last>>
           w == MapPages(p, "heap", k, n) \o e
<1>1. Call(t, w) /\ Idle(t) /\ n > h
      /\ UNCHANGED <<frameVars, call, spaceVars, failed, removed, leaked>>
  BY DEF ExpandHeap
<1>2. h \in Nat /\ k = h + 1 /\ k \in Nat \ {0} /\ n \in Nat /\ k <= n
      /\ n <= MaxHeap /\ MaxHeap \in Nat
  BY <1>1, AddressAssumption, SMT DEF TInv, TypeOK
<1>3. ItemTyped(last) /\ last.op # "thread"
  BY <1>2, SizeAssumption, SMT DEF Item, ItemTyped, ItemType, Frame, Page, Pages
<1> HIDE DEF h, k, last
<1>4. \A i \in k..n : <<"heap", i>> \in Page
  BY <1>2, SMT DEF Page, Pages
<1>5. IsGrowList(w, p, "heap", k, n, last)
  <2>1. e \in Seq(ItemType) /\ Len(e) = 1 /\ e[1] = last
    BY <1>3, SMT DEF ItemTyped
  <2>2. ArePages("heap", k, n)
    BY <1>4 DEF ArePages
  <2> HIDE DEF e
  <2> QED
    BY <1>2, <2>1, <2>2, GrowItems
<1> HIDE DEF w
<1>6. /\ w \in Seq(ItemType) /\ Len(w) = n - h + 1 /\ w[n - h + 1] = last
      /\ \A i \in 1..(n - h) : w[i] = Item("map", p, <<"heap", h + i>>, 0)
  <2>1. n - k + 2 = n - h + 1 /\ n - k + 1 = n - h /\ \A i \in 1..(n - h) : k + i - 1 = h + i
    BY <1>2, SMT
  <2> QED
    BY <1>5, <2>1 DEF IsGrowList
<1>7. threads' = threads /\ heapEnd' = heapEnd /\ live' = live /\ table' = table /\ entry' = entry
  BY <1>1 DEF spaceVars
<1>8. \A i \in 1..Len(w) : ItemTyped(w[i]) /\ w[i].op # "thread"
  <2> TAKE i \in 1..Len(w)
  <2>1. CASE i = n - h + 1
    BY <1>3, <1>6, <2>1
  <2>2. CASE i \in 1..(n - h)
    <3>1. h + i \in k..n
      BY <1>2, <2>2, SMT
    <3> QED
      BY <1>4, <1>6, <2>2, <3>1, MapItemTyped
  <2> QED
    BY <1>2, <1>6, <2>1, <2>2, SMT
<1>9. live' \subseteq Process /\ heapEnd' \in [Process -> 0..MaxHeap]
       /\ threads' \in [Process -> 0..MaxThreads]
  BY <1>7 DEF TInv, TypeOK
<1>10. TInv(t)' /\ work'[t] = w
  BY <1>1, <1>6, <1>7, <1>8, <1>9, CallBegins
<1> QED
  BY <1>1, <1>2, <1>6, <1>10 DEF h, last, HeapList

LEMMA CreateRegionTyped ==
  ASSUME NEW t, Thread = {t}, TInv(t), NEW p \in Process, NEW q \in Process,
         CreateSharedRegion(t, p, q)
  PROVE  TInv(t)'
<1> DEFINE i == Item("region", <<p, q>>, <<"shared", 1>>, 0)
           w == <<i>>
<1>1. Call(t, w) /\ Idle(t) /\ UNCHANGED <<frameVars, call, spaceVars, failed, removed, leaked>>
  BY DEF CreateSharedRegion
<1>2. ItemTyped(i) /\ i.op # "thread"
  BY AddressAssumption, SizeAssumption, SMT DEF Item, ItemTyped, ItemType, Frame, Page, Pages
<1> HIDE DEF i
<1>3. w \in Seq(ItemType) /\ Len(w) = 1 /\ w[1] = i
  BY <1>2, SMT DEF ItemTyped
<1> HIDE DEF w
<1>4. \A j \in 1..Len(w) : ItemTyped(w[j]) /\ w[j].op # "thread"
  BY <1>2, <1>3, SMT
<1>5. threads' = threads /\ heapEnd' = heapEnd /\ live' = live /\ table' = table /\ entry' = entry
  BY <1>1 DEF spaceVars
<1>6. live' \subseteq Process /\ heapEnd' \in [Process -> 0..MaxHeap]
       /\ threads' \in [Process -> 0..MaxThreads]
  BY <1>5 DEF TInv, TypeOK
<1>7. TInv(t)' /\ work'[t] = w
  BY <1>1, <1>3, <1>4, <1>5, <1>6, CallBegins
<1> QED
  BY <1>7

(* FreePage and RemoveProcess, which only give frames back. *)
LEMMA FreeTyped ==
  ASSUME NEW t, Thread = {t}, TInv(t), Idle(t), NEW F, NEW S, IsFiniteSet(S),
         FreeBlock(F, Cardinality({u \in S : FrameOf(u) # 0})), UNCHANGED <<call, work, failed>>,
         live' \subseteq Process, table' \in [Process -> [Table -> Frame]],
         entry' \in [Process -> [Page -> [frame : Frame, present : BOOLEAN]]],
         heapEnd' \in [Process -> 0..MaxHeap], threads' \in [Process -> 0..MaxThreads],
         removed' \in 0..MaxRemoved, leaked' \subseteq Frame
  PROVE  TInv(t)'
<1> DEFINE n == Cardinality({u \in S : FrameOf(u) # 0})
<1>1. n \in Nat
  BY CountType
<1> HIDE DEF n
<1>2. memoryArray' \subseteq 0..(Top - 1) /\ UNCHANGED todo
  BY DEF FreeBlock, TInv, TypeOK, MemoryTypeOK
<1>3. usedBlocks' \in 0..(UINT32 - 1)
  <2>1. usedBlocks - n \in Int
    BY <1>1, SizeAssumption, SMT DEF TInv, TypeOK, MemoryTypeOK
  <2>2. usedBlocks' = (usedBlocks - n) % UINT32
    BY DEF FreeBlock, n
  <2> QED
    BY <2>1, <2>2, SizeAssumption, SMT
<1>4. TypeOK'
  BY <1>2, <1>3 DEF TInv, TypeOK, MemoryTypeOK
<1>5. work[t] = <<>> /\ work'[t] = <<>> /\ call'[t].at = "none" /\ call' = call
  BY ZenonT(30) DEF Idle, TInv, CallTyped
<1>6. WorkTyped(work[t])' /\ CallTyped(t)'
  BY <1>5, SMT DEF WorkTyped, CallTyped, TInv
<1> QED
  BY <1>2, <1>4, <1>6 DEF TInv

LEMMA FreePageEntries ==
  ASSUME TypeOK, NEW S, FreePage(S)
  PROVE  entry' \in [Process -> [Page -> [frame : Frame, present : BOOLEAN]]]
<1>1. \A p \in Process, page \in Page : entry[p][page] \in [frame : Frame, present : BOOLEAN]
  BY DEF TypeOK
<1>2. \A p \in Process, page \in Page :
        [entry[p][page] EXCEPT !.present = FALSE] \in [frame : Frame, present : BOOLEAN]
  BY <1>1
<1> QED
  BY <1>1, <1>2 DEF FreePage

LEMMA ShrinkHeapTyped ==
  ASSUME NEW t, Thread = {t}, TInv(t), NEW p \in Process, NEW n \in 1..MaxHeap, ShrinkHeap(t, p, n)
  PROVE  TInv(t)'
<1> DEFINE S == HeapPages(p, n, heapEnd[p])
<1>1. /\ Idle(t) /\ FreePage(S) /\ heapEnd' = [heapEnd EXCEPT ![p] = n]
      /\ UNCHANGED <<call, live, table, threads, work, failed, removed, leaked>>
  BY DEF ShrinkHeap, HeapPages
<1>2. IsFiniteSet(S)
  <2>1. n \in 0..MaxHeap /\ heapEnd[p] \in 0..MaxHeap
    BY AddressAssumption, SMT DEF TInv, TypeOK
  <2> QED
    BY <2>1, HeapPagesFinite
<1> HIDE DEF S
<1>3. heapEnd' \in [Process -> 0..MaxHeap]
  BY <1>1, AddressAssumption, SMT DEF TInv, TypeOK
<1>4. TypeOK
  BY DEF TInv
<1>5. entry' \in [Process -> [Page -> [frame : Frame, present : BOOLEAN]]]
  BY <1>1, <1>4, FreePageEntries
<1>6. /\ live' \subseteq Process /\ table' \in [Process -> [Table -> Frame]]
      /\ threads' \in [Process -> 0..MaxThreads] /\ removed' \in 0..MaxRemoved /\ leaked' \subseteq Frame
  BY <1>1, <1>4 DEF TypeOK
<1>7. FreeBlock({FrameOf(u) : u \in S} \ {0}, Cardinality({u \in S : FrameOf(u) # 0}))
  BY <1>1 DEF FreePage
<1> QED
  BY <1>1, <1>2, <1>3, <1>5, <1>6, <1>7, FreeTyped

LEMMA RemoveRegionTyped ==
  ASSUME NEW t, Thread = {t}, TInv(t), NEW p \in Process, NEW q \in Process,
         RemoveSharedRegion(t, p, q)
  PROVE  TInv(t)'
<1> DEFINE S == Shared(p) \cup Shared(q)
<1>1. /\ Idle(t) /\ FreePage(S) /\ removed' = removed + RegionPages /\ removed + RegionPages <= MaxRemoved
      /\ UNCHANGED <<call, live, table, heapEnd, threads, work, failed, leaked>>
  BY DEF RemoveSharedRegion
<1>2. IsFiniteSet(S)
  BY SharedFinite, FS_Union
<1> HIDE DEF S
<1>3. TypeOK
  BY DEF TInv
<1>4. entry' \in [Process -> [Page -> [frame : Frame, present : BOOLEAN]]]
  BY <1>1, <1>3, FreePageEntries
<1>5. removed' \in 0..MaxRemoved
  BY <1>1, <1>3, AddressAssumption, SizeAssumption, SMT DEF TypeOK
<1>6. /\ live' \subseteq Process /\ table' \in [Process -> [Table -> Frame]]
      /\ heapEnd' \in [Process -> 0..MaxHeap] /\ threads' \in [Process -> 0..MaxThreads]
      /\ leaked' \subseteq Frame
  BY <1>1, <1>3 DEF TypeOK
<1>7. FreeBlock({FrameOf(u) : u \in S} \ {0}, Cardinality({u \in S : FrameOf(u) # 0}))
  BY <1>1 DEF FreePage
<1> QED
  BY <1>1, <1>2, <1>4, <1>5, <1>6, <1>7, FreeTyped

LEMMA RemoveProcessTyped ==
  ASSUME NEW t, Thread = {t}, TInv(t), NEW p \in Process, RemoveProcess(t, p)
  PROVE  TInv(t)'
<1>1. TypeOK /\ Idle(t)
  BY DEF TInv, RemoveProcess
<1>2. IsFiniteSet(Owned(p))
  BY <1>1, OwnedFinite DEF TypeOK
<1>3. 0 \in Frame /\ 0 \in 0..MaxHeap /\ 0 \in 0..MaxThreads
  BY SizeAssumption, AddressAssumption, SMT DEF Frame
<1>4. live' \subseteq Process /\ table' \in [Process -> [Table -> Frame]]
  BY <1>1, <1>3 DEF RemoveProcess, TypeOK
<1>5. entry' \in [Process -> [Page -> [frame : Frame, present : BOOLEAN]]]
  <2>1. [page \in Page |-> NoEntry] \in [Page -> [frame : Frame, present : BOOLEAN]]
    BY <1>3 DEF NoEntry
  <2>2. entry' = [entry EXCEPT ![p] = [page \in Page |-> NoEntry]]
    BY DEF RemoveProcess
  <2> QED
    BY <1>1, <2>1, <2>2 DEF TypeOK
<1>6. heapEnd' \in [Process -> 0..MaxHeap] /\ threads' \in [Process -> 0..MaxThreads]
  BY <1>1, <1>3 DEF RemoveProcess, TypeOK
<1>7. leaked' \subseteq Frame
  <2>1. \A d \in Table : table[p][d] \in Frame
    BY <1>1 DEF TypeOK
  <2>2. \A u \in Shared(p) : FrameOf(u) \in Frame
    BY <1>1, SharedFinite DEF TypeOK, FrameOf
  <2>3. leaked \subseteq Frame
    BY <1>1 DEF TypeOK
  <2> QED
    BY <2>1, <2>2, <2>3 DEF RemoveProcess
<1>8. /\ FreeBlock({FrameOf(u) : u \in Owned(p)} \ {0}, Cardinality({u \in Owned(p) : FrameOf(u) # 0}))
      /\ UNCHANGED <<call, work, failed>> /\ removed' = removed
  BY DEF RemoveProcess
<1>9. removed' \in 0..MaxRemoved
  BY <1>1, <1>8 DEF TypeOK
<1> QED
  BY <1>1, <1>2, <1>4, <1>5, <1>6, <1>7, <1>8, <1>9, FreeTyped

LEMMA TypesPreserved ==
  ASSUME NEW t, Thread = {t}, TInv(t), [Next]_vars
  PROVE  TInv(t)'
<1>1. CASE UNCHANGED vars
  BY <1>1 DEF vars, spaceVars, TInv, TypeOK, MemoryTypeOK, WorkTyped, CallTyped, NoTable, Item1
<1>2. CASE Boot /\ UNCHANGED <<spaceVars, work, failed, removed, leaked>>
  BY <1>2, BootTyped
<1>3. CASE Step(t)
  BY <1>3, AllocationTyped, NewTableTyped, ItemStepTyped, RegionReadyTyped DEF Step
<1>4. CASE Syscall(t)
  BY <1>4, CreateTyped, StartThreadTyped, ExpandHeapTyped, CreateRegionTyped, ShrinkHeapTyped,
     RemoveRegionTyped, RemoveProcessTyped DEF Syscall
<1> QED
  BY <1>1, <1>2, <1>3, <1>4 DEF Next

(* The variables keep their types: the counter is an unsigned number, no   *)
(* frame number lies behind the bits a search looks at, and neither heap   *)
(* nor threads of a process grow past their bounds.                        *)
THEOREM TypeCorrect == OneCaller => (Spec => []TypeOK)
<1> SUFFICES ASSUME NEW t, Thread = {t}
             PROVE  Spec => []TypeOK
  BY DEF OneCaller
<1>1. Init => TInv(t)
  BY TypesInitially
<1>2. TInv(t) /\ [Next]_vars => TInv(t)'
  BY TypesPreserved
<1>3. TInv(t) => TypeOK
  BY DEF TInv
<1> QED
  BY <1>1, <1>2, <1>3, PTL DEF Spec
-----------------------------------------------------------------------------
(***************************************************************************)
(* Arithmetic.                                                             *)
(***************************************************************************)
(* Division with remainder is unique. *)
LEMMA ModUnique ==
  ASSUME NEW M \in Nat \ {0}, NEW k \in Int, NEW r \in 0..(M - 1)
  PROVE  (M * k + r) % M = r
<1> DEFINE x == M * k + r
           q == x \div M
           s == x % M
<1>1. x \in Int
  BY SMT
<1>2. x = M * q + s /\ s \in 0..(M - 1) /\ q \in Int
  <2> HIDE DEF x
  <2> QED
    BY <1>1, SMT
<1>3. M * (k - q) = s - r /\ k - q \in Int
  <2> HIDE DEF q, s
  <2> QED
    BY <1>1, <1>2, SMT
<1>4. ASSUME NEW d \in Int, d >= 1
      PROVE  M * d >= M
  BY <1>4, SMT
<1>5. ASSUME NEW d \in Int, d <= -1
      PROVE  M * d <= -M
  BY <1>5, SMT
<1>6. k - q = 0
  <2> HIDE DEF q, s
  <2>1. -M < s - r /\ s - r < M
    BY <1>2, SMT
  <2>2. ~(k - q >= 1)
    BY <1>2, <1>3, <1>4, <2>1, SMT
  <2>3. ~(k - q <= -1)
    BY <1>2, <1>3, <1>5, <2>1, SMT
  <2> QED
    BY <1>3, <2>2, <2>3, SMT
<1>7. s = r
  <2> HIDE DEF q, s
  <2> QED
    BY <1>2, <1>3, <1>6, SMT
<1> QED
  BY <1>7

LEMMA ModAdd ==
  ASSUME NEW M \in Nat \ {0}, NEW x \in Int, NEW y \in Int
  PROVE  ((x % M) + y) % M = (x + y) % M
<1> DEFINE q == x \div M
           s == x % M
           z == s + y
           p == z \div M
           r == z % M
<1>1. x = M * q + s /\ s \in 0..(M - 1) /\ q \in Int
  BY SMT
<1>2. z \in Int
  BY <1>1, SMT
<1>3. z = M * p + r /\ r \in 0..(M - 1) /\ p \in Int
  <2> HIDE DEF z
  <2> QED
    BY <1>2, SMT
<1> HIDE DEF q, s, p, r
<1>4. x + y = M * (p + q) + r /\ p + q \in Int
  BY <1>1, <1>3, SMT
<1>5. (M * (p + q) + r) % M = r
  BY <1>3, <1>4, ModUnique
<1> QED
  BY <1>4, <1>5 DEF r, s, z

LEMMA ModSubtract ==
  ASSUME NEW M \in Nat \ {0}, NEW x \in Int, NEW y \in Int
  PROVE  (y - (x % M)) % M = (y - x) % M
<1> DEFINE q == x \div M
           s == x % M
           z == y - s
           p == z \div M
           r == z % M
<1>1. x = M * q + s /\ s \in 0..(M - 1) /\ q \in Int
  BY SMT
<1>2. z \in Int
  BY <1>1, SMT
<1>3. z = M * p + r /\ r \in 0..(M - 1) /\ p \in Int
  <2> HIDE DEF z
  <2> QED
    BY <1>2, SMT
<1> HIDE DEF q, s, p, r
<1>4. y - x = M * (p - q) + r /\ p - q \in Int
  BY <1>1, <1>3, SMT
<1>5. (M * (p - q) + r) % M = r
  BY <1>3, <1>4, ModUnique
<1> QED
  BY <1>4, <1>5 DEF r, s, z

(* What a change of usedBlocks does to GetFreeBlocks. *)
LEMMA FreeBlocksChange ==
  ASSUME usedBlocks \in Int, NEW n \in Int, usedBlocks' = (usedBlocks + n) % UINT32
  PROVE  /\ FreeBlocks' = (FreeBlocks - n) % UINT32
         /\ FreeBlocks \in 0..(UINT32 - 1) /\ FreeBlocks' \in 0..(UINT32 - 1)
<1>1. UINT32 \in Nat \ {0} /\ maximumBlocks \in Int
  <2>1. Top \in Nat
    BY SizeAssumption
  <2> QED
    BY <2>1, SizeAssumption, SMT
<1> DEFINE m == maximumBlocks - usedBlocks
<1>2. m \in Int /\ usedBlocks + n \in Int /\ -n \in Int
  BY <1>1, SMT
<1>3. FreeBlocks' = (maximumBlocks - (usedBlocks + n)) % UINT32
  BY <1>1, <1>2, ModSubtract DEF FreeBlocks
<1>4. maximumBlocks - (usedBlocks + n) = m + (-n)
  BY <1>1, SMT
<1>5. ((m % UINT32) + (-n)) % UINT32 = (m + (-n)) % UINT32
  BY <1>1, <1>2, ModAdd
<1>6. (FreeBlocks + (-n)) % UINT32 = FreeBlocks'
  BY <1>3, <1>4, <1>5 DEF FreeBlocks
<1>7. FreeBlocks \in 0..(UINT32 - 1) /\ FreeBlocks' \in 0..(UINT32 - 1)
  <2>1. m % UINT32 \in 0..(UINT32 - 1)
    <3> HIDE DEF m
    <3> QED
      BY <1>1, <1>2, SMT
  <2>2. (m + (-n)) % UINT32 \in 0..(UINT32 - 1)
    <3>1. m + (-n) \in Int
      BY <1>2, SMT
    <3> QED
      BY <1>1, <3>1, SMT
  <2> QED
    BY <1>3, <1>4, <2>1, <2>2 DEF FreeBlocks
<1>8. FreeBlocks + (-n) = FreeBlocks - n
  BY <1>7
<1> QED
  BY <1>6, <1>7, <1>8
-----------------------------------------------------------------------------
(***************************************************************************)
(* Frames that are held, as sets: one is taken, handed over, left behind   *)
(* or given back.                                                          *)
(***************************************************************************)
LEMMA DisjointUnion ==
  ASSUME NEW S, NEW T, IsFiniteSet(S), IsFiniteSet(T), S \cap T = {}
  PROVE  /\ IsFiniteSet(S \cup T) /\ Cardinality(S) \in Nat /\ Cardinality(T) \in Nat
         /\ Cardinality(S \cup T) = Cardinality(S) + Cardinality(T)
<1>1. Cardinality(S) \in Nat /\ Cardinality(T) \in Nat
  BY FS_CardinalityType
<1>3. Cardinality(S \cap T) = 0
  BY FS_EmptySet
<1>2. IsFiniteSet(S \cup T)
      /\ Cardinality(S \cup T) = Cardinality(S) + Cardinality(T) - Cardinality(S \cap T)
  BY FS_Union
<1> QED
  BY <1>1, <1>2, <1>3, SMT

LEMMA UsableFrames == Usable \subseteq 1..(Top - 1) /\ Usable \subseteq Frame
<1>1. Usable \subseteq Available \ {0}
  BY DEF Usable
<1> QED
  BY <1>1, SizeAssumption, SMT DEF Frame



(* Sets of slots and of frames have a size. *)
LEMMA FrameCounts ==
  ASSUME IsFiniteSet(Slot), NEW H, NEW M
  PROVE  /\ IsFiniteSet(Beyond(H)) /\ Cardinality(Beyond(H)) \in Nat
         /\ IsFiniteSet(BeyondOwn(H)) /\ Cardinality(BeyondOwn(H)) \in Nat
         /\ IsFiniteSet(Clear(M)) /\ Cardinality(Clear(M)) \in Nat
<1>1. Beyond(H) \in SUBSET Slot /\ BeyondOwn(H) \in SUBSET Slot
  BY DEF Beyond, BeyondOwn, OwnSlot
<1>2. IsFiniteSet(0..(Top - 1))
  BY SizeAssumption, FS_Interval, SMT
<1>3. Clear(M) \in SUBSET (0..(Top - 1))
  BY DEF Clear
<1> QED
  BY <1>1, <1>2, <1>3, FS_Subset, FS_CardinalityType
(* AllocateBlock takes a frame for the call. *)
LEMMA TakeFrame ==
  ASSUME RegionPages = 1, IsFiniteSet(Slot), NEW H, NEW M, NEW free, NEW rem, NEW lost,
         Frames(H, M, free, rem, lost), H[InCall] = 0, free > 0, NEW f \in Frame,
         f \in Clear(M) \/ (Clear(M) = {} /\ f \in Foreign)
  PROVE  Frames([H EXCEPT ![InCall] = f], M \cup ({f} \cap 0..(Top - 1)), free - 1, rem, lost)
<1> DEFINE G == [H EXCEPT ![InCall] = f]
           N == M \cup ({f} \cap 0..(Top - 1))
<1>1. HeldOK(H, M, rem) /\ Paid(H, M, free, rem) /\ Found(H, M, lost)
  BY DEF Frames
<1>2. H \in [Slot -> Frame] /\ InCall \in Slot /\ InCall \in OwnSlot /\ InCall \notin SharedSlot
  BY <1>1, SMT DEF HeldOK, Slot, OwnSlot, SharedSlot, InCall
<1>3. G \in [Slot -> Frame] /\ G[InCall] = f /\ \A u \in Slot : u # InCall => G[u] = H[u]
  BY <1>2
<1>4. Top \in Nat /\ Frame \subseteq Nat /\ 0 < Top
  BY SizeAssumption, SMT DEF Frame
<1>5. free \in Nat /\ rem \in Nat
  BY <1>1 DEF Paid
<1> DEFINE b == Cardinality(Beyond(H))
           o == Cardinality(BeyondOwn(H))
           c == Cardinality(Clear(M))
<1>6. IsFiniteSet(Beyond(H)) /\ IsFiniteSet(BeyondOwn(H)) /\ IsFiniteSet(Clear(M))
      /\ b \in Nat /\ o \in Nat /\ c \in Nat
  BY FrameCounts
<1>7. 2 * free + b + o <= 2 * (c + rem)
  BY <1>1 DEF Paid
<1> HIDE DEF G, N, b, o, c
<1>8. CASE f \in Clear(M)
  <2>1. f \in Usable /\ f # 0 /\ f < Top /\ f \notin M /\ N = M \cup {f}
    BY <1>1, <1>4, <1>8, UsableFrames, SMTT(30) DEF HeldOK, Clear, N
  <2>2. \A u \in Slot : H[u] # f
    BY <1>1, <1>4, <2>1, SMT DEF HeldOK
  <2>3. HeldOK(G, N, rem)
    <3>1. N \subseteq 0..(Top - 1) /\ Clear(N) \subseteq Usable
      BY <1>1, <2>1, UsableFrames, SizeAssumption, SMT DEF HeldOK, Clear
    <3>2. \A u \in Slot : G[u] # 0 => G[u] \in Usable \cap N \/ (G[u] >= Top /\ rem > 0)
      BY <1>1, <1>3, <2>1 DEF HeldOK
    <3>3. \A u, v \in Slot : u # v /\ G[u] = G[v] => u # InCall /\ v # InCall
      BY <1>3, <2>2
    <3>4. \A u, v \in Slot :
            u # v /\ G[u] = G[v] /\ G[u] # 0 /\ G[u] < Top => u \in SharedSlot
      BY <1>1, <1>3, <3>3 DEF HeldOK
    <3>5. \A u, v, w \in Slot :
          G[u] = G[v] /\ G[v] = G[w] /\ G[u] # 0 /\ G[u] < Top => u = v \/ v = w \/ u = w
      <4> SUFFICES ASSUME NEW u \in Slot, NEW v \in Slot, NEW w \in Slot, u # v, v # w, u # w,
                          G[u] = G[v], G[v] = G[w], G[u] # 0, G[u] < Top
                   PROVE  FALSE
        OBVIOUS
      <4>1. G[u] = H[u] /\ G[v] = H[v] /\ G[w] = H[w]
        BY <1>3, <3>3
      <4> QED
        BY <1>1, <4>1 DEF HeldOK
    <3> QED
      BY <1>3, <3>1, <3>2, <3>4, <3>5 DEF HeldOK
  <2>4. Paid(G, N, free - 1, rem)
    <3>1. Beyond(G) = Beyond(H) /\ BeyondOwn(G) = BeyondOwn(H)
      <4>1. \A u \in Slot : G[u] >= Top <=> H[u] >= Top
        BY <1>3, <1>4, <2>1, SMT
      <4> QED
        BY <4>1 DEF Beyond, BeyondOwn, OwnSlot
    <3>2. Clear(N) = Clear(M) \ {f}
      BY <2>1 DEF Clear
    <3>3. Cardinality(Clear(N)) = c - 1
      BY <1>6, <1>8, <3>2, FS_RemoveElement DEF c
    <3> QED
      BY <1>5, <1>6, <1>7, <3>1, <3>3, SMT DEF Paid, b, o
  <2>5. Found(G, N, lost)
    <3> SUFFICES ASSUME NEW x \in Usable \cap N, x \notin lost
                 PROVE  \E u \in Slot : x = G[u]
      BY DEF Found
    <3>1. CASE x = f
      BY <1>2, <1>3, <3>1
    <3>2. CASE x # f
      <4>1. x \in Usable \cap M
        BY <2>1, <3>2
      <4>2. PICK u \in Slot : x = H[u]
        BY <1>1, <4>1 DEF Found
      <4>3. u # InCall
        BY <4>1, <4>2, UsableFrames, SMT
      <4> QED
        BY <1>3, <4>2, <4>3
    <3> QED
      BY <3>1, <3>2
  <2> QED
    BY <2>3, <2>4, <2>5 DEF Frames, G, N
<1>9. CASE Clear(M) = {} /\ f \in Foreign
  <2>1. f >= Top /\ f # 0 /\ N = M
    BY <1>4, <1>9, SizeAssumption, SMT DEF Foreign, N
  <2>2. c = 0
    BY <1>9, FS_EmptySet DEF c
  <2>3. rem > 0
    BY <1>5, <1>6, <1>7, <2>2, SMT
  <2>4. HeldOK(G, N, rem)
    <3>1. \A u \in Slot : G[u] # 0 => G[u] \in Usable \cap N \/ (G[u] >= Top /\ rem > 0)
      BY <1>1, <1>3, <2>1, <2>3 DEF HeldOK
    <3>2. \A u \in Slot : G[u] < Top => u # InCall /\ G[u] = H[u]
      BY <1>3, <1>4, <2>1, SMT
    <3>3. \A u, v \in Slot :
            u # v /\ G[u] = G[v] /\ G[u] # 0 /\ G[u] < Top => u \in SharedSlot
      BY <1>1, <3>2 DEF HeldOK
    <3>4. \A u, v, w \in Slot :
          G[u] = G[v] /\ G[v] = G[w] /\ G[u] # 0 /\ G[u] < Top => u = v \/ v = w \/ u = w
      BY <1>1, <3>2, SMT DEF HeldOK
    <3> QED
      BY <1>1, <1>3, <2>1, <3>1, <3>3, <3>4 DEF HeldOK
  <2>5. Paid(G, N, free - 1, rem)
    <3>1. Beyond(G) = Beyond(H) \cup {InCall} /\ InCall \notin Beyond(H)
      BY <1>2, <1>3, <1>4, <2>1, SMT DEF Beyond
    <3>2. BeyondOwn(G) = BeyondOwn(H) \cup {InCall} /\ InCall \notin BeyondOwn(H)
      BY <1>2, <1>3, <1>4, <2>1, SMT DEF BeyondOwn, OwnSlot
    <3>3. Cardinality(Beyond(G)) = b + 1 /\ Cardinality(BeyondOwn(G)) = o + 1
      BY <1>6, <3>1, <3>2, FS_AddElement, ZenonT(30) DEF b, o
    <3> QED
      BY <1>5, <1>6, <1>7, <2>1, <3>3, SMT DEF Paid, c
  <2>6. Found(G, N, lost)
    <3> SUFFICES ASSUME NEW x \in Usable \cap M, x \notin lost
                 PROVE  \E u \in Slot : x = G[u]
      BY <2>1 DEF Found
    <3>1. PICK u \in Slot : x = H[u]
      BY <1>1 DEF Found
    <3>2. u # InCall
      BY <3>1, UsableFrames, SMT
    <3> QED
      BY <1>3, <3>1, <3>2
  <2> QED
    BY <2>4, <2>5, <2>6 DEF Frames, G, N
<1> QED
  BY <1>8, <1>9
(* The frame of the call goes to a page or page table, or to both sides of  *)
(* a shared page.                                                           *)
LEMMA HandOverFrame ==
  ASSUME RegionPages = 1, IsFiniteSet(Slot), NEW H, NEW M, NEW free, NEW rem, NEW lost,
         Frames(H, M, free, rem, lost), H[InCall] # 0,
         NEW a \in Slot \ {InCall}, NEW b \in Slot \ {InCall}, H[a] = 0, H[b] = 0,
         IF a = b THEN a \in OwnSlot ELSE a \in SharedSlot /\ b \in SharedSlot
  PROVE  Frames(HandOver(H, {a, b}), M, free, rem, lost)
<1> DEFINE G == HandOver(H, {a, b})
           f == H[InCall]
<1>1. HeldOK(H, M, rem) /\ Paid(H, M, free, rem) /\ Found(H, M, lost)
  BY DEF Frames
<1>2. H \in [Slot -> Frame] /\ InCall \in Slot /\ InCall \in OwnSlot /\ InCall \notin SharedSlot
  BY <1>1, SMT DEF HeldOK, Slot, OwnSlot, SharedSlot, InCall
<1>3. Top \in Nat /\ Frame \subseteq Nat /\ 0 < Top /\ 0 \in Frame
  BY SizeAssumption, SMT DEF Frame
<1>4. /\ G \in [Slot -> Frame] /\ G[InCall] = 0 /\ G[a] = f /\ G[b] = f
      /\ \A u \in Slot : u # InCall /\ u # a /\ u # b => G[u] = H[u]
  BY <1>2, <1>3 DEF HandOver
<1>5. f \in Frame /\ f # 0 /\ H[a] = 0 /\ H[b] = 0
  BY <1>2
<1>6. free \in Nat /\ rem \in Nat
  BY <1>1 DEF Paid
<1> HIDE DEF G, f
<1>7. HeldOK(G, M, rem)
  <2>1. \A u \in Slot : G[u] # 0 => G[u] \in Usable \cap M \/ (G[u] >= Top /\ rem > 0)
    <3>1. f \in Usable \cap M \/ (f >= Top /\ rem > 0)
      BY <1>1, <1>2 DEF HeldOK, f
    <3> QED
      BY <1>1, <1>4, <3>1 DEF HeldOK
  <2>2. \A u \in Slot : u # InCall /\ f < Top => H[u] # f
    BY <1>1, <1>2, <1>5 DEF HeldOK, f
  <2>3. \A u \in Slot : G[u] = f /\ f < Top => u = a \/ u = b
    BY <1>4, <1>5, <2>2
  <2>4. \A u \in Slot : G[u] # f /\ G[u] # 0 => G[u] = H[u]
    BY <1>4
  <2>5. \A u, v \in Slot :
            u # v /\ G[u] = G[v] /\ G[u] # 0 /\ G[u] < Top => u \in SharedSlot
    <3> SUFFICES ASSUME NEW u \in Slot, NEW v \in Slot, u # v, G[u] = G[v], G[u] # 0, G[u] < Top
                 PROVE  u \in SharedSlot
      OBVIOUS
    <3>1. CASE G[u] = f
      <4>1. f < Top /\ G[u] = f /\ G[v] = f
        BY <3>1
      <4>2. (u = a \/ u = b) /\ (v = a \/ v = b)
        BY <2>3, <4>1
      <4> QED
        BY <4>2, SMT
    <3>2. CASE G[u] # f
      <4>1. G[u] = H[u] /\ G[v] = H[v]
        BY <2>4, <3>2
      <4> QED
        BY <1>1, <4>1 DEF HeldOK
    <3> QED
      BY <3>1, <3>2
  <2>6. \A u, v, w \in Slot :
          G[u] = G[v] /\ G[v] = G[w] /\ G[u] # 0 /\ G[u] < Top => u = v \/ v = w \/ u = w
    <3> SUFFICES ASSUME NEW u \in Slot, NEW v \in Slot, NEW w \in Slot, u # v, v # w, u # w,
                        G[u] = G[v], G[v] = G[w], G[u] # 0, G[u] < Top
                 PROVE  FALSE
      OBVIOUS
    <3>1. CASE G[u] = f
      BY <2>3, <3>1
    <3>2. CASE G[u] # f
      <4>1. G[u] = H[u] /\ G[v] = H[v] /\ G[w] = H[w]
        BY <2>4, <3>2
      <4> QED
        BY <1>1, <4>1 DEF HeldOK
    <3> QED
      BY <3>1, <3>2
  <2> QED
    BY <1>1, <1>4, <2>1, <2>5, <2>6 DEF HeldOK
<1>8. Paid(G, M, free, rem)
  <2> DEFINE n == Cardinality(Beyond(H))
             o == Cardinality(BeyondOwn(H))
             c == Cardinality(Clear(M))
  <2>1. IsFiniteSet(Beyond(H)) /\ IsFiniteSet(BeyondOwn(H))
        /\ n \in Nat /\ o \in Nat /\ c \in Nat
    BY FrameCounts
  <2>2. 2 * free + n + o <= 2 * (c + rem)
    BY <1>1 DEF Paid
  <2> HIDE DEF n, o, c
  <2>3. CASE f < Top
    <3>1. \A u \in Slot : G[u] >= Top <=> H[u] >= Top
      <4> TAKE u \in Slot
      <4>1. CASE u = InCall
        <5>1. G[u] = 0 /\ H[u] = f
          BY <1>4, <4>1 DEF f
        <5> QED
          BY <1>3, <1>5, <2>3, <5>1, SMT
      <4>2. CASE u # InCall /\ (u = a \/ u = b)
        BY <1>3, <1>4, <1>5, <2>3, <4>2, SMT
      <4>3. CASE u # InCall /\ u # a /\ u # b
        BY <1>4, <4>3
      <4> QED
        BY <4>1, <4>2, <4>3
    <3>2. Beyond(G) = Beyond(H) /\ BeyondOwn(G) = BeyondOwn(H)
      BY <3>1 DEF Beyond, BeyondOwn, OwnSlot
    <3> QED
      BY <1>6, <2>2, <3>2 DEF Paid, n, o, c
  <2>4. CASE f >= Top
    <3> DEFINE B == Beyond(H) \ {InCall}
               O == BeyondOwn(H) \ {InCall}
    <3>1. InCall \in Beyond(H) /\ InCall \in BeyondOwn(H)
      BY <1>2, <2>4 DEF Beyond, BeyondOwn, f
    <3>2. a \notin Beyond(H) /\ b \notin Beyond(H) /\ a \notin BeyondOwn(H)
      BY <1>3, <1>5, SMT DEF Beyond, BeyondOwn
    <3>3. IsFiniteSet(B) /\ Cardinality(B) = n - 1 /\ IsFiniteSet(O) /\ Cardinality(O) = o - 1
      BY <2>1, <3>1, FS_RemoveElement DEF n, o
    <3>4. Beyond(G) = (B \cup {a}) \cup {b}
      BY <1>2, <1>3, <1>4, <1>5, <2>4, SMTT(30) DEF Beyond
    <3>5. CASE a = b
      <4>1. BeyondOwn(G) = O \cup {a}
        BY <1>2, <1>3, <1>4, <1>5, <2>4, <3>5, SMT DEF BeyondOwn, OwnSlot
      <4>2. Beyond(G) = B \cup {a}
        BY <3>4, <3>5
      <4>3. a \notin B /\ a \notin O
        BY <3>2
      <4> HIDE DEF B, O
      <4>4. Cardinality(Beyond(G)) = n - 1 + 1
        BY <3>3, <4>2, <4>3, FS_AddElement, ZenonT(30)
      <4>5. Cardinality(BeyondOwn(G)) = o - 1 + 1
        BY <3>3, <4>1, <4>3, FS_AddElement, ZenonT(30)
      <4> QED
        BY <1>6, <2>1, <2>2, <4>4, <4>5, SMT DEF Paid, c
    <3>6. CASE a # b
      <4>1. BeyondOwn(G) = O
        BY <1>2, <1>3, <1>4, <1>5, <2>4, <3>6, SMT DEF BeyondOwn, OwnSlot
      <4>2. a \notin B /\ b \notin B \cup {a}
        BY <3>2, <3>6
      <4> HIDE DEF B, O
      <4>3. IsFiniteSet(B \cup {a}) /\ Cardinality(B \cup {a}) = n - 1 + 1
        BY <3>3, <4>2, FS_AddElement
      <4>4. Cardinality((B \cup {a}) \cup {b}) = n - 1 + 1 + 1
        BY <4>2, <4>3, FS_AddElement
      <4> QED
        BY <1>6, <2>1, <2>2, <3>3, <3>4, <4>1, <4>4, SMTT(30) DEF Paid, c
    <3> QED
      BY <3>5, <3>6
  <2> QED
    BY <1>3, <1>5, <2>3, <2>4, SMT
<1>9. Found(G, M, lost)
  <2> SUFFICES ASSUME NEW x \in Usable \cap M, x \notin lost
               PROVE  \E u \in Slot : x = G[u]
    BY DEF Found
  <2>1. PICK u \in Slot : x = H[u]
    BY <1>1 DEF Found
  <2>2. x # 0
    BY UsableFrames, SMT
  <2>3. CASE u = InCall
    BY <1>4, <2>1, <2>3 DEF f
  <2>4. CASE u # InCall
    BY <1>4, <1>5, <2>1, <2>2, <2>4
  <2> QED
    BY <2>3, <2>4
<1> QED
  BY <1>7, <1>8, <1>9 DEF Frames, G

(* Slots are emptied and the frames stay marked. *)
LEMMA ForgetFrames ==
  ASSUME IsFiniteSet(Slot), NEW H, NEW M, NEW free, NEW rem, NEW lost,
         Frames(H, M, free, rem, lost), NEW S \in SUBSET Slot, NEW more, lost \subseteq more,
         \A u \in S : H[u] \in Usable => H[u] \in more \/ \E v \in Slot \ S : H[v] = H[u]
  PROVE  Frames(Emptied(H, S), M, free, rem, more)
<1> DEFINE G == Emptied(H, S)
<1>1. HeldOK(H, M, rem) /\ Paid(H, M, free, rem) /\ Found(H, M, lost)
  BY DEF Frames
<1>2. H \in [Slot -> Frame] /\ 0 \in Frame /\ Top \in Nat /\ 0 < Top /\ Frame \subseteq Nat
  BY <1>1, SizeAssumption, SMT DEF HeldOK, Frame
<1>3. G \in [Slot -> Frame] /\ \A u \in Slot : IF u \in S THEN G[u] = 0 ELSE G[u] = H[u]
  BY <1>2 DEF Emptied
<1> HIDE DEF G
<1>4. \A u \in Slot : G[u] # 0 => G[u] = H[u]
  BY <1>3
<1>5. HeldOK(G, M, rem)
  <2>1. \A u \in Slot : G[u] # 0 => G[u] \in Usable \cap M \/ (G[u] >= Top /\ rem > 0)
    BY <1>1, <1>4 DEF HeldOK
  <2>2. \A u, v \in Slot :
            u # v /\ G[u] = G[v] /\ G[u] # 0 /\ G[u] < Top => u \in SharedSlot
    BY <1>1, <1>4 DEF HeldOK
  <2>3. \A u, v, w \in Slot :
          G[u] = G[v] /\ G[v] = G[w] /\ G[u] # 0 /\ G[u] < Top => u = v \/ v = w \/ u = w
    BY <1>1, <1>4, SMT DEF HeldOK
  <2> QED
    BY <1>1, <1>3, <2>1, <2>2, <2>3 DEF HeldOK
<1>6. Paid(G, M, free, rem)
  <2>1. \A u \in Slot : G[u] >= Top => H[u] >= Top
    BY <1>2, <1>3, SMT
  <2>2. Beyond(G) \in SUBSET Beyond(H) /\ BeyondOwn(G) \in SUBSET BeyondOwn(H)
    BY <2>1 DEF Beyond, BeyondOwn, OwnSlot
  <2>3. /\ Cardinality(Beyond(G)) <= Cardinality(Beyond(H))
        /\ Cardinality(BeyondOwn(G)) <= Cardinality(BeyondOwn(H))
    BY <2>2, FrameCounts, FS_Subset
  <2>4. /\ Cardinality(Beyond(G)) \in Nat /\ Cardinality(Beyond(H)) \in Nat
        /\ Cardinality(BeyondOwn(G)) \in Nat /\ Cardinality(BeyondOwn(H)) \in Nat
        /\ Cardinality(Clear(M)) \in Nat
    BY FrameCounts
  <2> QED
    BY <1>1, <2>3, <2>4, SMT DEF Paid
<1>7. Found(G, M, more)
  <2> SUFFICES ASSUME NEW x \in Usable \cap M, x \notin more
               PROVE  \E u \in Slot : x = G[u]
    BY DEF Found
  <2>1. PICK u \in Slot : x = H[u]
    BY <1>1 DEF Found
  <2>2. CASE u \in S
    BY <1>3, <2>1, <2>2
  <2>3. CASE u \notin S
    BY <1>3, <2>1, <2>3
  <2> QED
    BY <2>2, <2>3
<1> QED
  BY <1>5, <1>6, <1>7 DEF Frames, G
(* Frames of pages nobody else has are given back; the counter may grow by  *)
(* as many.                                                                 *)
LEMMA GiveBackOwn ==
  ASSUME IsFiniteSet(Slot), NEW H, NEW M, NEW free, NEW rem, NEW lost,
         Frames(H, M, free, rem, lost), NEW S \in SUBSET OwnSlot, \A u \in S : H[u] # 0,
         NEW more \in Nat, more <= free + Cardinality(S)
  PROVE  Frames(Emptied(H, S), M \ {H[u] : u \in S}, more, rem, lost)
<1> DEFINE G == Emptied(H, S)
           F == {H[u] : u \in S}
           N == M \ F
<1>1. HeldOK(H, M, rem) /\ Paid(H, M, free, rem) /\ Found(H, M, lost)
  BY DEF Frames
<1>2. H \in [Slot -> Frame] /\ 0 \in Frame /\ Top \in Nat /\ 0 < Top /\ Frame \subseteq Nat
  BY <1>1, SizeAssumption, SMT DEF HeldOK, Frame
<1>3. G \in [Slot -> Frame] /\ \A u \in Slot : IF u \in S THEN G[u] = 0 ELSE G[u] = H[u]
  BY <1>2 DEF Emptied
<1>4. S \subseteq Slot /\ \A u \in S : u \notin SharedSlot
  BY DEF OwnSlot
<1>4a. \A u \in Slot : H[u] \in Nat
  BY <1>2
<1>5. \A x \in F : \E u \in S : x = H[u]
  OBVIOUS
<1>6. \A u \in S : H[u] \in F
  OBVIOUS
<1> HIDE DEF G, F
<1>7. \A u \in Slot : G[u] # 0 => G[u] = H[u] /\ u \notin S
  BY <1>3
<1>8. \A u \in Slot \ S : H[u] # 0 /\ H[u] < Top => H[u] \notin F
  BY <1>1, <1>4, <1>5, SMT DEF HeldOK
<1>9. HeldOK(G, N, rem)
  <2>1. N \subseteq 0..(Top - 1)
    BY <1>1 DEF HeldOK
  <2>2. Clear(N) \subseteq Usable
    <3> SUFFICES ASSUME NEW x \in Clear(N), x \notin Clear(M)
                 PROVE  x \in Usable
      BY <1>1 DEF HeldOK
    <3>1. x \in F /\ x \in 0..(Top - 1)
      BY DEF Clear
    <3>2. PICK u \in S : x = H[u]
      BY <1>5, <3>1
    <3>3. H[u] # 0 /\ u \in Slot /\ ~(H[u] >= Top)
      BY <1>2, <1>4, <3>1, <3>2, SMTT(30)
    <3> QED
      BY <1>1, <3>2, <3>3 DEF HeldOK
  <2>3. \A u \in Slot : G[u] # 0 => G[u] \in Usable \cap N \/ (G[u] >= Top /\ rem > 0)
    <3> SUFFICES ASSUME NEW u \in Slot, G[u] # 0
                 PROVE  G[u] \in Usable \cap N \/ (G[u] >= Top /\ rem > 0)
      OBVIOUS
    <3>1. G[u] = H[u] /\ u \in Slot \ S
      BY <1>7
    <3>2. CASE H[u] >= Top
      <4>1. H[u] \notin Usable
        BY <1>2, <1>4a, <3>2, UsableFrames, SMT
      <4> QED
        BY <1>1, <3>1, <3>2, <4>1 DEF HeldOK
    <3>3. CASE H[u] < Top
      <4>1. H[u] \notin F
        BY <1>8, <3>1, <3>3
      <4> QED
        BY <1>1, <1>2, <3>1, <3>3, <4>1 DEF HeldOK
    <3> QED
      BY <1>2, <1>4a, <3>2, <3>3, SMT
  <2>4. \A u, v \in Slot :
            u # v /\ G[u] = G[v] /\ G[u] # 0 /\ G[u] < Top => u \in SharedSlot
    BY <1>1, <1>7 DEF HeldOK
  <2>5. \A u, v, w \in Slot :
          G[u] = G[v] /\ G[v] = G[w] /\ G[u] # 0 /\ G[u] < Top => u = v \/ v = w \/ u = w
    BY <1>1, <1>7, ZenonT(30) DEF HeldOK
  <2> QED
    BY <1>3, <2>1, <2>2, <2>3, <2>4, <2>5 DEF HeldOK
<1>10. Paid(G, N, more, rem)
  <2> DEFINE In == {u \in S : H[u] < Top}
             Out == {u \in S : H[u] >= Top}
             FI == F \cap 0..(Top - 1)
             g == [u \in In |-> H[u]]
  <2>1. In \in SUBSET Slot /\ Out \in SUBSET Slot /\ S \in SUBSET Slot
    BY <1>4
  <2>2. IsFiniteSet(In) /\ IsFiniteSet(Out) /\ IsFiniteSet(S)
    <3> HIDE DEF In, Out
    <3> QED
      BY <2>1, FS_Subset
  <2>3. S = In \cup Out /\ In \cap Out = {}
    BY <1>2, <1>4, <1>4a, SMT
  <2>4. Cardinality(S) = Cardinality(In) + Cardinality(Out)
    <3> HIDE DEF In, Out
    <3> QED
      BY <2>2, <2>3, DisjointUnion
  <2>5. g \in Surjection(In, FI)
    <3>1. \A u \in In : H[u] \in FI
      BY <1>2, <1>4, <1>6, <1>4a, SMT
    <3>2. \A x \in FI : \E u \in In : x = H[u]
      BY <1>2, <1>4, <1>5, SMT
    <3> QED
      BY <3>1, <3>2 DEF Surjection
  <2>6. g \in Injection(In, FI)
    <3>1. \A u, v \in In : H[u] = H[v] => u = v
      BY <1>1, <1>4 DEF HeldOK
    <3> QED
      BY <2>5, <3>1 DEF Injection, IsInjective, Surjection
  <2>7. IsFiniteSet(FI) /\ Cardinality(FI) = Cardinality(In)
    <3> HIDE DEF In, FI, g
    <3> QED
      BY <2>2, <2>5, <2>6, FS_Surjection
  <2>8. FI \subseteq M
    <3> SUFFICES ASSUME NEW x \in FI
                 PROVE  x \in M
      OBVIOUS
    <3>1. PICK u \in S : x = H[u]
      BY <1>5
    <3>2. u \in Slot /\ H[u] # 0 /\ ~(H[u] >= Top)
      BY <1>2, <1>4, <3>1, SMT
    <3> QED
      BY <1>1, <3>1, <3>2 DEF HeldOK
  <2>9. Clear(N) = Clear(M) \cup FI /\ Clear(M) \cap FI = {}
    BY <2>8 DEF Clear
  <2>10. Cardinality(Clear(N)) = Cardinality(Clear(M)) + Cardinality(In)
    <3> HIDE DEF FI, In
    <3> QED
      BY <2>7, <2>9, FrameCounts, DisjointUnion
  <2>11. Beyond(G) = Beyond(H) \ Out /\ Out \in SUBSET Beyond(H)
    <3>1. \A u \in Slot : G[u] >= Top <=> H[u] >= Top /\ u \notin S
      BY <1>2, <1>3, SMT
    <3> QED
      BY <1>4, <3>1 DEF Beyond
  <2>12. BeyondOwn(G) = BeyondOwn(H) \ Out /\ Out \in SUBSET BeyondOwn(H)
    <3>1. \A u \in Slot : G[u] >= Top <=> H[u] >= Top /\ u \notin S
      BY <1>2, <1>3, SMT
    <3> QED
      BY <1>4, <3>1 DEF BeyondOwn, OwnSlot
  <2> DEFINE b == Cardinality(Beyond(H))
             o == Cardinality(BeyondOwn(H))
             c == Cardinality(Clear(M))
             i == Cardinality(In)
             j == Cardinality(Out)
  <2> HIDE DEF In, Out
  <2>13. Cardinality(Beyond(G)) = b - j /\ Cardinality(BeyondOwn(G)) = o - j
    <3>1. Beyond(H) \cap Out = Out /\ BeyondOwn(H) \cap Out = Out
      BY <2>11, <2>12
    <3> QED
      BY <2>11, <2>12, <3>1, FrameCounts, FS_Difference, ZenonT(30)
  <2>14. b \in Nat /\ o \in Nat /\ c \in Nat /\ i \in Nat /\ j \in Nat
    BY <2>2, FrameCounts, FS_CardinalityType
  <2>15. free \in Nat /\ rem \in Nat /\ 2 * free + b + o <= 2 * (c + rem)
    BY <1>1 DEF Paid
  <2>16. more <= free + (i + j) /\ Cardinality(Clear(N)) = c + i
    BY <2>4, <2>10
  <2> HIDE DEF b, o, c, i, j, N
  <2> QED
    BY <2>13, <2>14, <2>15, <2>16, SMT DEF Paid
<1>11. Found(G, N, lost)
  <2> SUFFICES ASSUME NEW x \in Usable \cap N, x \notin lost
               PROVE  \E u \in Slot : x = G[u]
    BY DEF Found
  <2>1. PICK u \in Slot : x = H[u]
    BY <1>1 DEF Found
  <2>2. u \notin S
    BY <1>6, <2>1
  <2> QED
    BY <1>3, <2>1, <2>2
<1> QED
  BY <1>9, <1>10, <1>11 DEF Frames, G, F
(* RemoveSharedRegion frees a frame twice, and the counter grows by two. *)
LEMMA GiveBackShared ==
  ASSUME RegionPages = 1, IsFiniteSet(Slot), NEW H, NEW M, NEW free, NEW rem, NEW lost,
         Frames(H, M, free, rem, lost), NEW a \in SharedSlot, NEW b \in SharedSlot, a # b,
         H[a] = H[b], H[a] # 0, NEW more \in Nat, more <= free + 2
  PROVE  Frames(Emptied(H, {a, b}), M \ {H[a]}, more, rem + 1, lost)
<1> DEFINE S == {a, b}
           G == Emptied(H, S)
           f == H[a]
           N == M \ {f}
<1>1. HeldOK(H, M, rem) /\ Paid(H, M, free, rem) /\ Found(H, M, lost)
  BY DEF Frames
<1>2. H \in [Slot -> Frame] /\ 0 \in Frame /\ Top \in Nat /\ 0 < Top /\ Frame \subseteq Nat
  BY <1>1, SizeAssumption, SMT DEF HeldOK, Frame
<1>3. G \in [Slot -> Frame] /\ \A u \in Slot : IF u \in S THEN G[u] = 0 ELSE G[u] = H[u]
  BY <1>2 DEF Emptied
<1>4. a \in Slot /\ b \in Slot /\ f \in Nat /\ f # 0 /\ H[b] = f /\ \A u \in Slot : H[u] \in Nat
  <2>1. a \in Slot /\ b \in Slot
    BY SMT DEF SharedSlot, Slot, SharedPage, Page, Pages
  <2> QED
    BY <1>2, <2>1
<1>5. free \in Nat /\ rem \in Nat
  BY <1>1 DEF Paid
<1>6. H[a] = f
  OBVIOUS
<1> HIDE DEF G, f
<1>7. \A u \in Slot : G[u] # 0 => G[u] = H[u] /\ u # a /\ u # b
  BY <1>3
<1>8. f < Top => \A u \in Slot : u # a /\ u # b => H[u] # f
  BY <1>1, <1>4, <1>6 DEF HeldOK
<1>9. f < Top => f \in Usable \cap M
  BY <1>1, <1>2, <1>4, <1>6, SMT DEF HeldOK
<1>10. HeldOK(G, N, rem + 1)
  <2>1. N \subseteq 0..(Top - 1)
    BY <1>1 DEF HeldOK
  <2>2. Clear(N) \subseteq Usable
    BY <1>1, <1>2, <1>4, <1>9, SMT DEF HeldOK, Clear
  <2>3. \A u \in Slot : G[u] # 0 => G[u] \in Usable \cap N \/ (G[u] >= Top /\ rem + 1 > 0)
    <3> SUFFICES ASSUME NEW u \in Slot, G[u] # 0, ~(G[u] >= Top)
                 PROVE  G[u] \in Usable \cap N
      BY <1>5, SMT
    <3>1. G[u] = H[u] /\ u # a /\ u # b
      BY <1>7
    <3>2. H[u] # f
      BY <1>2, <1>4, <1>8, <3>1, SMT
    <3> QED
      BY <1>1, <3>1, <3>2 DEF HeldOK
  <2>4. \A u, v \in Slot :
            u # v /\ G[u] = G[v] /\ G[u] # 0 /\ G[u] < Top => u \in SharedSlot
    BY <1>1, <1>7, ZenonT(30) DEF HeldOK
  <2>5. \A u, v, w \in Slot :
          G[u] = G[v] /\ G[v] = G[w] /\ G[u] # 0 /\ G[u] < Top => u = v \/ v = w \/ u = w
    BY <1>1, <1>7, SMT DEF HeldOK
  <2> QED
    BY <1>3, <2>1, <2>2, <2>3, <2>4, <2>5 DEF HeldOK
<1>11. Paid(G, N, more, rem + 1)
  <2> DEFINE n == Cardinality(Beyond(H))
             o == Cardinality(BeyondOwn(H))
             c == Cardinality(Clear(M))
  <2>1. IsFiniteSet(Beyond(H)) /\ IsFiniteSet(Clear(M)) /\ n \in Nat /\ o \in Nat /\ c \in Nat
    BY FrameCounts
  <2>2. 2 * free + n + o <= 2 * (c + rem)
    BY <1>1 DEF Paid
  <2>3. BeyondOwn(G) = BeyondOwn(H)
    BY <1>3 DEF BeyondOwn, OwnSlot
  <2> HIDE DEF n, o, c
  <2>4. CASE f < Top
    <3>1. Beyond(G) = Beyond(H)
      <4>1. \A u \in Slot : G[u] >= Top <=> H[u] >= Top
        BY <1>2, <1>3, <1>4, <1>6, <2>4, SMTT(30)
      <4> QED
        BY <4>1 DEF Beyond
    <3>2. Clear(N) = Clear(M) \cup {f} /\ f \notin Clear(M)
      BY <1>4, <1>9, <2>4, UsableFrames, SMT DEF Clear
    <3>3. Cardinality(Clear(N)) = c + 1
      BY <2>1, <3>2, FS_AddElement DEF c
    <3> QED
      BY <1>5, <2>1, <2>2, <2>3, <3>1, <3>3, SMTT(30) DEF Paid, n, o
  <2>5. CASE f >= Top
    <3>1. N = M
      BY <1>1, <1>2, <1>4, <2>5, SMTT(30) DEF HeldOK
    <3> DEFINE B == Beyond(H) \ {a}
    <3>2. Beyond(G) = B \ {b} /\ a \in Beyond(H) /\ b \in B
      BY <1>2, <1>3, <1>4, <1>6, <2>5, SMT DEF Beyond
    <3>3. IsFiniteSet(B) /\ Cardinality(B) = n - 1
      BY <2>1, <3>2, FS_RemoveElement DEF n
    <3> HIDE DEF B
    <3>4. Cardinality(Beyond(G)) = Cardinality(B) - 1
      BY <3>2, <3>3, FS_RemoveElement
    <3>5. Cardinality(Clear(N)) = c
      BY <3>1 DEF c
    <3>6. Cardinality(BeyondOwn(G)) = o
      BY <2>3 DEF o
    <3> HIDE DEF N
    <3> QED
      BY <1>5, <2>1, <2>2, <3>3, <3>4, <3>5, <3>6, SMT DEF Paid
  <2> QED
    BY <1>2, <1>4, <2>4, <2>5, SMT
<1>12. Found(G, N, lost)
  <2> SUFFICES ASSUME NEW x \in Usable \cap N, x \notin lost
               PROVE  \E u \in Slot : x = G[u]
    BY DEF Found
  <2>1. PICK u \in Slot : x = H[u]
    BY <1>1 DEF Found
  <2>2. u \notin S
    BY <1>4, <1>6, <2>1
  <2> QED
    BY <1>3, <2>1, <2>2
<1> QED
  BY <1>10, <1>11, <1>12 DEF Frames, G, f
-----------------------------------------------------------------------------
(***************************************************************************)
(* What a step does to the frames keeps the accounts right.                *)
(***************************************************************************)
LEMMA CountFromFrames ==
  ASSUME IsFiniteSet(Slot), NEW H, NEW M, NEW free, NEW rem, NEW lost,
         Frames(H, M, free, rem, lost)
  PROVE  free <= Cardinality(0..(Top - 1) \ M) + rem
<1> DEFINE b == Cardinality(Beyond(H))
           o == Cardinality(BeyondOwn(H))
           c == Cardinality(Clear(M))
<1>1. b \in Nat /\ o \in Nat /\ c \in Nat
  BY FrameCounts
<1>2. free \in Nat /\ rem \in Nat /\ 2 * free + b + o <= 2 * (c + rem)
  BY DEF Frames, Paid
<1> HIDE DEF b, o, c
<1>3. free <= c + rem
  BY <1>1, <1>2, SMT
<1> QED
  BY <1>3 DEF c, Clear

LEMMA CountGrows ==
  ASSUME NEW t, TInv(t), NEW n \in Nat, usedBlocks' = (usedBlocks - n) % UINT32
  PROVE  FreeBlocks' \in Nat /\ FreeBlocks' <= FreeBlocks + n
<1>1. usedBlocks \in Int
  BY SMT DEF TInv, TypeOK, MemoryTypeOK
<1>2. -n \in Int /\ usedBlocks - n = usedBlocks + (-n)
  BY <1>1, SMT
<1>3. FreeBlocks' = (FreeBlocks - (-n)) % UINT32 /\ FreeBlocks \in 0..(UINT32 - 1)
  BY <1>1, <1>2, FreeBlocksChange
<1> DEFINE y == FreeBlocks + n
<1>4. y \in Nat /\ FreeBlocks - (-n) = y
  BY <1>3, SMT
<1> HIDE DEF y
<1>5. y % UINT32 \in Nat /\ y % UINT32 <= y
  BY <1>4, SizeAssumption, SMT
<1> QED
  BY <1>3, <1>4, <1>5 DEF y

(* A frame is taken for the call. *)
LEMMA TookSound ==
  ASSUME RegionPages = 1, IsFiniteSet(Slot), NEW t, TInv(t), Run(t), NEW f \in Frame, Took(t, f)
  PROVE  Frames(Holding(t), memoryArray, FreeBlocks, removed, leaked)'
<1>0. PICK H : H = Holding(t)
  OBVIOUS
<1>1. /\ Frames(H, memoryArray, FreeBlocks, removed, leaked) /\ H[InCall] = 0 /\ FreeBlocks > 0
      /\ f \in Clear(memoryArray) \/ (Clear(memoryArray) = {} /\ f \in Foreign)
      /\ Holding(t)' = [H EXCEPT ![InCall] = f]
      /\ memoryArray' = memoryArray \cup ({f} \cap 0..(Top - 1))
      /\ removed' = removed /\ leaked' = leaked
  BY <1>0 DEF Took, Run
<1>2. FreeBlocks' = FreeBlocks - 1
  <2>1. usedBlocks \in Int /\ usedBlocks' = (usedBlocks + 1) % UINT32
    BY SMT DEF TInv, TypeOK, MemoryTypeOK, Took
  <2>2. FreeBlocks' = (FreeBlocks - 1) % UINT32 /\ FreeBlocks \in 0..(UINT32 - 1)
    BY <2>1, FreeBlocksChange, SMT
  <2> QED
    BY <1>1, <2>2, SizeAssumption, SMTT(30)
<1>3. Frames([H EXCEPT ![InCall] = f], memoryArray \cup ({f} \cap 0..(Top - 1)), FreeBlocks - 1,
             removed, leaked)
  BY <1>1, TakeFrame
<1> QED
  BY <1>1, <1>2, <1>3

(* It becomes a page, a table or both ends of a region. *)
LEMMA HandedOverSound ==
  ASSUME RegionPages = 1, IsFiniteSet(Slot), NEW t, Run(t), NEW a \in Slot \ {InCall},
         NEW b \in Slot \ {InCall}, HandedOver(t, a, b)
  PROVE  Frames(Holding(t), memoryArray, FreeBlocks, removed, leaked)'
<1>0. PICK H : H = Holding(t)
  OBVIOUS
<1>1. /\ Frames(H, memoryArray, FreeBlocks, removed, leaked) /\ H[InCall] # 0 /\ H[a] = 0 /\ H[b] = 0
      /\ IF a = b THEN a \in OwnSlot ELSE a \in SharedSlot /\ b \in SharedSlot
      /\ Holding(t)' = HandOver(H, {a, b})
      /\ memoryArray' = memoryArray /\ FreeBlocks' = FreeBlocks
      /\ removed' = removed /\ leaked' = leaked
  BY <1>0 DEF HandedOver, Run
<1>2. Frames(HandOver(H, {a, b}), memoryArray, FreeBlocks, removed, leaked)
  BY <1>1, HandOverFrame
<1> QED
  BY <1>1, <1>2

(* Pages are freed, and the rest of a process is left behind. *)
LEMMA GaveBackSound ==
  ASSUME RegionPages = 1, IsFiniteSet(Slot), NEW t, TInv(t), Run(t), NEW S \in SUBSET OwnSlot,
         NEW P \in SUBSET Slot, GaveBack(t, S, P)
  PROVE  Frames(Holding(t), memoryArray, FreeBlocks, removed, leaked)'
<1>0. PICK H, G, M : H = Holding(t) /\ G = Emptied(Holding(t), S)
                     /\ M = memoryArray \ {Holding(t)[u] : u \in S}
  OBVIOUS
<1>1. /\ Frames(H, memoryArray, FreeBlocks, removed, leaked) /\ \A u \in S : H[u] # 0
      /\ memoryArray' = M /\ usedBlocks' = (usedBlocks - Cardinality(S)) % UINT32
      /\ Holding(t)' = Emptied(G, P) /\ removed' = removed /\ leaked \subseteq leaked'
  BY <1>0 DEF GaveBack, Run
<1>2. Cardinality(S) \in Nat
  BY FS_Subset, FS_CardinalityType DEF OwnSlot
<1>3. FreeBlocks' \in Nat /\ FreeBlocks' <= FreeBlocks + Cardinality(S)
  BY <1>1, <1>2, CountGrows
<1>4. G = Emptied(H, S) /\ M = memoryArray \ {H[u] : u \in S}
  BY <1>0
<1>5. Frames(G, M, FreeBlocks', removed, leaked)
  BY <1>1, <1>3, <1>4, GiveBackOwn
<1>6. ASSUME NEW u \in P, G[u] \in Usable
      PROVE  G[u] \in leaked' \/ \E v \in Slot \ P : G[v] = G[u]
  <2>1. \A v \in Slot : G[v] = IF v \in S THEN 0 ELSE H[v]
    BY <1>4 DEF Emptied
  <2>2. u \in P \ S /\ G[u] = H[u]
    BY <1>6, <2>1, UsableFrames, SMT
  <2>3. H[u] \in leaked' \/ \E v \in Slot \ (S \cup P) : H[v] = H[u]
    BY <1>0, <1>6, <2>2 DEF GaveBack
  <2> QED
    BY <2>1, <2>2, <2>3
<1>7. Frames(Emptied(G, P), M, FreeBlocks', removed, leaked')
  BY <1>1, <1>5, <1>6, ForgetFrames
<1> QED
  BY <1>1, <1>7

(* A region is removed. *)
LEMMA UnsharedSound ==
  ASSUME RegionPages = 1, IsFiniteSet(Slot), NEW t, TInv(t), Run(t), NEW a \in SharedSlot,
         NEW b \in SharedSlot, Unshared(t, a, b)
  PROVE  Frames(Holding(t), memoryArray, FreeBlocks, removed, leaked)'
<1>0. PICK H : H = Holding(t)
  OBVIOUS
<1>1. /\ Frames(H, memoryArray, FreeBlocks, removed, leaked) /\ a # b /\ H[a] = H[b] /\ H[a] # 0
      /\ memoryArray' = memoryArray \ {H[a]}
      /\ usedBlocks' = (usedBlocks - Cardinality({a, b})) % UINT32
      /\ Holding(t)' = Emptied(H, {a, b}) /\ removed' = removed + 1 /\ leaked' = leaked
  BY <1>0 DEF Unshared, Run
<1>2. Cardinality({a, b}) = 2
  <2>1. {a, b} = {b} \cup {a} /\ a \notin {b}
    BY <1>1
  <2>2. IsFiniteSet({b}) /\ Cardinality({b}) = 1
    BY FS_Singleton
  <2>3. Cardinality({b} \cup {a}) = 1 + 1
    BY <2>1, <2>2, FS_AddElement
  <2>4. Cardinality({a, b}) = 1 + 1
    BY <2>1, <2>3
  <2> QED
    BY <2>4, SMT
<1>3. usedBlocks' = (usedBlocks - 2) % UINT32
  BY <1>1, <1>2
<1>4. FreeBlocks' \in Nat /\ FreeBlocks' <= FreeBlocks + 2
  BY <1>3, CountGrows
<1>5. Frames(Emptied(H, {a, b}), memoryArray \ {H[a]}, FreeBlocks', removed + 1, leaked)
  BY <1>1, <1>4, GiveBackShared
<1> QED
  BY <1>1, <1>5

(* Every way in which frames change hands keeps them exclusive, counted    *)
(* and found.                                                              *)
LEMMA MovesSound ==
  ASSUME RegionPages = 1, IsFiniteSet(Slot), NEW t, TInv(t), Run(t), Moves(t)
  PROVE  Running(t)'
<1>1. Frames(Holding(t), memoryArray, FreeBlocks, removed, leaked)'
  <2>1. CASE Kept(t)
    BY <2>1 DEF Kept, Run
  <2>2. ASSUME NEW f \in Frame, Took(t, f)
        PROVE  Frames(Holding(t), memoryArray, FreeBlocks, removed, leaked)'
    BY <2>2, TookSound
  <2>3. ASSUME NEW a \in Slot \ {InCall}, NEW b \in Slot \ {InCall}, HandedOver(t, a, b)
        PROVE  Frames(Holding(t), memoryArray, FreeBlocks, removed, leaked)'
    BY <2>3, HandedOverSound
  <2>4. ASSUME NEW S \in SUBSET OwnSlot, NEW P \in SUBSET Slot, GaveBack(t, S, P)
        PROVE  Frames(Holding(t), memoryArray, FreeBlocks, removed, leaked)'
    BY <2>4, GaveBackSound
  <2>5. ASSUME NEW a \in SharedSlot, NEW b \in SharedSlot, Unshared(t, a, b)
        PROVE  Frames(Holding(t), memoryArray, FreeBlocks, removed, leaked)'
    BY <2>5, UnsharedSound
  <2> QED
    BY <2>1, <2>2, <2>3, <2>4, <2>5 DEF Moves
<1>2. ~failed' /\ Control(t)'
  BY DEF Moves
<1> QED
  BY <1>1, <1>2 DEF Running

(* After an allocation returned 0 no call goes on. *)
LEMMA GaveUpSound ==
  ASSUME IsFiniteSet(Slot), NEW t, Run(t), GaveUp(t)
  PROVE  Running(t)'
<1>1. FreeBlocks <= Cardinality(0..(Top - 1) \ memoryArray) + removed
  BY CountFromFrames DEF Run
<1>2. CountSound'
  BY <1>1 DEF GaveUp, CountSound, frameVars, FreeBlocks
<1> QED
  BY <1>2 DEF GaveUp, Running
-----------------------------------------------------------------------------
(***************************************************************************)
(* Boot.                                                                   *)
(***************************************************************************)
LEMMA RegionSize ==
  ASSUME NEW r \in MemoryMap \cup Protected
  PROVE  IsFiniteSet(Region(r)) /\ Cardinality(Region(r)) = r.blocks /\ r.blocks \in Nat
<1>1. r.base \in Nat /\ r.blocks \in Nat
  BY MemoryAssumption, SizeAssumption
<1> DEFINE b == r.base
           e == r.base + r.blocks - 1
<1>2. b \in Int /\ e \in Int /\ e = b + r.blocks - 1 /\ Region(r) = b..e
  BY <1>1, SMT DEF Region
<1> HIDE DEF b, e
<1>3. IsFiniteSet(b..e) /\ Cardinality(b..e) = IF b > e THEN 0 ELSE e - b + 1
  BY <1>2, FS_Interval
<1> QED
  BY <1>1, <1>2, <1>3, SMT

LEMMA MapFinite ==
  ASSUME NEW S \in SUBSET Available
  PROVE  IsFiniteSet(S) /\ Cardinality(S) \in Nat /\ Cardinality(S) <= Top
<1>1. IsFiniteSet(0..(Top - 1)) /\ Cardinality(0..(Top - 1)) = Top
  BY SizeAssumption, FS_Interval, SMT
<1>2. S \in SUBSET (0..(Top - 1))
  BY SizeAssumption
<1> QED
  BY <1>1, <1>2, FS_Subset, FS_CardinalityType, ZenonT(30)

LEMMA BootInitially ==
  ASSUME NEW t, Thread = {t}, NEW k, NEW m, BootFits(k, m), BitmapCoversHoles, Init
  PROVE  Booting(t, k, m)
<1>1. /\ live = {} /\ work[t] = <<>> /\ call[t].at = "none"
      /\ ~failed /\ removed = 0 /\ leaked = {}
  BY DEF Init, MemoryInit, NoCall
<1>2. \A p \in Process : Absent(p)
  BY DEF Init, Absent, Mapped, NoEntry
<1>3. Clear(memoryArray) \subseteq Available
  <2>1. (0..(8 * (maximumBlocks \div 8) - 1)) \cap (0..(Top - 1)) \subseteq memoryArray
    BY DEF Init, MemoryInit
  <2> QED
    BY <2>1 DEF Clear, BitmapCoversHoles
<1>4. todo.free = MemoryMap /\ todo.used = Protected
  BY DEF Init, MemoryInit
<1>5. Freed = {} /\ Marked = {}
  BY <1>4 DEF Freed, Marked
<1>6. FreeBlocks = 0
  <2>1. usedBlocks = maximumBlocks
    BY DEF Init, MemoryInit
  <2> QED
    BY <2>1, SizeAssumption, SMT DEF FreeBlocks
<1>7. CountedUsed(k, m) = 0
  BY <1>4, SMT DEF CountedUsed, BootFits
<1>8. Cardinality(Freed) = 0
  BY <1>5, FS_EmptySet
<1>9. (Cardinality(Freed) - CountedUsed(k, m)) % UINT32 = 0
  BY <1>7, <1>8, SizeAssumption, SMT
<1> QED
  BY <1>1, <1>2, <1>3, <1>4, <1>5, <1>6, <1>9 DEF Booting

LEMMA BootCounts ==
  ASSUME NEW k, NEW m, BootFits(k, m)
  PROVE  /\ k \in Protected /\ m \in Protected /\ Protected = {k, m}
         /\ k.blocks \in Nat /\ m.blocks \in Nat /\ CountedUsed(k, m) \in Nat
<1>1. k \in Protected /\ m \in Protected /\ Protected = {k, m}
  BY DEF BootFits
<1>2. k.blocks \in Nat /\ m.blocks \in Nat
  BY <1>1, RegionSize
<1> QED
  BY <1>1, <1>2, SMT DEF CountedUsed

LEMMA RegionFreed ==
  ASSUME NEW t, Thread = {t}, NEW k, NEW m, BootFits(k, m), TInv(t), Booting(t, k, m),
         NEW r \in MemoryMap, SetRegionFree(r), UNCHANGED <<spaceVars, work, failed, removed, leaked>>
  PROVE  Booting(t, k, m)'
<1>1. /\ r \in todo.free /\ todo.free \subseteq MemoryMap /\ todo.used = Protected
      /\ todo'.free = todo.free \ {r} /\ todo'.used = todo.used
      /\ memoryArray' = (memoryArray \ Region(r)) \cup {0} /\ call' = call
      /\ usedBlocks' = (usedBlocks - r.blocks) % UINT32 /\ usedBlocks \in Int
      /\ memoryArray \subseteq 0..(Top - 1)
  BY SizeAssumption, SMT DEF SetRegionFree, TInv, TypeOK, MemoryTypeOK, Booting
<1>2. /\ live' = {} /\ work'[t] = <<>> /\ call'[t].at = "none"
      /\ ~failed' /\ removed' = 0 /\ leaked' = {}
  BY <1>1 DEF Booting, spaceVars
<1>3. \A p \in Process : Absent(p)'
  BY DEF Booting, Absent, Mapped, spaceVars
<1>4. Region(r) \subseteq Available
  BY DEF Available
<1>5. Clear(memoryArray)' \subseteq Available
  BY <1>1, <1>4 DEF Clear, Booting
<1>6. Marked' = {} /\ Marked = {}
  BY <1>1 DEF Marked
<1>7. Freed' = Freed \cup Region(r)
  <2>1. MemoryMap \ todo'.free = (MemoryMap \ todo.free) \cup {r}
    BY <1>1
  <2> QED
    BY <2>1 DEF Freed
<1>8. Freed \cap Region(r) = {}
  <2>1. \A s \in MemoryMap \ todo.free : Region(s) \cap Region(r) = {}
    BY <1>1, MemoryAssumption, SizeAssumption
  <2> QED
    BY <2>1 DEF Freed
<1>9. memoryArray' \cap Freed' \subseteq Marked' \cup {0}
  BY <1>1, <1>6, <1>7 DEF Booting
<1>10. Freed \in SUBSET Available
  BY DEF Freed, Available
<1> DEFINE a == Cardinality(Freed)
           c == CountedUsed(k, m)
<1>11. a \in Nat /\ c \in Nat /\ r.blocks \in Nat
  BY <1>10, MapFinite, BootCounts, RegionSize
<1>12. Cardinality(Freed') = a + r.blocks
  <2>1. IsFiniteSet(Freed) /\ IsFiniteSet(Region(r)) /\ Cardinality(Region(r)) = r.blocks
    BY <1>10, MapFinite, RegionSize
  <2> QED
    BY <1>7, <1>8, <2>1, DisjointUnion
<1>13. CountedUsed(k, m)' = c
  BY <1>1 DEF CountedUsed
<1> HIDE DEF a, c
<1>14. FreeBlocks' = (a + r.blocks - c) % UINT32
  <2>1. FreeBlocks = (a - c) % UINT32
    BY DEF Booting, a, c
  <2>2. -r.blocks \in Int /\ usedBlocks - r.blocks = usedBlocks + (-r.blocks)
    BY <1>1, <1>11, SMT
  <2>3. FreeBlocks' = (FreeBlocks - (-r.blocks)) % UINT32 /\ FreeBlocks \in 0..(UINT32 - 1)
    BY <1>1, <2>2, FreeBlocksChange
  <2>4. FreeBlocks - (-r.blocks) = FreeBlocks + r.blocks
    BY <1>11, <2>3, SMT
  <2>5. a - c \in Int /\ (a - c) + r.blocks = a + r.blocks - c
    BY <1>11, SMT
  <2>6. (((a - c) % UINT32) + r.blocks) % UINT32 = ((a - c) + r.blocks) % UINT32
    <3> DEFINE x == a - c
               y == r.blocks
    <3>1. x \in Int /\ y \in Int
      BY <1>11, SMT
    <3> HIDE DEF x, y
    <3>2. ((x % UINT32) + y) % UINT32 = (x + y) % UINT32
      BY <3>1, ModAdd, SizeAssumption
    <3> QED
      BY <3>2 DEF x, y
  <2> QED
    BY <2>1, <2>3, <2>4, <2>5, <2>6
<1>15. FreeBlocks' = (Cardinality(Freed') - CountedUsed(k, m)') % UINT32
  <2> DEFINE x == Cardinality(Freed')
             y == CountedUsed(k, m)'
  <2>1. x = a + r.blocks /\ y = c
    BY <1>12, <1>13
  <2> HIDE DEF x, y
  <2>2. FreeBlocks' = (x - y) % UINT32
    BY <1>11, <1>14, <2>1, SizeAssumption, SMT
  <2> QED
    BY <2>2 DEF x, y
<1>16. 0 \in memoryArray' /\ todo'.used = Protected
  BY <1>1
<1> QED
  BY <1>2, <1>3, <1>5, <1>6, <1>9, <1>15, <1>16, ZenonT(30) DEF Booting
LEMMA RegionMarked ==
  ASSUME NEW t, Thread = {t}, NEW k, NEW m, BootFits(k, m), TInv(t), Booting(t, k, m),
         NEW r \in Protected, SetRegionUsed(r), UNCHANGED <<spaceVars, work, failed, removed, leaked>>
  PROVE  Booting(t, k, m)'
<1>1. /\ r \in todo.used /\ todo.free = {} /\ todo.used \subseteq Protected
      /\ todo'.used = todo.used \ {r} /\ todo'.free = todo.free
      /\ memoryArray' = memoryArray \cup Region(r) \cup {0} /\ call' = call
      /\ usedBlocks' = (usedBlocks + r.blocks) % UINT32 /\ usedBlocks \in Int
  BY SizeAssumption, SMT DEF SetRegionUsed, TInv, TypeOK, MemoryTypeOK
<1>2. /\ live' = {} /\ work'[t] = <<>> /\ call'[t].at = "none"
      /\ ~failed' /\ removed' = 0 /\ leaked' = {}
  BY <1>1 DEF Booting, spaceVars
<1>3. \A p \in Process : Absent(p)'
  BY DEF Booting, Absent, Mapped, spaceVars
<1>4. Clear(memoryArray)' \subseteq Available
  BY <1>1 DEF Clear, Booting
<1>5. Marked' = Marked \cup Region(r)
  <2>1. Protected \ todo'.used = (Protected \ todo.used) \cup {r}
    BY <1>1
  <2> QED
    BY <2>1 DEF Marked
<1>6. Freed' = Freed
  BY <1>1 DEF Freed
<1>7. Marked' \subseteq memoryArray' /\ memoryArray' \cap Freed' \subseteq Marked' \cup {0}
  BY <1>1, <1>5, <1>6 DEF Booting
<1>8. Freed \in SUBSET Available
  BY DEF Freed, Available
<1> DEFINE a == Cardinality(Freed)
           c == CountedUsed(k, m)
           d == CountedUsed(k, m)'
           b == r.blocks
<1>9. a \in Nat /\ c \in Nat /\ b \in Nat /\ k.blocks \in Nat /\ m.blocks \in Nat
      /\ Protected = {k, m}
  BY <1>8, MapFinite, BootCounts, RegionSize
<1>10. d = c + b
  <2>1. CASE r = k
    <3>1. k \in todo.used /\ k \notin todo'.used /\ (m # k => (m \in todo'.used <=> m \in todo.used))
      BY <1>1, <2>1
    <3> QED
      BY <1>9, <2>1, <3>1, SMT DEF CountedUsed
  <2>2. CASE r # k
    <3>1. r = m /\ m # k
      BY <1>9, <2>2
    <3>2. m \in todo.used /\ m \notin todo'.used /\ (k \in todo'.used <=> k \in todo.used)
      BY <1>1, <3>1
    <3> QED
      BY <1>9, <3>1, <3>2, SMT DEF CountedUsed
  <2> QED
    BY <2>1, <2>2
<1>11. FreeBlocks = (a - c) % UINT32
  BY DEF Booting
<1>12. FreeBlocks' = (FreeBlocks - b) % UINT32 /\ FreeBlocks \in 0..(UINT32 - 1)
  BY <1>1, <1>9, FreeBlocksChange, SMT
<1> HIDE DEF a, b, c, d
<1>13. FreeBlocks' = (a - d) % UINT32
  <2> DEFINE x == a - c
             y == -b
  <2>1. x \in Int /\ y \in Int /\ x + y = a - d
    BY <1>9, <1>10, SMT
  <2>2. FreeBlocks - b = FreeBlocks + y /\ FreeBlocks = x % UINT32
    BY <1>9, <1>11, <1>12
  <2> HIDE DEF x, y
  <2>3. ((x % UINT32) + y) % UINT32 = (x + y) % UINT32
    BY <2>1, ModAdd, SizeAssumption
  <2> QED
    BY <1>12, <2>1, <2>2, <2>3
<1>14. FreeBlocks' = (Cardinality(Freed') - CountedUsed(k, m)') % UINT32
  <2>1. Cardinality(Freed') = a
    BY <1>6 DEF a
  <2> QED
    BY <1>13, <2>1 DEF d
<1>15. 0 \in memoryArray' /\ todo'.free = {}
  BY <1>1
<1> QED
  BY <1>2, <1>3, <1>4, <1>7, <1>14, <1>15, ZenonT(30) DEF Booting

(* No slot holds a frame when the kernel has booted. *)
LEMMA BootEnd ==
  ASSUME RegionPages = 1, NEW t, Thread = {t}, NEW k, NEW m, BootFits(k, m),
         TInv(t), Booting(t, k, m), Booted
  PROVE  Running(t)
<1>1. /\ live = {} /\ work[t] = <<>> /\ call[t].at = "none" /\ ~failed /\ removed = 0
      /\ leaked = {} /\ \A p \in Process : Absent(p)
      /\ todo.free = {} /\ todo.used = {} /\ memoryArray \subseteq 0..(Top - 1)
  BY DEF Booting, Booted, TInv, TypeOK, MemoryTypeOK
<1>2. \A u \in Process \X Page : ~Mapped(u)
  BY <1>1, SMT DEF Absent, Mapped
<1>3. Control(t)
  <2>1. Len(work[t]) = 0
    BY <1>1, SMT
  <2>2. WorkSound(work[t])
    BY <2>1, SMT DEF WorkSound
  <2>3. Covered(t)
    <3>1. \A u : ~ToMap(work[t], u) /\ ~Grows(work[t], u)
      BY <2>1, SMT DEF ToMap, Grows
    <3>2. \A p \in Process, page \in OwnPage : ~Mapped(<<p, page>>)
      BY <1>2 DEF OwnPage, Page
    <3> QED
      BY <1>1, <3>1, <3>2 DEF Covered
  <2>4. CallSound(t)
    BY <1>1 DEF CallSound
  <2> QED
    BY <1>1, <1>2, <2>2, <2>3, <2>4 DEF Control
<1> DEFINE H == Holding(t)
<1>4. H \in [Slot -> Frame] /\ \A u \in Slot : H[u] = 0
  <2>1. 0 \in Frame
    BY SizeAssumption, SMT DEF Frame
  <2>2. \A u \in Slot : Held(t, u) = 0
    <3>1. Held(t, InCall) = 0
      BY <1>1 DEF Held
    <3>2. \A p \in Process, d \in Table : Held(t, <<p, d>>) = 0
      BY <1>1 DEF Held, Absent, InCall
    <3>3. \A u : ~Sharing(work[t], u)
      BY <1>1, SMT DEF Sharing
    <3>4. \A p \in Process, d \in Page \ Table : Held(t, <<p, d>>) = 0
      BY <1>2, <3>3 DEF Held, InCall
    <3> QED
      BY <3>1, <3>2, <3>4, SMT DEF Slot
  <2> QED
    BY <2>1, <2>2 DEF Holding
<1> HIDE DEF H
<1>5. Clear(memoryArray) = Usable
  <2>1. MemoryMap # {}
    BY MemoryAssumption, SizeAssumption DEF Available
  <2>2. 0 \in memoryArray
    BY <1>1, <2>1 DEF Booting
  <2>3. Freed = Available
    BY <1>1 DEF Freed, Available
  <2>4. Marked = UNION {Region(r) : r \in Protected}
    BY <1>1 DEF Marked
  <2>5. Clear(memoryArray) \subseteq Available /\ Marked \subseteq memoryArray
        /\ memoryArray \cap Freed \subseteq Marked \cup {0}
    BY DEF Booting
  <2> QED
    BY <2>2, <2>3, <2>4, <2>5, SizeAssumption DEF Usable, Clear
<1>6. HeldOK(H, memoryArray, removed)
  BY <1>1, <1>4, <1>5 DEF HeldOK
<1>7. Found(H, memoryArray, leaked)
  BY <1>5 DEF Found, Clear
<1> DEFINE K == Region(k) \cup Region(m)
           a == Cardinality(Available)
           c == Cardinality(Clear(memoryArray))
           b == CountedUsed(k, m)
<1>8. IsFiniteSet(K) /\ Cardinality(K) \in Nat /\ Cardinality(K) <= b /\ b \in Nat /\ b <= a
  <2>1. k \in Protected /\ m \in Protected
    BY BootCounts
  <2>2. /\ IsFiniteSet(Region(k)) /\ Cardinality(Region(k)) = k.blocks /\ k.blocks \in Nat
        /\ IsFiniteSet(Region(m)) /\ Cardinality(Region(m)) = m.blocks /\ m.blocks \in Nat
    BY <2>1, RegionSize
  <2>3. b = k.blocks + (IF m = k THEN 0 ELSE m.blocks)
    BY <1>1 DEF CountedUsed
  <2>4. b \in Nat /\ b <= a
    BY <2>2, <2>3, SMT DEF BootFits
  <2>5. IsFiniteSet(K)
    BY <2>2, FS_Union
  <2>6. Cardinality(K) \in Nat
    BY <2>5, FS_CardinalityType
  <2>7. CASE m = k
    <3>1. K = Region(k)
      BY <2>7
    <3>2. Cardinality(K) = Cardinality(Region(k))
      BY <3>1
    <3> HIDE DEF K, a, b
    <3> QED
      BY <2>2, <2>3, <2>4, <2>5, <2>7, <3>2, SMTT(30)
  <2>8. CASE m # k
    <3>1. IsFiniteSet(Region(k) \cap Region(m)) /\ Cardinality(Region(k) \cap Region(m)) \in Nat
      BY <2>2, FS_Intersection, FS_CardinalityType
    <3>2. Cardinality(Region(k) \cup Region(m))
            = Cardinality(Region(k)) + Cardinality(Region(m)) - Cardinality(Region(k) \cap Region(m))
      BY <2>2, FS_Union
    <3>3. Cardinality(K) <= b
      BY <2>2, <2>3, <2>8, <3>1, <3>2, SMT
    <3> QED
      BY <2>4, <2>5, <2>6, <3>3
  <2> QED
    BY <2>7, <2>8
<1>9. a \in Nat /\ a <= Top /\ c \in Nat /\ a - b <= c
  <2>1. IsFiniteSet(Available) /\ a \in Nat /\ a <= Top
    BY MapFinite
  <2>2. Available \ K = Usable
    <3>1. UNION {Region(r) : r \in Protected} = K /\ 0 \in K
      BY DEF BootFits
    <3> QED
      BY <3>1 DEF Usable
  <2>3. /\ IsFiniteSet(Available \ K)
        /\ Cardinality(Available \ K) = Cardinality(Available) - Cardinality(Available \cap K)
    BY <2>1, FS_Difference
  <2>4. IsFiniteSet(Available \cap K) /\ Cardinality(Available \cap K) \in Nat
        /\ Cardinality(Available \cap K) <= Cardinality(K)
    <3>1. Available \cap K \in SUBSET K
      OBVIOUS
    <3> QED
      BY <1>8, <3>1, FS_Subset, FS_CardinalityType
  <2>5. c = Cardinality(Available \ K)
    BY <1>5, <2>2
  <2>6. c \in Nat
    BY <2>3, <2>5, FS_CardinalityType
  <2> HIDE DEF a, b, c, K
  <2>7. c = a - Cardinality(Available \cap K)
    BY <2>3, <2>5 DEF a
  <2> QED
    BY <1>8, <2>1, <2>4, <2>6, <2>7, SMT
<1>10. FreeBlocks = (a - b) % UINT32
  BY <1>1 DEF Booting, Freed, Available
<1>11. Beyond(H) = {} /\ BeyondOwn(H) = {}
  BY <1>4, SizeAssumption, SMT DEF Beyond, BeyondOwn, OwnSlot
<1>12. Cardinality(Beyond(H)) = 0 /\ Cardinality(BeyondOwn(H)) = 0
  BY <1>11, FS_EmptySet
<1> HIDE DEF a, b, c, K
<1>13. FreeBlocks = a - b /\ FreeBlocks \in Nat
  <2> DEFINE x == a - b
  <2>1. x \in Nat /\ x < UINT32
    BY <1>8, <1>9, SizeAssumption, SMT
  <2> HIDE DEF x
  <2>2. x % UINT32 = x
    BY <2>1, SizeAssumption, SMT
  <2> QED
    BY <1>10, <2>1, <2>2 DEF x
<1>14. Paid(H, memoryArray, FreeBlocks, removed)
  <2>1. 2 * FreeBlocks + Cardinality(Beyond(H)) + Cardinality(BeyondOwn(H)) <= 2 * (c + removed)
    BY <1>1, <1>8, <1>9, <1>12, <1>13, SMT
  <2> QED
    BY <1>1, <1>13, <2>1 DEF Paid, c
<1> QED
  BY <1>1, <1>3, <1>6, <1>7, <1>14 DEF Running, Frames, H
=============================================================================
