---------------------------- MODULE AddressSteps -----------------------------
(***************************************************************************)
(* What each call of AddressSpace and each step of it does to the frames   *)
(* that are held, and that it keeps what is known about calls, when a      *)
(* region is one page long.                                                *)
(***************************************************************************)
EXTENDS AddressInvariant, TLAPS

(* Zenon proves the steps that name no prover. *)
USE Zenon
-----------------------------------------------------------------------------
(***************************************************************************)
(* The steps of a call.                                                    *)
(***************************************************************************)
LEMMA SlotFacts ==
  ASSUME RegionPages = 1
  PROVE  /\ InCall \in Slot /\ InCall \notin SharedSlot /\ InCall \in OwnSlot
         /\ SharedSlot \subseteq Slot /\ Process \X (Page \cup Table) \subseteq Slot
         /\ \A u \in Process \X (Page \cup Table) : u # InCall
         /\ \A d \in Table : d \notin Page
         /\ \A p \in Process, d \in Table : <<p, d>> \notin SharedSlot
         /\ \A p \in Process, page \in OwnPage : page \in Page /\ <<p, page>> \notin SharedSlot
<1>1. \A u \in Process \X (Page \cup Table) : u # <<>>
  BY SMT
<1>2. SharedPage \in Page
  BY SMT DEF SharedPage, Page, Pages
<1>3. \A d \in Table : d[2] = 0
  BY SMT DEF Table, TableOf
<1>4. \A page \in Page : page[2] # 0
  BY AddressAssumption, SizeAssumption, SMT DEF Page, Pages
<1>5. \A page \in OwnPage : page \in Page /\ page # SharedPage
  BY SMT DEF OwnPage, Page, Pages, SharedPage
<1>6. \A d \in Table : d \notin Page
  BY <1>3, <1>4
<1> QED
  BY <1>1, <1>2, <1>5, <1>6, SMT DEF InCall, Slot, SharedSlot, OwnSlot

LEMMA SlotCases ==
  ASSUME NEW u \in Slot, u # InCall
  PROVE  u \in Process \X (Page \cup Table) /\ u = <<u[1], u[2]>> /\ u[1] \in Process
         /\ u[2] \in Page \cup Table
BY SMT DEF Slot

LEMMA HoldsSame ==
  ASSUME RegionPages = 1, NEW t, UNCHANGED <<table, entry, work>>,
         NEW f, Held(t, InCall)' = f
  PROVE  Holding(t)' = [Holding(t) EXCEPT ![InCall] = f]
<1>1. \A u \in Slot : u # InCall => Held(t, u)' = Held(t, u)
  BY DEF Held, Mapped, FrameOf, Sharing, Item1
<1>2. Held(t, InCall)' = f /\ InCall \in Slot
  BY SlotFacts
<1>3. Holding(t) = [u \in Slot |-> Held(t, u)] /\ Holding(t)' = [u \in Slot |-> Held(t, u)']
  BY DEF Holding
<1> QED
  BY <1>1, <1>2, <1>3

LEMMA ControlSame ==
  ASSUME NEW t, Control(t), UNCHANGED <<live, entry, heapEnd, threads, work>>,
         \A p \in Process \ live : Absent(p)', CallSound(t)'
  PROVE  Control(t)'
<1>1. WorkSound(work[t])'
  <2>1. \A k : ItemSound(work[t], k)' <=> ItemSound(work[t], k)
    BY SMT DEF ItemSound, Mapped, ItemSlot
  <2>2. WorkSound(work[t])
    BY DEF Control
  <2> QED
    BY <2>1, <2>2, SMT DEF WorkSound, ItemSlot
<1>2. Covered(t)'
  BY SMT DEF Control, Covered, Mapped, ToMap, Grows, Owned, ItemSlot, HeapPages
<1>3. \A u \in Process \X Page : Mapped(u)' => FrameOf(u)' # 0
  BY DEF Control, Mapped, FrameOf
<1>4. \A p \in Process \ live' : Absent(p)'
  OBVIOUS
<1> QED
  BY <1>1, <1>2, <1>3, <1>4 DEF Control

LEMMA RunTypes ==
  ASSUME NEW t, Thread = {t}, TInv(t)
  PROVE  /\ call \in [Thread -> [at : {"none", "search", "claim", "done"}, size : 0..MaxSize,
                                 frame : Frame]]
         /\ t \in Thread /\ call[t].frame \in Frame /\ usedBlocks \in Int
         /\ FreeBlocks \in Nat /\ FreeBlocks < UINT32 /\ memoryArray \subseteq 0..(Top - 1)
<1>1. usedBlocks \in Int /\ maximumBlocks - usedBlocks \in Int
  BY SizeAssumption, SMT DEF TInv, TypeOK, MemoryTypeOK
<1>2. FreeBlocks \in Nat /\ FreeBlocks < UINT32
  BY <1>1, SizeAssumption, SMT DEF FreeBlocks
<1> QED
  BY <1>1, <1>2 DEF TInv, TypeOK, MemoryTypeOK

LEMMA AllocateSound ==
  ASSUME RegionPages = 1, NEW t, Thread = {t}, TInv(t), Run(t), Allocate(t)
  PROVE  Moves(t)
<1>1. /\ call[t].at = "none" /\ UNCHANGED <<spaceVars, work, failed, removed, leaked, frameVars>>
      /\ \/ FreeBlocks > 0 /\ call'[t].at = "search" /\ call'[t].frame = 0
         \/ call'[t].at = "done" /\ call'[t].frame = 0
  <2> DEFINE ranged == Item1(t).op = "region"
             size == IF ranged THEN RegionPages ELSE 1
  <2>1. size = 1 /\ Start(t, size, ranged)
    BY DEF Allocate
  <2> HIDE DEF ranged, size
  <2> DEFINE enough == IF ranged THEN FreeBlocks > size ELSE FreeBlocks > 0
  <2>2. call'[t] = [at |-> IF enough THEN "search" ELSE "done", size |-> size, frame |-> 0]
    BY <2>1, RunTypes DEF Start
  <2>3. enough => FreeBlocks > 0
    BY <2>1, RunTypes, SMT
  <2> HIDE DEF enough
  <2> QED
    BY <2>1, <2>2, <2>3, SMT DEF Start, Allocate
<1>2. FreeBlocks' = FreeBlocks /\ memoryArray' = memoryArray
  BY <1>1 DEF frameVars, FreeBlocks
<1>3. CallSound(t)'
  BY <1>1, <1>2 DEF CallSound
<1>4. Control(t)'
  <2>1. \A p \in Process \ live : Absent(p)'
    BY <1>1 DEF Run, Control, Absent, Mapped, spaceVars
  <2> QED
    BY <1>1, <1>3, <2>1, ControlSame DEF Run, spaceVars
<1>5. Holding(t)' = Holding(t)
  <2>1. Held(t, InCall)' = 0 /\ Held(t, InCall) = 0
    BY <1>1 DEF Held
  <2>2. Holding(t)' = [Holding(t) EXCEPT ![InCall] = 0]
    BY <1>1, <2>1, HoldsSame DEF spaceVars
  <2> QED
    BY <2>1, <2>2, SlotFacts DEF Holding
<1>6. Kept(t) /\ ~failed'
  BY <1>1, <1>2, <1>5 DEF Kept, Run
<1> QED
  BY <1>4, <1>6 DEF Moves

LEMMA SearchSound ==
  ASSUME RegionPages = 1, NEW t, Thread = {t}, TInv(t), Run(t),
         Search(t), FirstClear(t), UNCHANGED <<spaceVars, work, failed, removed, leaked>>
  PROVE  Moves(t)
<1>1. call[t].at = "search" /\ UNCHANGED frameVars /\ call[t].size = 1
  BY DEF Search, TInv, CallTyped
<1>2. FreeBlocks' = FreeBlocks /\ memoryArray' = memoryArray
  BY <1>1 DEF frameVars, FreeBlocks
<1>3. FreeBlocks > 0 /\ call[t].frame = 0
  BY <1>1 DEF Run, Control, CallSound
<1>4. CallSound(t)' /\ Held(t, InCall)' = 0
  <2>1. CASE call' = [call EXCEPT ![t].at = "done"]
    <3>1. call'[t].at = "done" /\ call'[t].frame = 0
      BY <1>3, <2>1, RunTypes
    <3> QED
      BY <3>1 DEF CallSound, Held
  <2>2. ASSUME NEW f \in Frame, NEW F \in SUBSET Foreign,
               LET clear == (0..(Top - 1) \ memoryArray) \cup F IN
               /\ Enough(clear, f, call[t].size)
               /\ \A g \in Frame : Enough(clear, g, call[t].size) => f <= g
               /\ call' = [call EXCEPT ![t] = [@ EXCEPT !.at = "claim", !.frame = f]]
        PROVE  CallSound(t)' /\ Held(t, InCall)' = 0
    <3>1. call'[t].at = "claim" /\ call'[t].frame = f
      BY <2>2, RunTypes
    <3>2. f \in Clear(memoryArray) \cup F /\ \A g \in Frame : g \in Clear(memoryArray) => f <= g
      BY <1>1, <2>2 DEF Enough, Clear
    <3>3. \A g \in Foreign : g >= Top
      BY SizeAssumption, SMT DEF Foreign
    <3>4. \A g \in Clear(memoryArray) : g \in Frame /\ g < Top
      BY SizeAssumption, SMT DEF Clear, Frame
    <3>5. f \in Clear(memoryArray) \/ (Clear(memoryArray) = {} /\ f \in Foreign)
      <4> SUFFICES ASSUME f \notin Clear(memoryArray)
                   PROVE  Clear(memoryArray) = {} /\ f \in Foreign
        OBVIOUS
      <4>1. f \in Foreign /\ f >= Top /\ f \in Nat
        BY <3>2, <3>3, SizeAssumption, SMT DEF Frame
      <4>2. ASSUME NEW g \in Clear(memoryArray)
            PROVE  FALSE
        <5>1. g < Top /\ f <= g /\ g \in Nat
          BY <3>2, <3>4, SizeAssumption, SMT DEF Frame
        <5> QED
          BY <4>1, <5>1, SizeAssumption, SMT
      <4> QED
        BY <4>1, <4>2
    <3> QED
      BY <1>2, <1>3, <3>1, <3>5 DEF CallSound, Held
  <2> QED
    BY <2>1, <2>2 DEF FirstClear
<1>5. Control(t)'
  <2>1. \A p \in Process \ live : Absent(p)'
    BY DEF Run, Control, Absent, Mapped, spaceVars
  <2> QED
    BY <1>4, <2>1, ControlSame DEF Run, spaceVars
<1>6. Holding(t)' = Holding(t)
  <2>1. Held(t, InCall) = 0
    BY <1>1 DEF Held
  <2>2. Holding(t)' = [Holding(t) EXCEPT ![InCall] = 0]
    BY <1>4, HoldsSame DEF spaceVars
  <2> QED
    BY <2>1, <2>2, SlotFacts DEF Holding
<1>7. Kept(t) /\ ~failed'
  BY <1>2, <1>6 DEF Kept, Run
<1> QED
  BY <1>5, <1>7 DEF Moves

LEMMA ClaimSound ==
  ASSUME RegionPages = 1, NEW t, Thread = {t}, TInv(t), Run(t),
         Claim(t), UNCHANGED <<spaceVars, work, failed, removed, leaked>>
  PROVE  Moves(t)
<1> DEFINE f == call[t].frame
<1>1. /\ call[t].at = "claim" /\ call[t].size = 1 /\ f \in Frame
      /\ call'[t].at = "done" /\ call'[t].frame = f
  BY RunTypes DEF Claim, TInv, CallTyped
<1>2. memoryArray' = memoryArray \cup ({f} \cap 0..(Top - 1))
  <2>1. Claimed(t) = {f}
    BY <1>1, SizeAssumption, SMT DEF Claimed, Frame
  <2> QED
    BY <2>1 DEF Claim
<1>3. FreeBlocks > 0 /\ (f \in Clear(memoryArray) \/ (Clear(memoryArray) = {} /\ f \in Foreign))
  BY <1>1 DEF Run, Control, CallSound
<1>4. usedBlocks' = (usedBlocks + 1) % UINT32
  BY <1>1 DEF Claim
<1>5. Holding(t)' = [Holding(t) EXCEPT ![InCall] = f]
  <2>1. Held(t, InCall)' = f
    BY <1>1 DEF Held
  <2> QED
    BY <2>1, HoldsSame DEF spaceVars
<1>6. Holding(t)[InCall] = 0
  BY <1>1, SlotFacts DEF Holding, Held
<1>7. Took(t, f) /\ ~failed'
  BY <1>2, <1>3, <1>4, <1>5, <1>6 DEF Took, Run
<1>8. Control(t)'
  <2>1. \A p \in Process \ live : Absent(p)'
    BY DEF Run, Control, Absent, Mapped, spaceVars
  <2>2. CallSound(t)'
    BY <1>1 DEF CallSound
  <2> QED
    BY <2>1, <2>2, ControlSame DEF Run, spaceVars
<1> QED
  BY <1>1, <1>7, <1>8 DEF Moves


(* What is left after an item is done. *)
LEMMA TailItems ==
  ASSUME NEW w, WorkTyped(w), w # <<>>
  PROVE  /\ Len(w) \in Nat \ {0} /\ Head(w) = w[1] /\ ItemTyped(w[1])
         /\ Tail(w) \in Seq(ItemType) /\ Len(Tail(w)) = Len(w) - 1
         /\ \A i \in 1..(Len(w) - 1) : Tail(w)[i] = w[i + 1]
<1>1. w \in Seq(ItemType)
  BY DEF WorkTyped
<1>2. Len(w) \in Nat \ {0} /\ Head(w) = w[1]
  BY <1>1, SMT
<1>3. /\ Tail(w) \in Seq(ItemType) /\ Len(Tail(w)) = Len(w) - 1
      /\ \A i \in 1..(Len(w) - 1) : Tail(w)[i] = w[i + 1]
  BY <1>1, SMT
<1>4. 1 \in 1..Len(w)
  BY <1>2, SMT
<1> QED
  BY <1>2, <1>3, <1>4 DEF WorkTyped

(* The first item of a call. *)
LEMMA FirstItem ==
  ASSUME NEW t, TInv(t), Run(t), work[t] # <<>>
  PROVE  /\ WorkTyped(work[t]) /\ WorkSound(work[t]) /\ Item1(t) = work[t][1]
         /\ Len(work[t]) \in Nat \ {0} /\ 1 \in 1..Len(work[t])
         /\ ItemTyped(work[t][1]) /\ ItemSound(work[t], 1)
<1>1. WorkTyped(work[t]) /\ WorkSound(work[t])
  BY DEF TInv, Run, Control
<1>2. Len(work[t]) \in Nat \ {0} /\ Head(work[t]) = work[t][1] /\ ItemTyped(work[t][1])
  BY <1>1, TailItems
<1>3. 1 \in 1..Len(work[t])
  BY <1>2, SMT
<1> QED
  BY <1>1, <1>2, <1>3 DEF Item1, WorkSound

LEMMA NewTableSound ==
  ASSUME RegionPages = 1, NEW t, Thread = {t}, TInv(t), Run(t), NewTable(t)
  PROVE  GaveUp(t) \/ Moves(t)
<1>0. PICK i, f, u :
        i = work[t][1] /\ f = call[t].frame /\ u = <<work[t][1].proc, TableOf(work[t][1].page)>>
  OBVIOUS
<1>1. /\ call[t].at = "done" /\ call'[t] = NoCall /\ work[t] # <<>>
      /\ UNCHANGED <<frameVars, live, entry, heapEnd, threads, work, removed, leaked>>
      /\ failed' = (f = 0)
  BY <1>0, RunTypes DEF NewTable, Returned, Working
<1>2. /\ i = Item1(t) /\ i.op \in {"map", "share"} /\ i.proc \in live /\ i.proc \in Process
      /\ TableOf(i.page) \in Table /\ table[i.proc][TableOf(i.page)] = 0
      /\ table' = [table EXCEPT ![i.proc][TableOf(i.page)] = f]
  <2>1. i = Item1(t) /\ ItemTyped(i) /\ ItemSound(work[t], 1)
    BY <1>0, <1>1, FirstItem
  <2>2. NoTable(i) /\ table' = [table EXCEPT ![i.proc][TableOf(i.page)] = f]
    BY <1>0, <2>1 DEF NewTable
  <2>3. i.page \in Page
    BY <2>1 DEF ItemTyped, ItemType
  <2> QED
    BY <1>0, <2>1, <2>2, <2>3 DEF NoTable, ItemTyped, ItemSound, Table
<1>3. call'[t].at = "none"
  BY <1>1, SMT DEF NoCall
<1>4. CASE f = 0
  BY <1>1, <1>3, <1>4 DEF GaveUp
<1>5. CASE f # 0
  <2>1. table \in [Process -> [Table -> Frame]]
    BY DEF TInv, TypeOK
  <2>0. u = <<i.proc, TableOf(i.page)>> /\ f = call[t].frame
    BY <1>0
  <2>2. \A p \in Process, d \in Table :
           table'[p][d] = IF <<p, d>> = u THEN f ELSE table[p][d]
    BY <1>2, <2>0, <2>1
  <2>3. u \in Slot \ {InCall} /\ u \in OwnSlot /\ u[1] \in Process /\ u[2] \in Table
    BY <1>2, <2>0, SlotFacts DEF Slot, OwnSlot
  <2>4. Holding(t)[u] = 0 /\ Holding(t)[InCall] = f
    BY <1>1, <1>2, <2>0, <2>3, SlotFacts DEF Holding, Held
  <2>6. Holding(t)' = HandOver(Holding(t), {u, u})
    <3>1. Held(t, InCall)' = 0
      BY <1>3 DEF Held
    <3>2. \A v \in Slot : v # InCall /\ v # u => Held(t, v)' = Held(t, v)
      <4> SUFFICES ASSUME NEW v \in Slot, v # InCall, v # u
                   PROVE  Held(t, v)' = Held(t, v)
        OBVIOUS
      <4>1. v = <<v[1], v[2]>> /\ v[1] \in Process
        BY SlotCases
      <4>2. v[2] \in Table => table'[v[1]][v[2]] = table[v[1]][v[2]]
        BY <2>2, <4>1
      <4> QED
        BY <1>1, <4>2 DEF Held, Mapped, FrameOf, Sharing, Item1
    <3>3. Held(t, u)' = f
      BY <2>0, <2>2, <2>3 DEF Held
    <3>4. Holding(t)' = [v \in Slot |-> Held(t, v)'] /\ \A v \in Slot : Holding(t)[v] = Held(t, v)
      BY DEF Holding
    <3> QED
      BY <2>4, <3>1, <3>2, <3>3, <3>4 DEF HandOver
  <2>7. FreeBlocks' = FreeBlocks /\ memoryArray' = memoryArray /\ ~failed'
    BY <1>1, <1>5 DEF frameVars, FreeBlocks
  <2>8. Control(t)'
    <3>1. \A p \in Process \ live : Absent(p)'
      <4> SUFFICES ASSUME NEW p \in Process \ live
                   PROVE  Absent(p)'
        OBVIOUS
      <4>1. Absent(p)
        BY DEF Run, Control
      <4>2. \A d \in Table : table'[p][d] = table[p][d]
        BY <1>2, <2>0, <2>2, SMT
      <4> QED
        BY <1>1, <4>1, <4>2 DEF Absent, Mapped
    <3>2. CallSound(t)'
      BY <1>3 DEF CallSound
    <3> QED
      BY <1>1, <3>1, <3>2, ControlSame DEF Run
  <2>9. HandedOver(t, u, u)
    BY <1>1, <1>5, <2>3, <2>4, <2>6, <2>7 DEF HandedOver
  <2> QED
    BY <2>3, <2>7, <2>8, <2>9 DEF Moves
<1> QED
  BY <1>4, <1>5

LEMMA WorkNext ==
  ASSUME NEW t, NEW w, work'[t] = w, WorkSound(w)'
  PROVE  WorkSound(work[t])'
<1>1. \A k : ItemSound(w, k)' <=> ItemSound(work[t], k)'
  BY SMT DEF ItemSound
<1> QED
  BY <1>1 DEF WorkSound

LEMMA TailSound ==
  ASSUME NEW w, WorkTyped(w), w # <<>>, WorkSound(w), UNCHANGED <<live, heapEnd, threads>>,
         \A k \in 2..Len(w) : w[k].op \in {"map", "share"} => ~Mapped(ItemSlot(w[k]))'
  PROVE  WorkSound(Tail(w))'
<1>1. PICK v : v = Tail(w)
  OBVIOUS
<1>2. /\ Len(w) \in Nat \ {0} /\ Len(v) = Len(w) - 1
      /\ \A k \in 1..Len(v) : v[k] = w[k + 1] /\ k + 1 \in 1..Len(w) /\ k + 1 \in 2..Len(w)
  BY <1>1, TailItems, SMT
<1>3. ASSUME NEW k \in 1..Len(v)
      PROVE  ItemSound(v, k)'
  <2>1. PICK i, n : i = w[n] /\ n = k + 1
    OBVIOUS
  <2>2. /\ v[k] = i /\ n \in 1..Len(w) /\ n \in 2..Len(w) /\ Len(w) # 1 /\ ItemSound(w, n)
        /\ (k = Len(v) <=> n = Len(w))
    BY <1>2, <2>1, SMT DEF WorkSound
  <2>3. i.op \in {"map", "share"} => ~Mapped(ItemSlot(i))'
    BY <2>1, <2>2
  <2>4. i.op # "region"
    BY <2>1, <2>2 DEF ItemSound
  <2>5. i.op = "share" => \A j \in 1..Len(v) : v[j].op = "share" /\ v[j].frame = i.frame
    BY <1>2, <2>1, <2>2 DEF ItemSound
  <2> QED
    BY <2>1, <2>2, <2>3, <2>4, <2>5 DEF ItemSound
<1>4. \A j, k \in 1..Len(v) :
         j # k /\ v[j].op = v[k].op => ItemSlot(v[j]) # ItemSlot(v[k])
  <2> SUFFICES ASSUME NEW j \in 1..Len(v), NEW k \in 1..Len(v), j # k, v[j].op = v[k].op
               PROVE  ItemSlot(v[j]) # ItemSlot(v[k])
    OBVIOUS
  <2>1. j + 1 \in 1..Len(w) /\ k + 1 \in 1..Len(w) /\ v[j] = w[j + 1] /\ v[k] = w[k + 1]
    BY <1>2
  <2>2. j + 1 # k + 1
    BY SMT
  <2> QED
    BY <2>1, <2>2 DEF WorkSound
<1>5. WorkSound(v)'
  BY <1>3, <1>4 DEF WorkSound, ItemSlot
<1> QED
  BY <1>1, <1>5

LEMMA TailSlots ==
  ASSUME NEW w, WorkTyped(w), w # <<>>, NEW u
  PROVE  /\ ToMap(w, u) <=> (w[1].op = "map" /\ u = ItemSlot(w[1])) \/ ToMap(Tail(w), u)
         /\ Sharing(w, u) <=> (w[1].op = "share" /\ u = ItemSlot(w[1])) \/ Sharing(Tail(w), u)
         /\ w[1].op \notin {"heapEnd", "thread"} => (Grows(w, u) <=> Grows(Tail(w), u))
<1>1. PICK v : v = Tail(w)
  OBVIOUS
<1>2. /\ Len(w) \in Nat \ {0} /\ Len(v) = Len(w) - 1
      /\ \A k \in 1..Len(v) : v[k] = w[k + 1] /\ k + 1 \in 1..Len(w)
      /\ \A k \in 1..Len(w) : k = 1 \/ (k - 1 \in 1..Len(v) /\ w[k] = v[k - 1])
  <2>1. /\ Len(w) \in Nat \ {0} /\ Len(v) = Len(w) - 1
        /\ \A k \in 1..(Len(w) - 1) : v[k] = w[k + 1]
    BY <1>1, TailItems
  <2>2. ASSUME NEW k \in 1..Len(w), k # 1
        PROVE  k - 1 \in 1..Len(v) /\ w[k] = v[k - 1]
    <3>1. k - 1 \in 1..(Len(w) - 1) /\ (k - 1) + 1 = k
      BY <2>1, <2>2, SMT
    <3>2. v[k - 1] = w[(k - 1) + 1]
      BY <2>1, <3>1
    <3> QED
      BY <2>1, <3>1, <3>2
  <2> QED
    BY <2>1, <2>2, SMT
<1>3. 1 \in 1..Len(w)
  BY <1>2, SMT
<1>4. ToMap(w, u) <=> (w[1].op = "map" /\ u = ItemSlot(w[1])) \/ ToMap(v, u)
  <2>1. ASSUME ToMap(w, u)
        PROVE  (w[1].op = "map" /\ u = ItemSlot(w[1])) \/ ToMap(v, u)
    <3>1. PICK k \in 1..Len(w) : w[k].op = "map" /\ u = ItemSlot(w[k])
      BY <2>1 DEF ToMap
    <3>2. k = 1 \/ (k - 1 \in 1..Len(v) /\ w[k] = v[k - 1])
      BY <1>2
    <3> QED
      BY <3>1, <3>2 DEF ToMap
  <2>2. ASSUME ToMap(v, u)
        PROVE  ToMap(w, u)
    <3>1. PICK k \in 1..Len(v) : v[k].op = "map" /\ u = ItemSlot(v[k])
      BY <2>2 DEF ToMap
    <3>2. k + 1 \in 1..Len(w) /\ w[k + 1] = v[k]
      BY <1>2
    <3> QED
      BY <3>1, <3>2 DEF ToMap
  <2>3. w[1].op = "map" /\ u = ItemSlot(w[1]) => ToMap(w, u)
    BY <1>3 DEF ToMap
  <2> QED
    BY <2>1, <2>2, <2>3
<1>5. Sharing(w, u) <=> (w[1].op = "share" /\ u = ItemSlot(w[1])) \/ Sharing(v, u)
  <2>1. ASSUME Sharing(w, u)
        PROVE  (w[1].op = "share" /\ u = ItemSlot(w[1])) \/ Sharing(v, u)
    <3>1. PICK k \in 1..Len(w) : w[k].op = "share" /\ u = ItemSlot(w[k])
      BY <2>1 DEF Sharing, ItemSlot
    <3>2. k = 1 \/ (k - 1 \in 1..Len(v) /\ w[k] = v[k - 1])
      BY <1>2
    <3> QED
      BY <3>1, <3>2 DEF Sharing, ItemSlot
  <2>2. ASSUME Sharing(v, u)
        PROVE  Sharing(w, u)
    <3>1. PICK k \in 1..Len(v) : v[k].op = "share" /\ u = ItemSlot(v[k])
      BY <2>2 DEF Sharing, ItemSlot
    <3>2. k + 1 \in 1..Len(w) /\ w[k + 1] = v[k]
      BY <1>2
    <3> QED
      BY <3>1, <3>2 DEF Sharing, ItemSlot
  <2>3. w[1].op = "share" /\ u = ItemSlot(w[1]) => Sharing(w, u)
    BY <1>3 DEF Sharing, ItemSlot
  <2> QED
    BY <2>1, <2>2, <2>3
<1>6. w[1].op \notin {"heapEnd", "thread"} => (Grows(w, u) <=> Grows(v, u))
  <2>1. ASSUME w[1].op \notin {"heapEnd", "thread"}, Grows(w, u)
        PROVE  Grows(v, u)
    <3>1. PICK k \in 1..Len(w) :
             \/ w[k].op = "thread" /\ u = ItemSlot(w[k])
             \/ w[k].op = "heapEnd" /\ u \in HeapPages(w[k].proc, heapEnd[w[k].proc], w[k].page[2])
      BY <2>1 DEF Grows
    <3>2. k - 1 \in 1..Len(v) /\ w[k] = v[k - 1]
      BY <1>2, <2>1, <3>1
    <3> QED
      BY <3>1, <3>2 DEF Grows
  <2>2. ASSUME Grows(v, u)
        PROVE  Grows(w, u)
    <3>1. PICK k \in 1..Len(v) :
             \/ v[k].op = "thread" /\ u = ItemSlot(v[k])
             \/ v[k].op = "heapEnd" /\ u \in HeapPages(v[k].proc, heapEnd[v[k].proc], v[k].page[2])
      BY <2>2 DEF Grows
    <3>2. k + 1 \in 1..Len(w) /\ w[k + 1] = v[k]
      BY <1>2
    <3> QED
      BY <3>1, <3>2 DEF Grows
  <2> QED
    BY <2>1, <2>2
<1> QED
  BY <1>1, <1>4, <1>5, <1>6

LEMMA CoveredNext ==
  ASSUME NEW t, NEW v, work'[t] = v,
         \A p \in Process, page \in OwnPage :
            Mapped(<<p, page>>)' \/ ToMap(v, <<p, page>>)
              <=> (p \in live' /\ <<p, page>> \in Owned(p)') \/ Grows(v, <<p, page>>)'
  PROVE  Covered(t)'
<1>1. \A u : ToMap(work[t], u)' <=> ToMap(v, u)
  BY DEF ToMap, ItemSlot
<1>2. \A u : Grows(work[t], u)' <=> Grows(v, u)'
  BY DEF Grows, ItemSlot
<1> QED
  BY <1>1, <1>2 DEF Covered

(* One entry is filled in. *)
LEMMA EntryFilled ==
  ASSUME TypeOK, NEW u \in Process \X Page, NEW f, EntrySet(u, f)
  PROVE  \A v \in Process \X Page :
           IF v = u THEN Mapped(v)' /\ FrameOf(v)' = f
           ELSE (Mapped(v)' <=> Mapped(v)) /\ FrameOf(v)' = FrameOf(v)
<1>1. entry \in [Process -> [Page -> [frame : Frame, present : BOOLEAN]]]
  BY DEF TypeOK
<1>2. ASSUME NEW p \in Process, NEW page \in Page
      PROVE  entry'[p][page] = IF <<p, page>> = u THEN [frame |-> f, present |-> TRUE] ELSE entry[p][page]
  BY <1>1, SMT DEF EntrySet
<1> SUFFICES ASSUME NEW v \in Process \X Page
             PROVE  IF v = u THEN Mapped(v)' /\ FrameOf(v)' = f
                    ELSE (Mapped(v)' <=> Mapped(v)) /\ FrameOf(v)' = FrameOf(v)
  OBVIOUS
<1>3. entry'[v[1]][v[2]] = IF v = u THEN [frame |-> f, present |-> TRUE] ELSE entry[v[1]][v[2]]
  <2>1. v = <<v[1], v[2]>> /\ v[1] \in Process /\ v[2] \in Page
    BY SMT
  <2>2. entry'[v[1]][v[2]] = IF <<v[1], v[2]>> = u THEN [frame |-> f, present |-> TRUE] ELSE entry[v[1]][v[2]]
    BY <1>2, <2>1
  <2> QED
    BY <2>1, <2>2
<1> QED
  BY <1>3, SMT DEF Mapped, FrameOf

(* Control after a page of a running process was filled in. *)
LEMMA ControlFilled ==
  ASSUME RegionPages = 1, NEW t, TInv(t), Run(t), NEW w, w = work[t], w # <<>>,
         work'[t] = Tail(w), UNCHANGED <<live, table, heapEnd, threads>>,
         NEW i, i = w[1], i.op \in {"map", "share"}, NEW f, f # 0, EntrySet(ItemSlot(i), f), CallSound(t)'
  PROVE  Control(t)'
<1>1. /\ WorkTyped(w) /\ WorkSound(w) /\ Len(w) \in Nat \ {0} /\ 1 \in 1..Len(w)
      /\ ItemTyped(i) /\ ItemSound(w, 1)
  BY FirstItem
<1>2. i.proc \in live /\ i.proc \in Process /\ i.page \in Page
  BY <1>1 DEF ItemSound, ItemTyped, ItemType
<1>3. PICK u : u = ItemSlot(i)
  OBVIOUS
<1>4. u \in Process \X Page /\ u = <<i.proc, i.page>> /\ EntrySet(u, f)
  BY <1>2, <1>3 DEF ItemSlot
<1>5. \A v \in Process \X Page :
           IF v = u THEN Mapped(v)' /\ FrameOf(v)' = f
           ELSE (Mapped(v)' <=> Mapped(v)) /\ FrameOf(v)' = FrameOf(v)
  BY <1>4, EntryFilled DEF TInv
<1>6. WorkSound(work[t])'
  <2>1. ASSUME NEW k \in 2..Len(w), w[k].op \in {"map", "share"}
        PROVE  ~Mapped(ItemSlot(w[k]))'
    <3>1. k \in 1..Len(w) /\ k # 1 /\ ItemSound(w, k) /\ ItemTyped(w[k])
      BY <1>1, <2>1, SMT DEF WorkSound, WorkTyped
    <3>2. ~Mapped(ItemSlot(w[k])) /\ ItemSlot(w[k]) \in Process \X Page
      BY <2>1, <3>1 DEF ItemSound, ItemTyped, ItemType, ItemSlot
    <3>3. w[k].op = i.op
      <4>1. w[k].op = "share" => w[1].op = "share"
        BY <1>1, <3>1 DEF ItemSound
      <4>2. w[1].op = "share" => w[k].op = "share"
        BY <1>1, <3>1 DEF ItemSound
      <4> QED
        BY <2>1, <4>1, <4>2
    <3>4. ItemSlot(w[k]) # u
      BY <1>1, <1>3, <3>1, <3>3 DEF WorkSound
    <3> QED
      BY <1>5, <3>2, <3>4
  <2>2. WorkSound(Tail(w))'
    BY <1>1, <2>1, TailSound
  <2> QED
    BY <2>2, WorkNext
<1>7. Covered(t)'
  <2> SUFFICES ASSUME NEW p \in Process, NEW page \in OwnPage
               PROVE  Mapped(<<p, page>>)' \/ ToMap(Tail(w), <<p, page>>)
                       <=> (p \in live' /\ <<p, page>> \in Owned(p)') \/ Grows(Tail(w), <<p, page>>)'
    BY CoveredNext
  <2>1. PICK v : v = <<p, page>>
    OBVIOUS
  <2>2. v \in Process \X Page /\ v \notin SharedSlot
    BY <2>1, SlotFacts
  <2>3. Mapped(v) \/ ToMap(w, v) <=> (p \in live /\ v \in Owned(p)) \/ Grows(w, v)
    BY <2>1 DEF Run, Control, Covered
  <2>4. /\ ToMap(w, v) <=> (i.op = "map" /\ v = u) \/ ToMap(Tail(w), v)
        /\ Grows(w, v) <=> Grows(Tail(w), v)
    BY <1>1, <1>3, TailSlots
  <2>5. i.op = "share" => v # u
    BY <1>1, <1>4, <2>2, SMT DEF ItemSound, SharedSlot
  <2>6. Owned(p)' = Owned(p)
    BY DEF Owned
  <2>7. Grows(Tail(w), v)' <=> Grows(Tail(w), v)
    BY DEF Grows
  <2>8. Mapped(v)' \/ ToMap(Tail(w), v) <=> Mapped(v) \/ ToMap(w, v)
    BY <1>5, <2>2, <2>4, <2>5
  <2> QED
    BY <2>1, <2>3, <2>4, <2>6, <2>7, <2>8
<1>8. \A p \in Process \ live' : Absent(p)'
  <2> SUFFICES ASSUME NEW p \in Process \ live
               PROVE  Absent(p)'
    OBVIOUS
  <2>1. Absent(p)
    BY DEF Run, Control
  <2>2. \A page \in Page : Mapped(<<p, page>>)' <=> Mapped(<<p, page>>)
    BY <1>2, <1>4, <1>5
  <2> QED
    BY <2>1, <2>2 DEF Absent
<1>9. \A v \in Process \X Page : Mapped(v)' => FrameOf(v)' # 0
  BY <1>5 DEF Run, Control
<1> QED
  BY <1>6, <1>7, <1>8, <1>9 DEF Control

LEMMA AllocatePageSound ==
  ASSUME RegionPages = 1, NEW t, Thread = {t}, TInv(t), Run(t), AllocatePage(t)
  PROVE  GaveUp(t) \/ Moves(t)
<1>0. PICK w, i, f, u : w = work[t] /\ i = work[t][1] /\ f = call[t].frame /\ u = ItemSlot(work[t][1])
  OBVIOUS
<1>1. /\ call[t].at = "done" /\ call'[t] = NoCall /\ w # <<>> /\ i = Item1(t) /\ i.op = "map"
      /\ UNCHANGED <<frameVars, live, table, heapEnd, threads, removed, leaked>>
      /\ failed' = (f = 0) /\ work'[t] = Tail(w)
      /\ f # 0 => EntrySet(u, f)
  <2>1. work[t] # <<>> /\ call[t].at = "done" /\ call'[t] = NoCall
    BY RunTypes DEF AllocatePage, Returned, Working
  <2>2. i = Item1(t)
    BY <1>0, <2>1, FirstItem
  <2>3. work'[t] = Tail(w)
    BY <1>0 DEF AllocatePage, ItemDone, TInv
  <2>4. failed' = (f = 0)
    BY <1>0 DEF AllocatePage
  <2>5. f # 0 => EntrySet(u, f)
    BY <1>0, <2>2 DEF AllocatePage, EntrySet, ItemSlot
  <2>6. i.op = "map" /\ UNCHANGED <<frameVars, live, table, heapEnd, threads, removed, leaked>>
    BY <2>2 DEF AllocatePage
  <2> QED
    BY <1>0, <2>1, <2>2, <2>3, <2>4, <2>5, <2>6
<1>2. /\ WorkTyped(w) /\ WorkSound(w) /\ Len(w) \in Nat \ {0} /\ 1 \in 1..Len(w)
      /\ ItemTyped(i) /\ ItemSound(w, 1) /\ i = w[1]
  BY <1>0, <1>1, FirstItem
<1>3. call'[t].at = "none"
  BY <1>1, SMT DEF NoCall
<1>4. CASE f = 0
  BY <1>1, <1>3, <1>4 DEF GaveUp
<1>5. CASE f # 0
  <2>1. /\ u = <<i.proc, i.page>> /\ i.proc \in Process /\ i.page \in OwnPage /\ i.page \in Page
        /\ u \in Process \X Page /\ ~Mapped(u) /\ u \notin SharedSlot /\ i.page \notin Table
    BY <1>0, <1>1, <1>2, SlotFacts DEF ItemSound, ItemTyped, ItemSlot
  <2>2. u \in Slot \ {InCall} /\ u \in OwnSlot
    BY <2>1, SlotFacts DEF OwnSlot
  <2>3. \A v : ~Sharing(w, v) /\ ~Sharing(Tail(w), v)
    <3>1. \A k \in 1..Len(w) : w[k].op # "share"
      BY <1>1, <1>2 DEF WorkSound, ItemSound
    <3>2. \A v : ~Sharing(w, v)
      BY <3>1 DEF Sharing
    <3> QED
      BY <1>1, <1>2, <3>2, TailSlots
  <2>4. Holding(t)[u] = 0 /\ Holding(t)[InCall] = f
    <3>1. Held(t, u) = 0
      BY <1>0, <2>1, <2>2, <2>3, SMT DEF Held
    <3>2. Held(t, InCall) = f
      BY <1>0, <1>1 DEF Held
    <3> QED
      BY <2>2, <3>1, <3>2, SlotFacts DEF Holding
  <2>6. EntrySet(u, f)
    BY <1>1, <1>5
  <2>7. \A v \in Process \X Page :
           IF v = u THEN Mapped(v)' /\ FrameOf(v)' = f
           ELSE (Mapped(v)' <=> Mapped(v)) /\ FrameOf(v)' = FrameOf(v)
    BY <2>1, <2>6, EntryFilled, SMT DEF TInv
  <2>8. Holding(t)' = HandOver(Holding(t), {u, u})
    <3>1. Held(t, InCall)' = 0
      BY <1>3 DEF Held
    <3>2. \A v : ~Sharing(work[t], v)' /\ ~Sharing(work[t], v)
      BY <1>0, <1>1, <2>3 DEF Sharing
    <3>3. \A v \in Slot : v # InCall /\ v # u => Held(t, v)' = Held(t, v)
      <4> SUFFICES ASSUME NEW v \in Slot, v # InCall, v # u
                   PROVE  Held(t, v)' = Held(t, v)
        OBVIOUS
      <4>1. v[2] \notin Table => v \in Process \X Page
        BY SlotCases
      <4> QED
        BY <1>1, <2>7, <3>2, <4>1 DEF Held
    <3>4. Held(t, u)' = f
      BY <2>1, <2>2, <2>7 DEF Held
    <3>5. Holding(t)' = [v \in Slot |-> Held(t, v)'] /\ \A v \in Slot : Holding(t)[v] = Held(t, v)
      BY DEF Holding
    <3> QED
      BY <2>4, <3>1, <3>3, <3>4, <3>5 DEF HandOver
  <2>9. FreeBlocks' = FreeBlocks /\ memoryArray' = memoryArray /\ ~failed'
    BY <1>1, <1>5 DEF frameVars, FreeBlocks
  <2>10. Control(t)'
    <3>1. CallSound(t)'
      BY <1>3 DEF CallSound
    <3>2. EntrySet(ItemSlot(i), f) /\ i.op \in {"map", "share"}
      BY <1>0, <1>1, <2>6
    <3> QED
      BY <1>0, <1>1, <1>2, <1>5, <3>1, <3>2, ControlFilled
  <2>11. HandedOver(t, u, u)
    BY <1>1, <1>5, <2>2, <2>4, <2>8, <2>9 DEF HandedOver
  <2> QED
    BY <2>2, <2>9, <2>10, <2>11 DEF Moves
<1> QED
  BY <1>4, <1>5

LEMMA SharePageSound ==
  ASSUME RegionPages = 1, NEW t, Thread = {t}, TInv(t), Run(t), SharePage(t)
  PROVE  Moves(t)
<1>0. PICK w, i, f, u :
        w = work[t] /\ i = work[t][1] /\ f = work[t][1].frame /\ u = ItemSlot(work[t][1])
  OBVIOUS
<1>1. /\ w # <<>> /\ i = Item1(t) /\ i.op = "share" /\ work'[t] = Tail(w) /\ EntrySet(u, f)
      /\ UNCHANGED <<frameVars, call, live, table, heapEnd, threads, failed, removed, leaked>>
  <2>1. work[t] # <<>>
    BY DEF SharePage, Working
  <2>2. i = Item1(t)
    BY <1>0, <2>1, FirstItem
  <2>3. work'[t] = Tail(w)
    BY <1>0 DEF SharePage, ItemDone, TInv
  <2>4. EntrySet(u, f)
    BY <1>0, <2>2 DEF SharePage, EntrySet, ItemSlot
  <2>5. i.op = "share"
        /\ UNCHANGED <<frameVars, call, live, table, heapEnd, threads, failed, removed, leaked>>
    BY <2>2 DEF SharePage
  <2> QED
    BY <1>0, <2>1, <2>2, <2>3, <2>4, <2>5
<1>2. /\ WorkTyped(w) /\ WorkSound(w) /\ Len(w) \in Nat \ {0} /\ 1 \in 1..Len(w)
      /\ ItemTyped(i) /\ ItemSound(w, 1) /\ i = w[1]
  BY <1>0, <1>1, FirstItem
<1>3. /\ u = <<i.proc, i.page>> /\ i.proc \in Process /\ i.page = SharedPage /\ i.page \in Page
      /\ u \in Process \X Page /\ ~Mapped(u) /\ u \in SharedSlot /\ f # 0 /\ f = i.frame
      /\ u[2] \notin Table /\ u # InCall
  <2>1. /\ u = <<i.proc, i.page>> /\ i.proc \in Process /\ i.page = SharedPage /\ i.page \in Page
        /\ ~Mapped(u) /\ f # 0 /\ f = i.frame
    BY <1>0, <1>1, <1>2 DEF ItemSound, ItemTyped, ItemType, ItemSlot
  <2> QED
    BY <2>1, SlotFacts DEF SharedSlot
<1>4. \A k \in 1..Len(w) : w[k].op = "share" /\ w[k].frame = f
  BY <1>1, <1>2, <1>3 DEF ItemSound
<1>5. \A v \in Process \X Page :
           IF v = u THEN Mapped(v)' /\ FrameOf(v)' = f
           ELSE (Mapped(v)' <=> Mapped(v)) /\ FrameOf(v)' = FrameOf(v)
  BY <1>1, <1>3, EntryFilled, SMT DEF TInv
<1>6. Holding(t)' = Holding(t)
  <2>1. Held(t, InCall)' = Held(t, InCall)
    BY <1>1 DEF Held
  <2>2. Held(t, u)' = f
    BY <1>3, <1>5 DEF Held
  <2>3. Held(t, u) = f
    <3>1. Sharing(work[t], u) /\ Item1(t).frame = f
      BY <1>0, <1>1, <1>2, <1>3 DEF Sharing
    <3> QED
      BY <1>3, <3>1 DEF Held
  <2>4. \A v \in Slot : v # InCall /\ v # u => Held(t, v)' = Held(t, v)
    <3> SUFFICES ASSUME NEW v \in Slot, v # InCall, v # u
                 PROVE  Held(t, v)' = Held(t, v)
      OBVIOUS
    <3>1. v[2] \notin Table => v \in Process \X Page
      BY SlotCases
    <3>2. Sharing(w, v) <=> Sharing(Tail(w), v)
      BY <1>0, <1>1, <1>2, TailSlots
    <3>3. Sharing(work[t], v)' <=> Sharing(work[t], v)
      <4>1. Sharing(work[t], v)' <=> Sharing(Tail(w), v)
        BY <1>1 DEF Sharing
      <4> QED
        BY <1>0, <3>2, <4>1
    <3>4. Sharing(work[t], v)' => Item1(t)'.frame = Item1(t).frame
      <4> SUFFICES ASSUME Sharing(work[t], v)'
                   PROVE  Item1(t)'.frame = Item1(t).frame
        OBVIOUS
      <4>1. PICK x : x = Tail(w)
        OBVIOUS
      <4>2. x \in Seq(ItemType) /\ Len(x) = Len(w) - 1 /\ \A k \in 1..(Len(w) - 1) : x[k] = w[k + 1]
        BY <1>1, <1>2, <4>1, TailItems
      <4>3. Len(x) # 0
        BY <1>1, <4>1, <4>2, SMT DEF Sharing
      <4>4. 1 \in 1..(Len(w) - 1) /\ 1 + 1 \in 1..Len(w) /\ x # <<>>
        BY <1>2, <4>2, <4>3, SMT
      <4>5. Head(x) = x[1] /\ x[1] = w[1 + 1]
        BY <4>2, <4>4, SMT
      <4>6. Head(x).frame = f
        BY <1>4, <4>4, <4>5
      <4> QED
        BY <1>1, <1>3, <4>1, <4>6 DEF Item1
    <3> QED
      BY <1>1, <1>5, <3>1, <3>3, <3>4 DEF Held
  <2>5. \A v \in Slot : Held(t, v)' = Held(t, v)
    BY <2>1, <2>2, <2>3, <2>4
  <2> QED
    BY <2>5 DEF Holding
<1>7. FreeBlocks' = FreeBlocks /\ memoryArray' = memoryArray /\ ~failed'
  BY <1>1 DEF frameVars, FreeBlocks, Run
<1>8. Control(t)'
  <2>1. CallSound(t)'
    BY <1>1, <1>7 DEF CallSound, Run, Control
  <2>2. EntrySet(ItemSlot(i), f) /\ i.op \in {"map", "share"}
    BY <1>0, <1>1
  <2> QED
    BY <1>0, <1>1, <1>2, <1>3, <2>1, <2>2, ControlFilled
<1>9. Kept(t)
  BY <1>1, <1>6, <1>7 DEF Kept
<1> QED
  BY <1>7, <1>8, <1>9 DEF Moves

LEMMA HeapGrows ==
  ASSUME NEW p, NEW a \in Nat, NEW b \in Nat, a <= b, NEW page
  PROVE  /\ page \in Pages("heap", b) <=> page \in Pages("heap", a) \/ <<p, page>> \in HeapPages(p, a, b)
         /\ ~(page \in Pages("heap", a) /\ <<p, page>> \in HeapPages(p, a, b))
<1>1. <<p, page>> \in HeapPages(p, a, b) <=> \E i \in (a + 1)..b : page = <<"heap", i>>
  BY DEF HeapPages
<1>2. \A i : i \in 1..b <=> i \in 1..a \/ i \in (a + 1)..b
  BY SMT
<1>3. \A i \in 1..a, j \in (a + 1)..b : <<"heap", i>> # <<"heap", j>>
  BY SMT
<1> QED
  BY <1>1, <1>2, <1>3 DEF Pages

LEMMA StackGrows ==
  ASSUME NEW a \in Nat, NEW page
  PROVE  page \in Pages("stack", a + 1) <=> page \in Pages("stack", a) \/ page = <<"stack", a + 1>>
<1>1. \A i : i \in 1..(a + 1) <=> i \in 1..a \/ i = a + 1
  BY SMT
<1> QED
  BY <1>1 DEF Pages

LEMMA OwnedPages ==
  ASSUME NEW p, NEW page
  PROVE  /\ <<p, page>> \in Owned(p)
              <=> page \in Pages("stack", threads[p]) \cup Pages("code", 1) \cup Pages("heap", heapEnd[p])
         /\ <<p, page>> \in Owned(p)'
              <=> page \in Pages("stack", threads'[p]) \cup Pages("code", 1) \cup Pages("heap", heapEnd'[p])
BY DEF Owned

(* Slots of another process are not in HeapPages. *)
LEMMA HeapPagesOf ==
  ASSUME NEW p, NEW q, NEW a, NEW b, NEW page, <<p, page>> \in HeapPages(q, a, b)
  PROVE  p = q
BY DEF HeapPages

LEMMA FinishSound ==
  ASSUME RegionPages = 1, NEW t, Thread = {t}, TInv(t), Run(t), Finish(t)
  PROVE  Moves(t)
<1>0. PICK w, i, x, q : w = work[t] /\ i = work[t][1] /\ x = Tail(work[t]) /\ q = work[t][1].proc
  OBVIOUS
<1>1. /\ w # <<>> /\ i = Item1(t) /\ i.op \in {"heapEnd", "thread"} /\ work'[t] = x
      /\ UNCHANGED <<frameVars, call, live, table, entry, failed, removed, leaked>>
      /\ IF i.op = "heapEnd"
           THEN heapEnd' = [heapEnd EXCEPT ![q] = i.page[2]] /\ UNCHANGED threads
           ELSE threads' = [threads EXCEPT ![q] = @ + 1] /\ UNCHANGED heapEnd
  <2>1. work[t] # <<>>
    BY DEF Finish, Working
  <2>2. i = Item1(t) /\ q = i.proc
    BY <1>0, <2>1, FirstItem
  <2>3. work'[t] = x
    BY <1>0 DEF Finish, ItemDone, TInv
  <2>4. i.op \in {"heapEnd", "thread"}
        /\ UNCHANGED <<frameVars, call, live, table, entry, failed, removed, leaked>>
        /\ IF i.op = "heapEnd"
             THEN heapEnd' = [heapEnd EXCEPT ![q] = i.page[2]] /\ UNCHANGED threads
             ELSE threads' = [threads EXCEPT ![q] = @ + 1] /\ UNCHANGED heapEnd
    BY <2>2 DEF Finish
  <2> QED
    BY <1>0, <2>1, <2>2, <2>3, <2>4
<1>2. /\ WorkTyped(w) /\ WorkSound(w) /\ 1 \in 1..Len(w) /\ ItemTyped(i) /\ ItemSound(w, 1)
      /\ i = w[1] /\ q = i.proc
  BY <1>0, <1>1, FirstItem
<1>3. Len(w) = 1 /\ q \in live /\ q \in Process
  BY <1>1, <1>2 DEF ItemSound, ItemTyped
<1>4. Len(x) = 0
  BY <1>0, <1>1, <1>2, <1>3, TailItems, SMT
<1>5. \A u : ~ToMap(w, u) /\ ~Sharing(w, u) /\ ~ToMap(x, u) /\ ~Sharing(x, u) /\ ~Grows(x, u)'
  <2>1. \A k \in 1..Len(w) : w[k].op # "map" /\ w[k].op # "share"
    BY <1>1, <1>2, <1>3, SMT
  <2> QED
    BY <1>4, <2>1, SMT DEF ToMap, Sharing, Grows
<1>6. \A u \in Process \X Page : (Mapped(u)' <=> Mapped(u)) /\ FrameOf(u)' = FrameOf(u)
  BY <1>1 DEF Mapped, FrameOf
<1>7. Holding(t)' = Holding(t)
  <2>1. \A v : ~Sharing(work[t], v)' /\ ~Sharing(work[t], v)
    BY <1>0, <1>1, <1>5 DEF Sharing
  <2>2. \A v \in Slot : Held(t, v)' = Held(t, v)
    <3> SUFFICES ASSUME NEW v \in Slot
                 PROVE  Held(t, v)' = Held(t, v)
      OBVIOUS
    <3>1. v # InCall /\ v[2] \notin Table => v \in Process \X Page
      BY SlotCases
    <3> QED
      BY <1>1, <1>6, <2>1, <3>1 DEF Held
  <2> QED
    BY <2>2 DEF Holding
<1>8. \A p \in Process, page \in OwnPage :
         <<p, page>> \in Owned(p)' <=> <<p, page>> \in Owned(p) \/ Grows(w, <<p, page>>)
  <2>1. heapEnd \in [Process -> 0..MaxHeap] /\ threads \in [Process -> 0..MaxThreads]
    BY DEF TInv, TypeOK
  <2>2. heapEnd[q] \in Nat /\ threads[q] \in Nat
    BY <1>3, <2>1, AddressAssumption, SMT
  <2> SUFFICES ASSUME NEW p \in Process, NEW page \in OwnPage
               PROVE  <<p, page>> \in Owned(p)' <=> <<p, page>> \in Owned(p) \/ Grows(w, <<p, page>>)
    OBVIOUS
  <2>3. CASE i.op = "heapEnd"
    <3>1. PICK n : n = i.page[2]
      OBVIOUS
    <3>2. n \in Nat /\ heapEnd[q] < n
      BY <1>2, <2>3, <3>1, AddressAssumption, SMT DEF ItemSound, ItemTyped, Pages
    <3>3. threads' = threads /\ heapEnd' = [heapEnd EXCEPT ![q] = n]
      BY <1>1, <2>3, <3>1
    <3>4. Grows(w, <<p, page>>) <=> <<p, page>> \in HeapPages(q, heapEnd[q], n)
      BY <1>2, <1>3, <2>3, <3>1, SMT DEF Grows
    <3>5. CASE p = q
      <4>1. heapEnd'[p] = n /\ threads'[p] = threads[p]
        BY <2>1, <3>3, <3>5
      <4>2. page \in Pages("heap", n) <=> page \in Pages("heap", heapEnd[p])
                                            \/ <<p, page>> \in HeapPages(p, heapEnd[p], n)
        BY <2>2, <3>2, <3>5, HeapGrows, SMT
      <4> QED
        BY <3>4, <3>5, <4>1, <4>2, OwnedPages
    <3>6. CASE p # q
      <4>1. heapEnd'[p] = heapEnd[p] /\ threads'[p] = threads[p]
        BY <2>1, <3>3, <3>6
      <4> QED
        BY <3>4, <3>6, <4>1, OwnedPages, HeapPagesOf
    <3> QED
      BY <3>5, <3>6
  <2>4. CASE i.op = "thread"
    <3>1. heapEnd' = heapEnd /\ threads' = [threads EXCEPT ![q] = threads[q] + 1]
      BY <1>1, <2>1, <2>4
    <3>2. i.page = <<"stack", threads[q] + 1>>
      BY <1>2, <2>4 DEF ItemSound
    <3>3. Grows(w, <<p, page>>) <=> p = q /\ page = <<"stack", threads[q] + 1>>
      BY <1>2, <1>3, <2>4, <3>2, SMT DEF Grows, ItemSlot
    <3>4. CASE p = q
      <4>1. heapEnd'[p] = heapEnd[p] /\ threads'[p] = threads[p] + 1
        BY <2>1, <3>1, <3>4
      <4>2. page \in Pages("stack", threads[p] + 1) <=> page \in Pages("stack", threads[p])
                                                         \/ page = <<"stack", threads[p] + 1>>
        BY <2>2, <3>4, StackGrows
      <4> QED
        BY <3>3, <3>4, <4>1, <4>2, OwnedPages
    <3>5. CASE p # q
      <4>1. heapEnd'[p] = heapEnd[p] /\ threads'[p] = threads[p]
        BY <2>1, <3>1, <3>5
      <4> QED
        BY <3>3, <3>5, <4>1, OwnedPages
    <3> QED
      BY <3>4, <3>5
  <2> QED
    BY <1>1, <2>3, <2>4
<1>9. Covered(t)'
  <2> SUFFICES ASSUME NEW p \in Process, NEW page \in OwnPage
               PROVE  Mapped(<<p, page>>)' \/ ToMap(x, <<p, page>>)
                       <=> (p \in live' /\ <<p, page>> \in Owned(p)') \/ Grows(x, <<p, page>>)'
    BY <1>1, CoveredNext
  <2>1. Mapped(<<p, page>>) \/ ToMap(w, <<p, page>>)
          <=> (p \in live /\ <<p, page>> \in Owned(p)) \/ Grows(w, <<p, page>>)
    BY <1>0 DEF Run, Control, Covered
  <2>2. Mapped(<<p, page>>)' <=> Mapped(<<p, page>>)
    BY <1>6, SlotFacts
  <2>3. Grows(w, <<p, page>>) => p \in live
    <3>1. Grows(w, <<p, page>>) => p = q
      BY <1>2, <1>3, HeapPagesOf, SMT DEF Grows, ItemSlot
    <3> QED
      BY <1>3, <3>1
  <2> QED
    BY <1>1, <1>5, <1>8, <2>1, <2>2, <2>3
<1>10. FreeBlocks' = FreeBlocks /\ memoryArray' = memoryArray /\ ~failed'
  BY <1>1 DEF frameVars, FreeBlocks, Run
<1>11. Control(t)'
  <2>1. CallSound(t)'
    BY <1>1, <1>10 DEF CallSound, Run, Control
  <2>2. WorkSound(work[t])'
    BY <1>1, <1>4, SMT DEF WorkSound
  <2>3. \A p \in Process \ live' : Absent(p)'
    BY <1>1 DEF Run, Control, Absent, Mapped
  <2>4. \A v \in Process \X Page : Mapped(v)' => FrameOf(v)' # 0
    BY <1>6 DEF Run, Control
  <2> QED
    BY <1>9, <2>1, <2>2, <2>3, <2>4 DEF Control
<1>12. Kept(t)
  BY <1>1, <1>7, <1>10 DEF Kept
<1> QED
  BY <1>10, <1>11, <1>12 DEF Moves

LEMMA RegionReadySound ==
  ASSUME RegionPages = 1, NEW t, Thread = {t}, TInv(t), Run(t), RegionReady(t),
         RegionList(work'[t], Item1(t).proc[1], Item1(t).proc[2], call[t].frame)
  PROVE  GaveUp(t) \/ Moves(t)
<1>0. PICK w, x, i, f, a, b :
        /\ w = work[t] /\ x = work'[t] /\ i = work[t][1] /\ f = call[t].frame
        /\ a = <<work[t][1].proc[1], SharedPage>> /\ b = <<work[t][1].proc[2], SharedPage>>
  OBVIOUS
<1>1. /\ call[t].at = "done" /\ call'[t] = NoCall /\ w # <<>> /\ i = Item1(t) /\ i.op = "region"
      /\ UNCHANGED <<frameVars, spaceVars, removed, leaked>> /\ failed' = (f = 0)
  <2>1. work[t] # <<>> /\ call[t].at = "done" /\ call'[t] = NoCall
    BY RunTypes DEF RegionReady, Returned, Working
  <2>2. i = Item1(t)
    BY <1>0, <2>1, FirstItem
  <2>3. failed' = (f = 0)
    BY <1>0 DEF RegionReady
  <2>4. i.op = "region" /\ UNCHANGED <<frameVars, spaceVars, removed, leaked>>
    BY <2>2 DEF RegionReady
  <2> QED
    BY <1>0, <2>1, <2>2, <2>3, <2>4
<1>2. /\ WorkSound(w) /\ 1 \in 1..Len(w) /\ ItemTyped(i) /\ ItemSound(w, 1) /\ i = w[1]
      /\ a = <<i.proc[1], SharedPage>> /\ b = <<i.proc[2], SharedPage>>
  BY <1>0, <1>1, FirstItem
<1>3. call'[t].at = "none"
  BY <1>1, SMT DEF NoCall
<1>4. CASE f = 0
  BY <1>1, <1>3, <1>4 DEF GaveUp, frameVars
<1>5. CASE f # 0
  <2>1. /\ i.proc[1] \in Process /\ i.proc[2] \in Process /\ i.proc[1] \in live /\ i.proc[2] \in live
        /\ i.proc[1] # i.proc[2] /\ ~Mapped(a) /\ ~Mapped(b) /\ Len(w) = 1
    <3>1. 1 \in 1..2 /\ 2 \in 1..2
      BY SMT
    <3> QED
      BY <1>1, <1>2, <3>1 DEF ItemSound, ItemTyped
  <2>2. /\ a \in SharedSlot /\ b \in SharedSlot /\ a # b /\ a[2] = SharedPage /\ b[2] = SharedPage
        /\ a \in Process \X Page /\ b \in Process \X Page /\ SharedPage \in Page
        /\ a # InCall /\ b # InCall /\ SharedPage \notin Table /\ a \in Slot /\ b \in Slot
    <3>1. a \in SharedSlot /\ b \in SharedSlot /\ a # b /\ a[2] = SharedPage /\ b[2] = SharedPage
      BY <1>2, <2>1 DEF SharedSlot
    <3>2. SharedPage \in Page
      BY SMT DEF Page, Pages, SharedPage
    <3> QED
      BY <1>2, <2>1, <3>1, <3>2, SlotFacts
  <2>3. /\ Len(x) = 2
        /\ x[1] = Item("share", i.proc[1], SharedPage, f) /\ x[2] = Item("share", i.proc[2], SharedPage, f)
        /\ x \in Seq(ItemType)
    <3>1. /\ Len(x) = 2 * RegionPages /\ x \in Seq(ItemType)
          /\ \A n \in 1..RegionPages :
               /\ x[n] = Item("share", i.proc[1], <<"shared", n>>, f + n - 1)
               /\ x[RegionPages + n] = Item("share", i.proc[2], <<"shared", n>>, f + n - 1)
      BY <1>0, <1>1 DEF RegionList
    <3>2. 1 \in 1..RegionPages /\ f \in Nat
      BY <1>0, RunTypes, SizeAssumption, SMT DEF Frame
    <3>3. /\ x[1] = Item("share", i.proc[1], <<"shared", 1>>, f + 1 - 1)
          /\ x[RegionPages + 1] = Item("share", i.proc[2], <<"shared", 1>>, f + 1 - 1)
      BY <3>1, <3>2
    <3>4. RegionPages + 1 = 2 /\ f + 1 - 1 = f /\ Len(x) = 2
      BY <3>1, <3>2, SMT
    <3> QED
      BY <3>1, <3>3, <3>4 DEF SharedPage
  <2>4. /\ x[1].op = "share" /\ x[1].proc = i.proc[1] /\ x[1].page = SharedPage /\ x[1].frame = f
        /\ x[2].op = "share" /\ x[2].proc = i.proc[2] /\ x[2].page = SharedPage /\ x[2].frame = f
        /\ ItemSlot(x[1]) = a /\ ItemSlot(x[2]) = b /\ Head(x) = x[1]
        /\ \A k \in 1..Len(x) : k = 1 \/ k = 2
    <3>1. Head(x) = x[1]
      BY <2>3, SMT
    <3> QED
      BY <1>2, <2>3, <3>1, SMT DEF Item, ItemSlot
  <2>5. \A v : ~Sharing(w, v) /\ ~ToMap(w, v) /\ ~Grows(w, v)
    <3>1. \A k \in 1..Len(w) : w[k].op = "region"
      BY <1>1, <1>2, <2>1, SMT
    <3> QED
      BY <3>1 DEF Sharing, ToMap, Grows
  <2>6. \A v : (Sharing(x, v) <=> v \in {a, b}) /\ ~ToMap(x, v) /\ ~Grows(x, v)'
    <3>1. \A k \in 1..Len(x) : x[k].op = "share"
      BY <2>4
    <3>2. 1 \in 1..Len(x) /\ 2 \in 1..Len(x)
      BY <2>3, SMT
    <3>3. \A v : Sharing(x, v) <=> v \in {a, b}
      BY <2>4, <3>2 DEF Sharing, ItemSlot
    <3>4. \A v : ~ToMap(x, v) /\ ~Grows(x, v)'
      BY <3>1 DEF ToMap, Grows
    <3> QED
      BY <3>3, <3>4
  <2>7. Holding(t)[a] = 0 /\ Holding(t)[b] = 0 /\ Holding(t)[InCall] = f
    <3>1. Held(t, a) = 0 /\ Held(t, b) = 0
      BY <1>0, <2>1, <2>2, <2>5 DEF Held
    <3>2. Held(t, InCall) = f
      BY <1>0, <1>1 DEF Held
    <3> QED
      BY <2>2, <3>1, <3>2, SlotFacts DEF Holding
  <2>9. \A v \in Process \X Page : (Mapped(v)' <=> Mapped(v)) /\ FrameOf(v)' = FrameOf(v)
    BY <1>1 DEF spaceVars, Mapped, FrameOf
  <2>10. Holding(t)' = HandOver(Holding(t), {a, b})
    <3>1. Held(t, InCall)' = 0
      BY <1>3 DEF Held
    <3>2. \A v : (Sharing(work[t], v)' <=> v \in {a, b}) /\ ~Sharing(work[t], v)
      <4>1. \A v : Sharing(work[t], v)' <=> Sharing(x, v)
        BY <1>0 DEF Sharing
      <4> QED
        BY <1>0, <2>5, <2>6, <4>1
    <3>3. Item1(t)'.frame = f
      BY <1>0, <2>4 DEF Item1
    <3>4. Held(t, a)' = f /\ Held(t, b)' = f
      BY <2>1, <2>2, <2>9, <3>2, <3>3 DEF Held
    <3>5. \A v \in Slot : v # InCall /\ v \notin {a, b} => Held(t, v)' = Held(t, v)
      <4> SUFFICES ASSUME NEW v \in Slot, v # InCall, v \notin {a, b}
                   PROVE  Held(t, v)' = Held(t, v)
        OBVIOUS
      <4>1. v[2] \notin Table => v \in Process \X Page
        BY SlotCases
      <4>2. table' = table
        BY <1>1 DEF spaceVars
      <4> QED
        BY <2>9, <3>2, <4>1, <4>2 DEF Held
    <3>6. Holding(t)' = [v \in Slot |-> Held(t, v)'] /\ \A v \in Slot : Holding(t)[v] = Held(t, v)
      BY DEF Holding
    <3> QED
      BY <2>7, <3>1, <3>4, <3>5, <3>6 DEF HandOver
  <2>11. FreeBlocks' = FreeBlocks /\ memoryArray' = memoryArray /\ ~failed'
    BY <1>1, <1>5 DEF frameVars, FreeBlocks
  <2>12. Control(t)'
    <3>1. CallSound(t)'
      BY <1>3 DEF CallSound
    <3>2. WorkSound(x)'
      <4>1. \A k \in 1..Len(x) : ItemSound(x, k)'
        <5>1. ~Mapped(a)' /\ ~Mapped(b)' /\ live' = live
          BY <1>1, <2>1, <2>2, <2>9 DEF spaceVars
        <5>2. \A j \in 1..Len(x) : x[j].op = "share" /\ x[j].frame = f
          BY <2>4
        <5> QED
          BY <1>5, <2>1, <2>4, <5>1, <5>2 DEF ItemSound
      <4>2. \A j, k \in 1..Len(x) :
              j # k /\ x[j].op = x[k].op => ItemSlot(x[j]) # ItemSlot(x[k])
        BY <2>2, <2>4
      <4> QED
        BY <4>1, <4>2 DEF WorkSound, ItemSlot
    <3>3. WorkSound(work[t])'
      BY <1>0, <3>2, WorkNext
    <3>4. Covered(t)'
      <4> SUFFICES ASSUME NEW p \in Process, NEW page \in OwnPage
                   PROVE  Mapped(<<p, page>>)' \/ ToMap(x, <<p, page>>)
                           <=> (p \in live' /\ <<p, page>> \in Owned(p)') \/ Grows(x, <<p, page>>)'
        BY <1>0, CoveredNext
      <4>1. Mapped(<<p, page>>) \/ ToMap(w, <<p, page>>)
              <=> (p \in live /\ <<p, page>> \in Owned(p)) \/ Grows(w, <<p, page>>)
        BY <1>0 DEF Run, Control, Covered
      <4>2. Mapped(<<p, page>>)' <=> Mapped(<<p, page>>)
        BY <2>9, SlotFacts
      <4>3. Owned(p)' = Owned(p) /\ live' = live
        BY <1>1 DEF spaceVars, Owned
      <4> QED
        BY <2>5, <2>6, <4>1, <4>2, <4>3
    <3>5. \A p \in Process \ live' : Absent(p)'
      BY <1>1 DEF Run, Control, Absent, Mapped, spaceVars
    <3>6. \A v \in Process \X Page : Mapped(v)' => FrameOf(v)' # 0
      BY <2>9 DEF Run, Control
    <3> QED
      BY <3>1, <3>3, <3>4, <3>5, <3>6 DEF Control
  <2>13. HandedOver(t, a, b)
    BY <1>1, <1>5, <2>2, <2>7, <2>10, <2>11 DEF HandedOver
  <2> QED
    BY <2>2, <2>11, <2>12, <2>13 DEF Moves
<1> QED
  BY <1>4, <1>5
-----------------------------------------------------------------------------
(***************************************************************************)
(* The calls that allocate.                                                *)
(***************************************************************************)
LEMMA IdleFacts ==
  ASSUME RegionPages = 1, NEW t, TInv(t), Run(t), Idle(t)
  PROVE  /\ call[t].at = "none" /\ work[t] = <<>> /\ Len(work[t]) = 0
         /\ \A u : ~Sharing(work[t], u)
         /\ \A p \in Process, page \in OwnPage :
              Mapped(<<p, page>>) <=> p \in live /\ <<p, page>> \in Owned(p)
<1>1. work[t] = <<>> /\ call[t].at = "none"
  BY DEF Idle, TInv, CallTyped
<1>2. Len(work[t]) = 0
  BY <1>1, SMT
<1>3. \A u : ~Sharing(work[t], u) /\ ~ToMap(work[t], u) /\ ~Grows(work[t], u)
  BY <1>2, SMT DEF Sharing, ToMap, Grows
<1>4. \A p \in Process, page \in OwnPage :
              Mapped(<<p, page>>) <=> p \in live /\ <<p, page>> \in Owned(p)
  BY <1>3 DEF Run, Control, Covered
<1> QED
  BY <1>1, <1>2, <1>3, <1>4

LEMMA CallSoundBegins ==
  ASSUME RegionPages = 1, NEW t, TInv(t), Run(t), Idle(t), NEW x, work'[t] = x,
         UNCHANGED <<frameVars, call, table, entry, failed, removed, leaked>>,
         \A k \in 1..Len(x) : x[k].op # "share", WorkSound(x)', live \subseteq live',
         \A p \in Process, page \in OwnPage :
            Mapped(<<p, page>>) \/ ToMap(x, <<p, page>>)
              <=> (p \in live' /\ <<p, page>> \in Owned(p)') \/ Grows(x, <<p, page>>)'
  PROVE  Moves(t)
<1>1. \A u : ~Sharing(work[t], u)' /\ ~Sharing(work[t], u)
  BY IdleFacts DEF Sharing
<1>2. \A u \in Process \X Page : (Mapped(u)' <=> Mapped(u)) /\ FrameOf(u)' = FrameOf(u)
  BY DEF Mapped, FrameOf
<1>3. Holding(t)' = Holding(t)
  <2>1. \A v \in Slot : Held(t, v)' = Held(t, v)
    <3> SUFFICES ASSUME NEW v \in Slot
                 PROVE  Held(t, v)' = Held(t, v)
      OBVIOUS
    <3>1. v # InCall /\ v[2] \notin Table => v \in Process \X Page
      BY SlotCases
    <3> QED
      BY <1>1, <1>2, <3>1 DEF Held
  <2> QED
    BY <2>1 DEF Holding
<1>4. FreeBlocks' = FreeBlocks /\ memoryArray' = memoryArray /\ ~failed'
  BY DEF frameVars, FreeBlocks, Run
<1>5. Control(t)'
  <2>1. CallSound(t)'
    BY IdleFacts DEF CallSound
  <2>2. WorkSound(work[t])'
    BY WorkNext
  <2>3. \A p \in Process \ live' : Absent(p)'
    BY DEF Run, Control, Absent, Mapped
  <2>4. \A v \in Process \X Page : Mapped(v)' => FrameOf(v)' # 0
    BY <1>2 DEF Run, Control
  <2>5. \A p \in Process, page \in OwnPage :
            Mapped(<<p, page>>)' \/ ToMap(x, <<p, page>>)
              <=> (p \in live' /\ <<p, page>> \in Owned(p)') \/ Grows(x, <<p, page>>)'
    BY <1>2, SlotFacts
  <2>6. Covered(t)'
    BY <2>5, CoveredNext
  <2> QED
    BY <2>1, <2>2, <2>3, <2>4, <2>6 DEF Control
<1>6. Kept(t)
  BY <1>3, <1>4 DEF Kept
<1> QED
  BY <1>4, <1>5, <1>6 DEF Moves

(* Items that map pages of one process. *)
LEMMA MapItem ==
  ASSUME NEW p, NEW page, NEW i, i = Item("map", p, page, 0)
  PROVE  i.op = "map" /\ i.proc = p /\ i.page = page /\ ItemSlot(i) = <<p, page>>
BY DEF Item, ItemSlot

LEMMA CreateSound ==
  ASSUME RegionPages = 1, NEW t, Thread = {t}, TInv(t), Run(t), NEW p \in Process, Create(t, p),
         CreateList(work'[t], p)
  PROVE  Moves(t)
<1>0. PICK x : x = work'[t]
  OBVIOUS
<1>1. /\ Idle(t) /\ p \notin live /\ live' = live \cup {p}
      /\ heapEnd' = [heapEnd EXCEPT ![p] = HeapStart] /\ threads' = [threads EXCEPT ![p] = 1]
      /\ UNCHANGED <<frameVars, call, table, entry, failed, removed, leaked>>
  BY DEF Create
<1>2. heapEnd \in [Process -> 0..MaxHeap] /\ threads \in [Process -> 0..MaxThreads]
      /\ HeapStart \in Nat /\ HeapStart <= MaxHeap /\ MaxThreads >= 1 /\ MaxThreads \in Nat /\ MaxHeap \in Nat
  BY AddressAssumption, SMT DEF TInv, TypeOK
<1>3. /\ Len(x) = HeapStart + 2 /\ x[1] = Item("map", p, <<"code", 1>>, 0)
      /\ x[2] = Item("map", p, <<"stack", 1>>, 0)
      /\ \A k \in 3..(HeapStart + 2) : x[k] = Item("map", p, <<"heap", k - 2>>, 0)
  BY <1>0 DEF CreateList
<1> DEFINE pg(k) == IF k = 1 THEN <<"code", 1>> ELSE IF k = 2 THEN <<"stack", 1>> ELSE <<"heap", k - 2>>
<1>4. \A k \in 1..Len(x) : x[k] = Item("map", p, pg(k), 0) /\ pg(k) \in OwnPage
  <2> SUFFICES ASSUME NEW k \in 1..(HeapStart + 2)
               PROVE  x[k] = Item("map", p, pg(k), 0) /\ pg(k) \in OwnPage
    BY <1>3
  <2>1. CASE k = 1
    BY <1>3, <2>1, SMT DEF OwnPage, Pages
  <2>2. CASE k = 2
    <3>1. 1 \in 1..MaxThreads
      BY <1>2, SMT
    <3> QED
      BY <1>3, <2>2, <3>1, SMT DEF OwnPage, Pages
  <2>3. CASE k # 1 /\ k # 2
    <3>1. k \in 3..(HeapStart + 2) /\ k - 2 \in 1..MaxHeap
      BY <1>2, <2>3, SMT
    <3>2. pg(k) = <<"heap", k - 2>>
      BY <2>3
    <3>3. <<"heap", k - 2>> \in OwnPage
      BY <3>1 DEF OwnPage, Pages
    <3> QED
      BY <1>3, <3>1, <3>2, <3>3
  <2> QED
    BY <2>1, <2>2, <2>3
<1>5. \A j, k \in 1..Len(x) : j # k => pg(j) # pg(k)
  BY <1>2, <1>3, SMT
<1>6. \A page \in OwnPage : (\E k \in 1..Len(x) : page = pg(k))
        <=> page \in Pages("stack", 1) \cup Pages("code", 1) \cup Pages("heap", HeapStart)
  <2>1. ASSUME NEW k \in 1..Len(x)
        PROVE  pg(k) \in Pages("stack", 1) \cup Pages("code", 1) \cup Pages("heap", HeapStart)
    <3>1. k \in 1..(HeapStart + 2)
      BY <1>3
    <3>2. k # 1 /\ k # 2 => k - 2 \in 1..HeapStart
      BY <1>2, <3>1, SMT
    <3>3. 1 \in 1..1
      BY SMT
    <3> QED
      BY <3>2, <3>3 DEF Pages
  <2>2. ASSUME NEW page \in Pages("stack", 1) \cup Pages("code", 1) \cup Pages("heap", HeapStart)
        PROVE  \E k \in 1..Len(x) : page = pg(k)
    <3>1. CASE page = <<"code", 1>>
      <4>1. 1 \in 1..Len(x) /\ page = pg(1)
        BY <1>2, <1>3, <3>1, SMT
      <4> QED
        BY <4>1
    <3>2. CASE page = <<"stack", 1>>
      <4>1. 2 \in 1..Len(x) /\ page = pg(2)
        BY <1>2, <1>3, <3>2, SMT
      <4> QED
        BY <4>1
    <3>3. ASSUME NEW n \in 1..HeapStart, page = <<"heap", n>>
          PROVE  \E k \in 1..Len(x) : page = pg(k)
      <4>1. n + 2 \in 1..Len(x) /\ n + 2 # 1 /\ n + 2 # 2 /\ (n + 2) - 2 = n
        BY <1>2, <1>3, SMT
      <4>2. page = pg(n + 2)
        BY <3>3, <4>1
      <4> QED
        BY <4>1, <4>2
    <3> QED
      BY <3>1, <3>2, <3>3, SMT DEF Pages
  <2> QED
    BY <2>1, <2>2
<1> HIDE DEF pg
<1>7. \A k \in 1..Len(x) :
         x[k].op = "map" /\ x[k].proc = p /\ x[k].page = pg(k) /\ ItemSlot(x[k]) = <<p, pg(k)>>
  BY <1>4, MapItem
<1>8. \A page \in Page : ~Mapped(<<p, page>>) /\ ~Mapped(<<p, page>>)'
  BY <1>1 DEF Run, Control, Absent, Mapped
<1>9. WorkSound(x)'
  <2>1. ASSUME NEW k \in 1..Len(x)
        PROVE  ItemSound(x, k)'
    <3>1. ~Mapped(ItemSlot(x[k]))'
      <4>1. pg(k) \in Page
        BY <1>4, SlotFacts
      <4> QED
        BY <1>7, <1>8, <4>1
    <3> QED
      BY <1>1, <1>4, <1>7, <3>1 DEF ItemSound
  <2>2. \A j, k \in 1..Len(x) :
              j # k /\ x[j].op = x[k].op => ItemSlot(x[j]) # ItemSlot(x[k])
    BY <1>5, <1>7, SMT
  <2> QED
    BY <2>1, <2>2 DEF WorkSound, ItemSlot
<1>10. ASSUME NEW q \in Process, NEW page \in OwnPage
       PROVE  Mapped(<<q, page>>) \/ ToMap(x, <<q, page>>)
                <=> (q \in live' /\ <<q, page>> \in Owned(q)') \/ Grows(x, <<q, page>>)'
  <2>1. ~Grows(x, <<q, page>>)'
    BY <1>7 DEF Grows
  <2>2. CASE q = p
    <3>1. ToMap(x, <<q, page>>) <=> \E k \in 1..Len(x) : page = pg(k)
      BY <1>7, <2>2, SMT DEF ToMap
    <3>2. ~Mapped(<<q, page>>)
      BY <1>8, <2>2, SlotFacts
    <3>3. heapEnd'[q] = HeapStart /\ threads'[q] = 1
      BY <1>1, <1>2, <2>2
    <3> QED
      BY <1>1, <1>6, <2>1, <2>2, <3>1, <3>2, <3>3, OwnedPages
  <2>3. CASE q # p
    <3>1. ~ToMap(x, <<q, page>>)
      BY <1>7, <2>3, SMT DEF ToMap
    <3>2. heapEnd'[q] = heapEnd[q] /\ threads'[q] = threads[q]
      BY <1>1, <1>2, <2>3
    <3>3. <<q, page>> \in Owned(q)' <=> <<q, page>> \in Owned(q)
      BY <3>2, OwnedPages
    <3>4. Mapped(<<q, page>>) <=> q \in live /\ <<q, page>> \in Owned(q)
      BY <1>1, IdleFacts
    <3> QED
      BY <1>1, <2>1, <2>3, <3>1, <3>3, <3>4
  <2> QED
    BY <2>2, <2>3
<1>11. \A k \in 1..Len(x) : x[k].op # "share"
  BY <1>7
<1>12. live \subseteq live'
  BY <1>1
<1> QED
  BY <1>0, <1>1, <1>9, <1>10, <1>11, <1>12, CallSoundBegins

LEMMA StartThreadSound ==
  ASSUME RegionPages = 1, NEW t, Thread = {t}, TInv(t), Run(t), NEW p \in Process, StartThread(t, p),
         ThreadList(work'[t], p, threads[p] + 1)
  PROVE  Moves(t)
<1>0. PICK x, k : x = work'[t] /\ k = threads[p] + 1
  OBVIOUS
<1>1. /\ Idle(t) /\ p \in live /\ threads[p] < MaxThreads
      /\ UNCHANGED <<frameVars, call, spaceVars, failed, removed, leaked>>
  BY DEF StartThread
<1>2. threads \in [Process -> 0..MaxThreads] /\ threads[p] \in Nat /\ MaxThreads \in Nat
  BY AddressAssumption, SMT DEF TInv, TypeOK
<1>3. Len(x) = 2 /\ x[1] = Item("map", p, <<"stack", k>>, 0) /\ x[2] = Item("thread", p, <<"stack", k>>, 0)
  BY <1>0 DEF ThreadList
<1>4. /\ x[1].op = "map" /\ x[1].proc = p /\ x[1].page = <<"stack", k>>
      /\ ItemSlot(x[1]) = <<p, <<"stack", k>>>>
      /\ x[2].op = "thread" /\ x[2].proc = p /\ x[2].page = <<"stack", k>>
      /\ ItemSlot(x[2]) = <<p, <<"stack", k>>>>
      /\ \A j : j \in 1..Len(x) <=> j = 1 \/ j = 2
  BY <1>3, SMT DEF Item, ItemSlot
<1>5. <<"stack", k>> \in OwnPage
  <2>1. k \in 1..MaxThreads
    BY <1>0, <1>1, <1>2, SMT
  <2> QED
    BY <2>1 DEF OwnPage, Pages
<1>6. ~Mapped(<<p, <<"stack", k>>>>)
  <2>1. <<"stack", k>> \notin Pages("stack", threads[p]) \cup Pages("code", 1) \cup Pages("heap", heapEnd[p])
    BY <1>0, <1>2, SMT DEF Pages
  <2> QED
    BY <1>1, <1>5, <2>1, IdleFacts, OwnedPages
<1>7. WorkSound(x)'
  <2>1. ~Mapped(<<p, <<"stack", k>>>>)' /\ live' = live /\ threads' = threads
    BY <1>1, <1>6 DEF Mapped, spaceVars
  <2>2. ItemSound(x, 1)'
    BY <1>1, <1>4, <1>5, <2>1 DEF ItemSound
  <2>3. ItemSound(x, 2)'
    BY <1>0, <1>1, <1>3, <1>4, <2>1 DEF ItemSound
  <2>4. \A i, j \in 1..Len(x) :
              i # j /\ x[i].op = x[j].op => ItemSlot(x[i]) # ItemSlot(x[j])
    BY <1>4, SMT
  <2> QED
    BY <1>4, <2>2, <2>3, <2>4 DEF WorkSound, ItemSlot
<1>8. ASSUME NEW q \in Process, NEW page \in OwnPage
      PROVE  Mapped(<<q, page>>) \/ ToMap(x, <<q, page>>)
               <=> (q \in live' /\ <<q, page>> \in Owned(q)') \/ Grows(x, <<q, page>>)'
  <2>1. ToMap(x, <<q, page>>) <=> <<q, page>> = <<p, <<"stack", k>>>>
    BY <1>4, SMT DEF ToMap
  <2>2. Grows(x, <<q, page>>)' <=> <<q, page>> = <<p, <<"stack", k>>>>
    BY <1>4 DEF Grows, ItemSlot
  <2>3. Owned(q)' = Owned(q) /\ live' = live
    BY <1>1 DEF spaceVars, Owned
  <2>4. Mapped(<<q, page>>) <=> q \in live /\ <<q, page>> \in Owned(q)
    BY <1>1, IdleFacts
  <2> QED
    BY <2>1, <2>2, <2>3, <2>4
<1>9. \A j \in 1..Len(x) : x[j].op # "share"
  BY <1>4
<1>10. live \subseteq live' /\ UNCHANGED <<frameVars, call, table, entry, failed, removed, leaked>>
  BY <1>1 DEF spaceVars
<1> QED
  BY <1>0, <1>1, <1>7, <1>8, <1>9, <1>10, CallSoundBegins

LEMMA ExpandHeapSound ==
  ASSUME RegionPages = 1, NEW t, Thread = {t}, TInv(t), Run(t), NEW p \in Process,
         NEW n \in 1..MaxHeap, ExpandHeap(t, p, n), HeapList(work'[t], p, heapEnd[p], n)
  PROVE  Moves(t)
<1>0. PICK x, h, m : x = work'[t] /\ h = heapEnd[p] /\ m = n - heapEnd[p]
  OBVIOUS
<1>1. /\ Idle(t) /\ p \in live /\ UNCHANGED <<frameVars, call, spaceVars, failed, removed, leaked>>
  BY DEF ExpandHeap
<1>2. /\ h \in Nat /\ h < n /\ Len(x) = n - h + 1
      /\ x[n - h + 1] = Item("heapEnd", p, <<"heap", n>>, 0)
      /\ \A i \in 1..(n - h) : x[i] = Item("map", p, <<"heap", h + i>>, 0)
  BY <1>0 DEF HeapList
<1>3. MaxHeap \in Nat /\ n \in Nat /\ m \in Nat \ {0} /\ m = n - h /\ Len(x) = m + 1
  BY <1>0, <1>2, AddressAssumption, SMT
<1>4. /\ x[m + 1] = Item("heapEnd", p, <<"heap", n>>, 0)
      /\ \A i \in 1..m : x[i] = Item("map", p, <<"heap", h + i>>, 0)
  BY <1>2, <1>3
<1>5. /\ x[m + 1].op = "heapEnd" /\ x[m + 1].proc = p /\ x[m + 1].page = <<"heap", n>>
      /\ \A i \in 1..m : /\ x[i].op = "map" /\ x[i].proc = p /\ x[i].page = <<"heap", h + i>>
                         /\ ItemSlot(x[i]) = <<p, <<"heap", h + i>>>>
  <2>1. x[m + 1].op = "heapEnd" /\ x[m + 1].proc = p /\ x[m + 1].page = <<"heap", n>>
    <3> DEFINE e == x[m + 1]
    <3>1. e = Item("heapEnd", p, <<"heap", n>>, 0)
      BY <1>4
    <3> HIDE DEF e
    <3>2. e.op = "heapEnd" /\ e.proc = p /\ e.page = <<"heap", n>>
      BY <3>1 DEF Item
    <3> QED
      BY <3>2 DEF e
  <2>2. \A i \in 1..m : /\ x[i].op = "map" /\ x[i].proc = p /\ x[i].page = <<"heap", h + i>>
                         /\ ItemSlot(x[i]) = <<p, <<"heap", h + i>>>>
    <3> SUFFICES ASSUME NEW i \in 1..m
                 PROVE  /\ x[i].op = "map" /\ x[i].proc = p /\ x[i].page = <<"heap", h + i>>
                        /\ ItemSlot(x[i]) = <<p, <<"heap", h + i>>>>
      OBVIOUS
    <3>1. PICK page : page = <<"heap", h + i>>
      OBVIOUS
    <3>2. x[i] = Item("map", p, page, 0)
      BY <1>4, <3>1
    <3>3. x[i].op = "map" /\ x[i].proc = p /\ x[i].page = page /\ ItemSlot(x[i]) = <<p, page>>
      BY <3>2, MapItem, SMT
    <3> QED
      BY <3>1, <3>3
  <2> QED
    BY <2>1, <2>2
<1>6. \A j \in 1..Len(x) : j \in 1..m \/ j = m + 1
  BY <1>3, SMT
<1>7. \A i \in 1..m : h + i \in (h + 1)..n /\ h + i \in 1..MaxHeap /\ <<"heap", h + i>> \in OwnPage
  <2>1. \A i \in 1..m : h + i \in (h + 1)..n /\ h + i \in 1..MaxHeap
    BY <1>2, <1>3, SMT
  <2> QED
    BY <2>1 DEF OwnPage, Pages
<1>8. \A i \in 1..m : ~Mapped(<<p, <<"heap", h + i>>>>)
  <2> SUFFICES ASSUME NEW i \in 1..m
               PROVE  ~Mapped(<<p, <<"heap", h + i>>>>)
    OBVIOUS
  <2>1. h + i \notin 1..h
    BY <1>2, <1>3, SMT
  <2>2. <<"heap", h + i>> \notin Pages("stack", threads[p]) \cup Pages("code", 1) \cup Pages("heap", h)
    BY <2>1 DEF Pages
  <2> QED
    BY <1>0, <1>1, <1>7, <2>2, IdleFacts, OwnedPages
<1>9. WorkSound(x)'
  <2>1. ASSUME NEW i \in 1..m
        PROVE  ItemSound(x, i)'
    <3>1. ~Mapped(<<p, <<"heap", h + i>>>>)' /\ live' = live
      BY <1>1, <1>8, ZenonT(30) DEF Mapped, spaceVars
    <3> QED
      BY <1>1, <1>5, <1>7, <3>1 DEF ItemSound
  <2>2. ItemSound(x, m + 1)'
    <3>1. heapEnd'[p] = h /\ live' = live
      BY <1>0, <1>1 DEF spaceVars
    <3>2. x[m + 1].page[2] = n
      BY <1>5, SMT
    <3> QED
      BY <1>1, <1>2, <1>3, <1>5, <3>1, <3>2 DEF ItemSound
  <2>3. \A i, j \in 1..Len(x) :
              i # j /\ x[i].op = x[j].op => ItemSlot(x[i]) # ItemSlot(x[j])
    <3> SUFFICES ASSUME NEW i \in 1..Len(x), NEW j \in 1..Len(x), i # j, x[i].op = x[j].op
                 PROVE  ItemSlot(x[i]) # ItemSlot(x[j])
      OBVIOUS
    <3>1. i \in 1..m /\ j \in 1..m
      BY <1>5, <1>6
    <3>2. h + i # h + j
      BY <1>2, <3>1, SMT
    <3> QED
      BY <1>5, <3>1, <3>2, SMT
  <2>4. \A k \in 1..Len(x) : ItemSound(x, k)'
    BY <1>6, <2>1, <2>2
  <2> QED
    BY <2>3, <2>4 DEF WorkSound, ItemSlot
<1>10. ASSUME NEW q \in Process, NEW page \in OwnPage
       PROVE  Mapped(<<q, page>>) \/ ToMap(x, <<q, page>>)
                <=> (q \in live' /\ <<q, page>> \in Owned(q)') \/ Grows(x, <<q, page>>)'
  <2>1. ToMap(x, <<q, page>>) <=> <<q, page>> \in HeapPages(p, h, n)
    <3>1. 1..m \subseteq 1..Len(x)
      BY <1>3, SMT
    <3>2. ToMap(x, <<q, page>>) <=> \E i \in 1..m : <<q, page>> = <<p, <<"heap", h + i>>>>
      BY <1>5, <1>6, <3>1 DEF ToMap
    <3>3. \A j \in (h + 1)..n : j - h \in 1..m /\ h + (j - h) = j
      BY <1>2, <1>3, SMT
    <3>4. (\E i \in 1..m : <<q, page>> = <<p, <<"heap", h + i>>>>)
            <=> \E j \in (h + 1)..n : <<q, page>> = <<p, <<"heap", j>>>>
      BY <1>7, <3>3
    <3> QED
      BY <3>2, <3>4 DEF HeapPages
  <2>2. Grows(x, <<q, page>>)' <=> <<q, page>> \in HeapPages(p, h, n)
    <3>1. heapEnd'[p] = h
      BY <1>0, <1>1 DEF spaceVars
    <3>2. m + 1 \in 1..Len(x) /\ x[m + 1].page[2] = n
      BY <1>3, <1>5, SMT
    <3> QED
      BY <1>5, <1>6, <3>1, <3>2 DEF Grows
  <2>3. Owned(q)' = Owned(q) /\ live' = live
    BY <1>1 DEF spaceVars, Owned
  <2>4. Mapped(<<q, page>>) <=> q \in live /\ <<q, page>> \in Owned(q)
    BY <1>1, IdleFacts
  <2> QED
    BY <2>1, <2>2, <2>3, <2>4
<1>11. \A j \in 1..Len(x) : x[j].op # "share"
  BY <1>5, <1>6
<1>12. live \subseteq live' /\ UNCHANGED <<frameVars, call, table, entry, failed, removed, leaked>>
  BY <1>1 DEF spaceVars
<1> QED
  BY <1>0, <1>1, <1>9, <1>10, <1>11, <1>12, CallSoundBegins

LEMMA CreateRegionSound ==
  ASSUME RegionPages = 1, NEW t, Thread = {t}, TInv(t), Run(t), NEW p \in Process,
         NEW q \in Process, CreateSharedRegion(t, p, q)
  PROVE  Moves(t)
<1>0. PICK x : x = work'[t]
  OBVIOUS
<1>1. /\ Idle(t) /\ p \in live /\ q \in live /\ p # q
      /\ \A u \in Shared(p) \cup Shared(q) : ~Mapped(u)
      /\ UNCHANGED <<frameVars, call, spaceVars, failed, removed, leaked>>
  BY DEF CreateSharedRegion
<1>2. Len(x) = 1 /\ x[1] = Item("region", <<p, q>>, <<"shared", 1>>, 0)
  BY <1>0 DEF CreateSharedRegion, Call, TInv
<1>3. x[1].op = "region" /\ x[1].proc = <<p, q>> /\ \A j \in 1..Len(x) : j = 1
  BY <1>2, SMT DEF Item
<1>4. ~Mapped(<<p, SharedPage>>) /\ ~Mapped(<<q, SharedPage>>)
  BY <1>1, SMT DEF Shared, Pages, SharedPage
<1>5. WorkSound(x)'
  <2>1. ~Mapped(<<p, SharedPage>>)' /\ ~Mapped(<<q, SharedPage>>)' /\ live' = live
    BY <1>1, <1>4 DEF Mapped, spaceVars
  <2>2. \A j \in 1..2 : <<p, q>>[j] \in live' /\ ~Mapped(<<<<p, q>>[j], SharedPage>>)'
    <3>1. \A j \in 1..2 : (j = 1 /\ <<p, q>>[j] = p) \/ (j = 2 /\ <<p, q>>[j] = q)
      BY SMT
    <3> QED
      BY <1>1, <2>1, <3>1
  <2>3. ItemSound(x, 1)'
    BY <1>1, <1>2, <1>3, <2>2, SMT DEF ItemSound
  <2> QED
    BY <1>3, <2>3 DEF WorkSound
<1>6. ASSUME NEW r \in Process, NEW page \in OwnPage
      PROVE  Mapped(<<r, page>>) \/ ToMap(x, <<r, page>>)
               <=> (r \in live' /\ <<r, page>> \in Owned(r)') \/ Grows(x, <<r, page>>)'
  <2>1. ~ToMap(x, <<r, page>>) /\ ~Grows(x, <<r, page>>)'
    BY <1>3 DEF ToMap, Grows
  <2>2. Owned(r)' = Owned(r) /\ live' = live
    BY <1>1 DEF spaceVars, Owned
  <2>3. Mapped(<<r, page>>) <=> r \in live /\ <<r, page>> \in Owned(r)
    BY <1>1, IdleFacts
  <2> QED
    BY <2>1, <2>2, <2>3
<1>7. \A j \in 1..Len(x) : x[j].op # "share"
  BY <1>3
<1>8. live \subseteq live' /\ UNCHANGED <<frameVars, call, table, entry, failed, removed, leaked>>
  BY <1>1 DEF spaceVars
<1> QED
  BY <1>0, <1>1, <1>5, <1>6, <1>7, <1>8, CallSoundBegins
-----------------------------------------------------------------------------
(***************************************************************************)
(* The calls that give frames back.                                        *)
(***************************************************************************)

LEMMA PageHeld ==
  ASSUME RegionPages = 1, NEW t, NEW u \in Process \X Page, Mapped(u)
  PROVE  u \in Slot /\ Holding(t)[u] = FrameOf(u)
<1>1. u \in Slot /\ u # InCall /\ u[2] \notin Table
  BY SlotFacts
<1> QED
  BY <1>1 DEF Holding, Held

LEMMA FreedOwn ==
  ASSUME RegionPages = 1, NEW t, Run(t), NEW S \in SUBSET (Process \X Page), \A u \in S : Mapped(u), FreeOf(S)
  PROVE  /\ \A u \in S : Holding(t)[u] # 0
         /\ memoryArray' = memoryArray \ {Holding(t)[u] : u \in S}
         /\ usedBlocks' = (usedBlocks - Cardinality(S)) % UINT32
<1> DEFINE H == Holding(t)
<1>1. \A u \in S : H[u] = FrameOf(u) /\ FrameOf(u) # 0
  BY PageHeld DEF Run, Control
<1>2. {u \in S : FrameOf(u) # 0} = S
  BY <1>1
<1>3. Cardinality({u \in S : FrameOf(u) # 0}) = Cardinality(S)
  BY <1>2
<1>4. memoryArray' = memoryArray \ {H[u] : u \in S}
  <2>1. memoryArray' = memoryArray \ ({FrameOf(u) : u \in S} \ {0})
    BY DEF FreeOf, FreeBlock
  <2>2. {FrameOf(u) : u \in S} \ {0} = {H[u] : u \in S}
    BY <1>1
  <2> QED
    BY <2>1, <2>2
<1>5. usedBlocks' = (usedBlocks - Cardinality(S)) % UINT32
  <2>1. usedBlocks' = (usedBlocks - Cardinality({u \in S : FrameOf(u) # 0})) % UINT32
    BY DEF FreeOf, FreeBlock
  <2> QED
    BY <1>3, <2>1
<1>6. \A u \in S : H[u] # 0
  BY <1>1
<1> QED
  BY <1>4, <1>5, <1>6

LEMMA FreePageEffect ==
  ASSUME TypeOK, NEW S \in SUBSET (Process \X Page), FreePage(S)
  PROVE  /\ FreeOf(S)
         /\ \A v \in Process \X Page :
              (Mapped(v)' <=> Mapped(v) /\ v \notin S) /\ FrameOf(v)' = FrameOf(v)
<1>1. FreeOf(S)
  BY DEF FreePage, FreeOf
<1>2. entry \in [Process -> [Page -> [frame : Frame, present : BOOLEAN]]]
  BY DEF TypeOK
<1> SUFFICES ASSUME NEW v \in Process \X Page
             PROVE  (Mapped(v)' <=> Mapped(v) /\ v \notin S) /\ FrameOf(v)' = FrameOf(v)
  BY <1>1
<1>3. v[1] \in Process /\ v[2] \in Page /\ v = <<v[1], v[2]>>
  BY SMT
<1>4. entry'[v[1]][v[2]] = IF <<v[1], v[2]>> \in S THEN [entry[v[1]][v[2]] EXCEPT !.present = FALSE]
                           ELSE entry[v[1]][v[2]]
  BY <1>3 DEF FreePage
<1>5. entry[v[1]][v[2]] \in [frame : Frame, present : BOOLEAN]
  BY <1>2, <1>3
<1>6. CASE v \in S
  <2>1. entry'[v[1]][v[2]] = [entry[v[1]][v[2]] EXCEPT !.present = FALSE]
    BY <1>3, <1>4, <1>6
  <2> QED
    BY <1>5, <1>6, <2>1 DEF Mapped, FrameOf
<1>7. CASE v \notin S
  <2>1. entry'[v[1]][v[2]] = entry[v[1]][v[2]]
    BY <1>3, <1>4, <1>7
  <2> QED
    BY <1>7, <2>1 DEF Mapped, FrameOf
<1> QED
  BY <1>6, <1>7

(* Pages of S are freed, between calls. *)
LEMMA FreedHolding ==
  ASSUME RegionPages = 1, NEW t, TInv(t), Run(t), Idle(t), NEW S \in SUBSET (Process \X Page),
         UNCHANGED <<call, table, work>>,
         \A v \in Process \X Page :
            (Mapped(v)' <=> Mapped(v) /\ v \notin S) /\ FrameOf(v)' = FrameOf(v)
  PROVE  Holding(t)' = Emptied(Holding(t), S)
<1>1. \A u : ~Sharing(work[t], u)' /\ ~Sharing(work[t], u)
  <2>1. Len(work[t]) = 0 /\ Len(work'[t]) = 0
    BY IdleFacts
  <2> QED
    BY <2>1, SMT DEF Sharing
<1>2. \A v \in Slot : Held(t, v)' = IF v \in S THEN 0 ELSE Held(t, v)
  <2> SUFFICES ASSUME NEW v \in Slot
               PROVE  Held(t, v)' = IF v \in S THEN 0 ELSE Held(t, v)
    OBVIOUS
  <2>1. v # InCall /\ v[2] \notin Table => v \in Process \X Page
    BY SlotCases
  <2>2. v \in S => v \in Process \X Page /\ v # InCall /\ v[2] \notin Table
    BY SlotFacts
  <2>3. CASE v \in S
    BY <1>1, <2>2, <2>3 DEF Held
  <2>4. CASE v \notin S
    BY <1>1, <2>1, <2>4 DEF Held
  <2> QED
    BY <2>3, <2>4
<1>3. Holding(t)' = [v \in Slot |-> Held(t, v)'] /\ \A v \in Slot : Holding(t)[v] = Held(t, v)
  BY DEF Holding
<1> QED
  BY <1>2, <1>3 DEF Emptied

LEMMA FreedControl ==
  ASSUME RegionPages = 1, NEW t, TInv(t), Run(t), Idle(t), NEW S \in SUBSET (Process \X Page),
         UNCHANGED <<call, live, table, work>>,
         \A v \in Process \X Page :
            (Mapped(v)' <=> Mapped(v) /\ v \notin S) /\ FrameOf(v)' = FrameOf(v),
         \A p \in Process, page \in OwnPage :
            p \in live => (<<p, page>> \in Owned(p)' <=> <<p, page>> \in Owned(p) \ S)
  PROVE  Control(t)'
<1>1. Len(work[t]) = 0 /\ Len(work'[t]) = 0 /\ call'[t].at = "none"
  BY IdleFacts
<1>2. CallSound(t)' /\ WorkSound(work[t])'
  BY <1>1, SMT DEF CallSound, WorkSound
<1>3. Covered(t)'
  <2>0. PICK x : x = work'[t]
    OBVIOUS
  <2> SUFFICES ASSUME NEW p \in Process, NEW page \in OwnPage
               PROVE  Mapped(<<p, page>>)' \/ ToMap(x, <<p, page>>)
                       <=> (p \in live' /\ <<p, page>> \in Owned(p)') \/ Grows(x, <<p, page>>)'
    BY <2>0, CoveredNext, ZenonT(30)
  <2>1. ~ToMap(x, <<p, page>>) /\ ~Grows(x, <<p, page>>)'
    BY <1>1, <2>0, SMT DEF ToMap, Grows
  <2>2. Mapped(<<p, page>>)' <=> Mapped(<<p, page>>) /\ <<p, page>> \notin S
    BY SlotFacts
  <2>3. Mapped(<<p, page>>) <=> p \in live /\ <<p, page>> \in Owned(p)
    BY IdleFacts
  <2> QED
    BY <2>1, <2>2, <2>3
<1>4. \A p \in Process \ live' : Absent(p)'
  BY DEF Run, Control, Absent
<1>5. \A v \in Process \X Page : Mapped(v)' => FrameOf(v)' # 0
  BY DEF Run, Control
<1> QED
  BY <1>2, <1>3, <1>4, <1>5 DEF Control

LEMMA ShrinkHeapSound ==
  ASSUME RegionPages = 1, NEW t, Thread = {t}, TInv(t), Run(t),
         NEW p \in Process, NEW n \in 1..MaxHeap, ShrinkHeap(t, p, n)
  PROVE  Moves(t)
<1>0. PICK S, h : S = HeapPages(p, n, heapEnd[p]) /\ h = heapEnd[p]
  OBVIOUS
<1>1. /\ Idle(t) /\ p \in live /\ n < h /\ FreePage(S) /\ heapEnd' = [heapEnd EXCEPT ![p] = n]
      /\ UNCHANGED <<call, live, table, threads, work, failed, removed, leaked>>
  BY <1>0 DEF ShrinkHeap, HeapPages
<1>2. heapEnd \in [Process -> 0..MaxHeap] /\ threads \in [Process -> 0..MaxThreads]
      /\ h \in Nat /\ h <= MaxHeap /\ n \in Nat /\ MaxHeap \in Nat
  BY <1>0, AddressAssumption, SMT DEF TInv, TypeOK
<1>3. \A page : <<p, page>> \in S =>
        page \in OwnPage /\ page \in Pages("heap", h)
  <2>1. \A i \in (n + 1)..h : i \in 1..MaxHeap /\ i \in 1..h
    BY <1>2, SMT
  <2> QED
    BY <1>0, <2>1 DEF HeapPages, OwnPage, Pages
<1>4. \A u \in S : u = <<p, u[2]>>
  BY <1>0, SMT DEF HeapPages
<1>5. S \in SUBSET (Process \X Page) /\ S \subseteq OwnSlot
  <2>1. \A u \in S : u \in Process \X Page /\ u \in OwnSlot
    <3> SUFFICES ASSUME NEW u \in S
                 PROVE  u \in Process \X Page /\ u \in OwnSlot
      OBVIOUS
    <3>1. u = <<p, u[2]>> /\ u[2] \in OwnPage
      BY <1>3, <1>4
    <3> QED
      BY <3>1, SlotFacts, SMT DEF OwnSlot
  <2> QED
    BY <2>1
<1>6. \A u \in S : Mapped(u)
  <2> SUFFICES ASSUME NEW u \in S
               PROVE  Mapped(u)
    OBVIOUS
  <2>1. PICK page : page = u[2]
    OBVIOUS
  <2>2. u = <<p, page>> /\ page \in OwnPage /\ page \in Pages("heap", h)
    BY <1>3, <1>4, <2>1
  <2>3. <<p, page>> \in Owned(p)
    BY <1>0, <2>2, OwnedPages
  <2> QED
    BY <1>1, <2>2, <2>3, IdleFacts
<1>7. /\ FreeOf(S)
      /\ \A v \in Process \X Page :
              (Mapped(v)' <=> Mapped(v) /\ v \notin S) /\ FrameOf(v)' = FrameOf(v)
  BY <1>1, <1>5, FreePageEffect DEF TInv
<1>8. /\ \A u \in S : Holding(t)[u] # 0
      /\ memoryArray' = memoryArray \ {Holding(t)[u] : u \in S}
      /\ usedBlocks' = (usedBlocks - Cardinality(S)) % UINT32
  BY <1>5, <1>6, <1>7, FreedOwn
<1>9. Holding(t)' = Emptied(Emptied(Holding(t), S), {})
  <2>1. Holding(t)' = Emptied(Holding(t), S)
    BY <1>1, <1>5, <1>7, FreedHolding
  <2> QED
    BY <2>1 DEF Emptied
<1>10. ASSUME NEW q \in Process, NEW page \in OwnPage
       PROVE  <<q, page>> \in Owned(q)' <=> <<q, page>> \in Owned(q) \ S
  <2>1. CASE q = p
    <3>1. heapEnd'[q] = n /\ threads'[q] = threads[q] /\ heapEnd[q] = h
      BY <1>0, <1>1, <1>2, <2>1
    <3>2. /\ page \in Pages("heap", h) <=> page \in Pages("heap", n) \/ <<p, page>> \in S
          /\ ~(page \in Pages("heap", n) /\ <<p, page>> \in S)
      BY <1>0, <1>1, <1>2, HeapGrows, SMT
    <3>3. <<p, page>> \in S => page \notin Pages("stack", threads[q]) \cup Pages("code", 1)
      BY <1>3, SMT DEF Pages
    <3> QED
      BY <2>1, <3>1, <3>2, <3>3, OwnedPages
  <2>2. CASE q # p
    <3>1. heapEnd'[q] = heapEnd[q] /\ threads'[q] = threads[q]
      BY <1>1, <1>2, <2>2
    <3>2. <<q, page>> \notin S
      BY <1>4, <2>2
    <3> QED
      BY <3>1, <3>2, OwnedPages
  <2> QED
    BY <2>1, <2>2
<1>11. Control(t)'
  BY <1>1, <1>5, <1>7, <1>10, FreedControl
<1>12. GaveBack(t, S, {}) /\ ~failed'
  BY <1>1, <1>8, <1>9 DEF GaveBack, Run
<1>13. {} \in SUBSET Slot /\ S \in SUBSET OwnSlot
  BY <1>5
<1> QED
  BY <1>11, <1>12, <1>13 DEF Moves

LEMMA SharedIs ==
  ASSUME RegionPages = 1, NEW p
  PROVE  Shared(p) = {<<p, SharedPage>>}
BY SMT DEF Shared, Pages, SharedPage

LEMMA RemoveRegionSound ==
  ASSUME RegionPages = 1, NEW t, Thread = {t}, TInv(t), Run(t),
         NEW p \in Process, NEW q \in Process, RemoveSharedRegion(t, p, q)
  PROVE  Moves(t)
<1>0. PICK S, a, b : S = Shared(p) \cup Shared(q) /\ a = <<p, SharedPage>> /\ b = <<q, SharedPage>>
  OBVIOUS
<1>1. /\ Idle(t) /\ p # q /\ \A u \in S : Mapped(u)
      /\ FreePage(S) /\ removed' = removed + 1
      /\ UNCHANGED <<call, live, table, heapEnd, threads, work, failed, leaked>>
  BY <1>0 DEF RemoveSharedRegion
<1>2. S = {a, b} /\ a # b /\ a \in SharedSlot /\ b \in SharedSlot
      /\ a \in Process \X Page /\ b \in Process \X Page
  <2>1. Shared(p) = {a} /\ Shared(q) = {b}
    BY <1>0, SharedIs
  <2>2. SharedPage \in Page
    BY SMT DEF Page, Pages, SharedPage
  <2> QED
    BY <1>0, <1>1, <2>1, <2>2 DEF SharedSlot
<1>3. Mapped(a) /\ Mapped(b) /\ FrameOf(a) = FrameOf(b) /\ FrameOf(a) # 0
  <2>1. Mapped(a) /\ Mapped(b) /\ FrameOf(a) # 0
    BY <1>1, <1>2 DEF Run, Control
  <2>2. \A u \in Shared(p) : FrameOf(u) = FrameOf(<<q, u[2]>>)
    BY DEF RemoveSharedRegion
  <2>3. a \in Shared(p) /\ a[2] = SharedPage
    BY <1>0, SharedIs
  <2> QED
    BY <1>0, <2>1, <2>2, <2>3
<1>4. S \in SUBSET (Process \X Page)
  BY <1>2
<1>5. /\ FreeOf(S)
      /\ \A v \in Process \X Page :
              (Mapped(v)' <=> Mapped(v) /\ v \notin S) /\ FrameOf(v)' = FrameOf(v)
  BY <1>1, <1>4, FreePageEffect DEF TInv
<1>6. Holding(t)' = Emptied(Holding(t), S)
  BY <1>1, <1>4, <1>5, FreedHolding
<1>7. Control(t)'
  <2>1. ASSUME NEW r \in Process, NEW page \in OwnPage
        PROVE  <<r, page>> \in Owned(r)' <=> <<r, page>> \in Owned(r) \ S
    <3>1. <<r, page>> \notin S
      BY <1>2, SlotFacts
    <3>2. Owned(r)' = Owned(r)
      BY <1>1 DEF Owned
    <3> QED
      BY <3>1, <3>2
  <2> QED
    BY <1>1, <1>4, <1>5, <2>1, FreedControl
<1> DEFINE H == Holding(t)
           N == Cardinality({u \in S : FrameOf(u) # 0})
<1>8. H[a] = FrameOf(a) /\ H[b] = FrameOf(b)
  BY <1>2, <1>3, PageHeld
<1>9. memoryArray' = memoryArray \ {H[a]}
  <2>1. memoryArray' = memoryArray \ ({FrameOf(u) : u \in S} \ {0})
    BY <1>5 DEF FreeOf, FreeBlock
  <2>2. {FrameOf(u) : u \in S} \ {0} = {H[a]}
    BY <1>2, <1>3, <1>8
  <2> QED
    BY <2>1, <2>2
<1>10. usedBlocks' = (usedBlocks - Cardinality({a, b})) % UINT32
  <2>1. usedBlocks' = (usedBlocks - N) % UINT32
    BY <1>5 DEF FreeOf, FreeBlock
  <2>2. {u \in S : FrameOf(u) # 0} = {a, b}
    BY <1>2, <1>3
  <2> QED
    BY <2>1, <2>2
<1>11. Unshared(t, a, b) /\ ~failed'
  BY <1>1, <1>2, <1>3, <1>6, <1>8, <1>9, <1>10 DEF Unshared, Run
<1> QED
  BY <1>2, <1>7, <1>11 DEF Moves

LEMMA RemoveProcessSound ==
  ASSUME RegionPages = 1, NEW t, Thread = {t}, TInv(t), Run(t),
         NEW p \in Process, RemoveProcess(t, p)
  PROVE  Moves(t)
<1>0. PICK S, H, G : S = Owned(p) /\ H = Holding(t) /\ G = Emptied(Holding(t), Owned(p))
  OBVIOUS
<1>1. /\ Idle(t) /\ p \in live /\ FreeOf(S) /\ live' = live \ {p}
      /\ table' = [table EXCEPT ![p] = [d \in Table |-> 0]]
      /\ entry' = [entry EXCEPT ![p] = [page \in Page |-> NoEntry]]
      /\ heapEnd' = [heapEnd EXCEPT ![p] = 0] /\ threads' = [threads EXCEPT ![p] = 0]
      /\ UNCHANGED <<call, work, failed, removed>>
  BY <1>0 DEF RemoveProcess, FreeOf
<1>2. /\ heapEnd \in [Process -> 0..MaxHeap] /\ threads \in [Process -> 0..MaxThreads]
      /\ table \in [Process -> [Table -> Frame]]
      /\ entry \in [Process -> [Page -> [frame : Frame, present : BOOLEAN]]]
      /\ heapEnd[p] \in 0..MaxHeap /\ threads[p] \in 0..MaxThreads
      /\ MaxHeap \in Nat /\ MaxThreads \in Nat
  BY AddressAssumption DEF TInv, TypeOK
<1>3. \A u \in S : u = <<p, u[2]>> /\ u[2] \in OwnPage
  <2>1. 1..threads[p] \subseteq 1..MaxThreads /\ 1..heapEnd[p] \subseteq 1..MaxHeap
    BY <1>2, SMT
  <2> QED
    BY <1>0, <2>1, SMT DEF Owned, OwnPage, Pages
<1>4. S \in SUBSET (Process \X Page) /\ S \subseteq OwnSlot /\ \A u \in S : Mapped(u)
  <2>1. ASSUME NEW u \in S
        PROVE  u \in Process \X Page /\ u \in OwnSlot /\ Mapped(u)
    <3>1. PICK page : page = u[2]
      OBVIOUS
    <3>2. u = <<p, page>> /\ page \in OwnPage
      BY <1>3, <3>1
    <3>3. u \in Process \X Page /\ u \in OwnSlot
      BY <3>2, SlotFacts DEF OwnSlot
    <3>4. Mapped(<<p, page>>)
      BY <1>0, <1>1, <3>2, IdleFacts
    <3> QED
      BY <3>2, <3>3, <3>4
  <2> QED
    BY <2>1
<1>5. /\ \A u \in S : Holding(t)[u] # 0
      /\ memoryArray' = memoryArray \ {Holding(t)[u] : u \in S}
      /\ usedBlocks' = (usedBlocks - Cardinality(S)) % UINT32
  BY <1>1, <1>4, FreedOwn
<1>6. \A u \in Slot : G[u] = IF u \in S THEN 0 ELSE H[u]
  BY <1>0 DEF Emptied
<1>7. \A v \in Process \X Page :
         IF v[1] = p THEN ~Mapped(v)' ELSE (Mapped(v)' <=> Mapped(v)) /\ FrameOf(v)' = FrameOf(v)
  <2> SUFFICES ASSUME NEW v \in Process \X Page
               PROVE  IF v[1] = p THEN ~Mapped(v)'
                      ELSE (Mapped(v)' <=> Mapped(v)) /\ FrameOf(v)' = FrameOf(v)
    OBVIOUS
  <2>1. v[1] \in Process /\ v[2] \in Page
    OBVIOUS
  <2>2. CASE v[1] = p
    <3>1. entry'[v[1]][v[2]] = NoEntry
      BY <1>1, <1>2, <2>1, <2>2
    <3> QED
      BY <2>2, <3>1, SMT DEF Mapped, NoEntry
  <2>3. CASE v[1] # p
    <3>1. entry'[v[1]] = entry[v[1]]
      BY <1>1, <1>2, <2>1, <2>3
    <3> QED
      BY <2>3, <3>1 DEF Mapped, FrameOf
  <2> QED
    BY <2>2, <2>3
<1>8. \A q \in Process, d \in Table : table'[q][d] = IF q = p THEN 0 ELSE table[q][d]
  BY <1>1, <1>2
<1>9. Holding(t)' = Emptied(G, SlotsOf(p))
  <2>1. \A u : ~Sharing(work[t], u)' /\ ~Sharing(work[t], u)
    <3>1. Len(work[t]) = 0 /\ Len(work'[t]) = 0
      BY <1>1, IdleFacts
    <3> QED
      BY <3>1, SMT DEF Sharing
  <2>2. \A v \in Slot : Held(t, v)' = IF v \in SlotsOf(p) THEN 0 ELSE Held(t, v)
    <3> SUFFICES ASSUME NEW v \in Slot
                 PROVE  Held(t, v)' = IF v \in SlotsOf(p) THEN 0 ELSE Held(t, v)
      OBVIOUS
    <3>1. CASE v = InCall
      <4>1. v \notin SlotsOf(p)
        BY <3>1 DEF SlotsOf
      <4> QED
        BY <1>1, <3>1, <4>1 DEF Held
    <3>2. CASE v # InCall
      <4>1. v[1] \in Process /\ (v[2] \notin Table => v \in Process \X Page)
            /\ (v \in SlotsOf(p) <=> v[1] = p)
        BY <3>2, SlotCases DEF SlotsOf
      <4>2. CASE v[2] \in Table
        BY <1>8, <3>2, <4>1, <4>2 DEF Held
      <4>3. CASE v[2] \notin Table
        BY <1>7, <2>1, <3>2, <4>1, <4>3 DEF Held
      <4> QED
        BY <4>2, <4>3
    <3> QED
      BY <3>1, <3>2
  <2>3. Holding(t)' = [v \in Slot |-> Held(t, v)'] /\ \A v \in Slot : H[v] = Held(t, v)
    BY <1>0 DEF Holding
  <2>4. \A v \in S : v \in SlotsOf(p)
    BY <1>3, <1>4, SlotFacts, SMT DEF SlotsOf
  <2> QED
    BY <1>6, <2>2, <2>3, <2>4 DEF Emptied
<1>10. GaveBack(t, S, SlotsOf(p))
  <2>1. leaked \subseteq leaked' /\ SlotsOf(p) \in SUBSET Slot
    BY DEF RemoveProcess, SlotsOf
  <2>2. ASSUME NEW u \in SlotsOf(p) \ S, H[u] \in Usable
        PROVE  H[u] \in leaked' \/ \E v \in Slot \ (S \cup SlotsOf(p)) : H[v] = H[u]
    <3>1. u \in Slot /\ u # InCall /\ u[1] = p /\ H[u] # 0
      BY <2>2 DEF SlotsOf, Usable
    <3>2. u \notin S /\ H[u] = Held(t, u)
      BY <1>0, <3>1 DEF Holding
    <3>3. u = <<p, u[2]>> /\ u[2] \in Page \cup Table
      BY <3>1, SlotCases
    <3>4. CASE u[2] \in Table
      <4>1. H[u] = table[p][u[2]]
        BY <3>1, <3>2, <3>4 DEF Held
      <4>2. {table[p][d] : d \in Table} \ {0} \subseteq leaked'
        BY DEF RemoveProcess
      <4> QED
        BY <3>1, <3>4, <4>1, <4>2
    <3>5. CASE u[2] \notin Table
      <4>1. u \in Process \X Page /\ Mapped(u) /\ H[u] = FrameOf(u)
        <5>1. ~Sharing(work[t], u)
          BY <1>1, IdleFacts
        <5> QED
          BY <3>1, <3>2, <3>3, <3>5, <5>1 DEF Held
      <4>2. u[2] \notin OwnPage
        <5> SUFFICES ASSUME u[2] \in OwnPage
                     PROVE  FALSE
          OBVIOUS
        <5>1. PICK page : page = u[2]
          OBVIOUS
        <5>2. <<p, page>> \in Owned(p)
          BY <1>1, <3>3, <4>1, <5>1, IdleFacts
        <5> QED
          BY <1>0, <3>2, <3>3, <5>1, <5>2
      <4>3. u = <<p, SharedPage>> /\ u \in Shared(p)
        <5>1. u[2] \in Pages("shared", 1)
          BY <3>3, <3>5, <4>2 DEF Page, OwnPage
        <5> QED
          BY <3>3, <5>1, SharedIs, SMT DEF Pages, SharedPage
      <4>4. CASE \A q \in live \ {p} : ~\E w \in Shared(q) : Mapped(w) /\ FrameOf(w) = FrameOf(u)
        <5>1. {FrameOf(r) : r \in {v \in Shared(p) : Mapped(v)
                 /\ \A q \in live \ {p} : ~\E w \in Shared(q) : Mapped(w) /\ FrameOf(w) = FrameOf(v)}}
                \subseteq leaked'
          BY DEF RemoveProcess
        <5> QED
          BY <4>1, <4>3, <4>4, <5>1
      <4>5. ASSUME NEW q \in live \ {p}, NEW w \in Shared(q), Mapped(w), FrameOf(w) = FrameOf(u)
            PROVE  \E v \in Slot \ (S \cup SlotsOf(p)) : H[v] = H[u]
        <5>1. q \in Process /\ w = <<q, SharedPage>> /\ SharedPage \in Page
          BY SharedIs, SMT DEF TInv, TypeOK, Page, Pages, SharedPage
        <5>2. w \in Process \X Page /\ w \notin S /\ w \notin SlotsOf(p)
          BY <1>3, <4>5, <5>1 DEF SlotsOf
        <5>3. w \in Slot /\ H[w] = FrameOf(w)
          BY <1>0, <4>5, <5>2, PageHeld
        <5>4. H[w] = H[u]
          BY <4>1, <4>5, <5>3
        <5> QED
          BY <5>2, <5>3, <5>4
      <4> QED
        BY <4>4, <4>5
    <3> QED
      BY <3>4, <3>5
  <2>3. Holding(t)' = Emptied(Emptied(Holding(t), S), SlotsOf(p)) /\ H = Holding(t)
    BY <1>0, <1>9
  <2> QED
    BY <1>1, <1>5, <2>1, <2>2, <2>3 DEF GaveBack
<1>11. Control(t)'
  <2>1. Len(work[t]) = 0 /\ Len(work'[t]) = 0 /\ call'[t].at = "none"
    BY <1>1, IdleFacts
  <2>2. CallSound(t)' /\ WorkSound(work[t])'
    BY <2>1, SMT DEF CallSound, WorkSound
  <2>3. Covered(t)'
    <3>0. PICK x : x = work'[t]
      OBVIOUS
    <3> SUFFICES ASSUME NEW q \in Process, NEW page \in OwnPage
                 PROVE  Mapped(<<q, page>>)' \/ ToMap(x, <<q, page>>)
                         <=> (q \in live' /\ <<q, page>> \in Owned(q)') \/ Grows(x, <<q, page>>)'
      BY <3>0, CoveredNext
    <3>1. ~ToMap(x, <<q, page>>) /\ ~Grows(x, <<q, page>>)'
      BY <2>1, <3>0, SMT DEF ToMap, Grows
    <3>2. <<q, page>> \in Process \X Page /\ <<q, page>>[1] = q
      BY SlotFacts
    <3>3. CASE q = p
      <4>1. ~Mapped(<<q, page>>)'
        BY <1>7, <3>2, <3>3
      <4> QED
        BY <1>1, <3>1, <3>3, <4>1
    <3>4. CASE q # p
      <4>1. Mapped(<<q, page>>)' <=> Mapped(<<q, page>>)
        BY <1>7, <3>2, <3>4
      <4>2. Mapped(<<q, page>>) <=> q \in live /\ <<q, page>> \in Owned(q)
        BY <1>1, IdleFacts
      <4>3. heapEnd'[q] = heapEnd[q] /\ threads'[q] = threads[q]
        BY <1>1, <1>2, <3>4
      <4>4. <<q, page>> \in Owned(q)' <=> <<q, page>> \in Owned(q)
        BY <4>3, OwnedPages
      <4> QED
        BY <1>1, <3>1, <3>4, <4>1, <4>2, <4>4
    <3> QED
      BY <3>3, <3>4
  <2>4. \A q \in Process \ live' : Absent(q)'
    <3> SUFFICES ASSUME NEW q \in Process \ live'
                 PROVE  Absent(q)'
      OBVIOUS
    <3>1. q # p => Absent(q)
      BY <1>1 DEF Run, Control
    <3>2. \A d \in Table : table'[q][d] = 0
      BY <1>8, <3>1 DEF Absent
    <3>3. \A page \in Page : ~Mapped(<<q, page>>)'
      <4> SUFFICES ASSUME NEW page \in Page
                   PROVE  ~Mapped(<<q, page>>)'
        OBVIOUS
      <4>1. <<q, page>> \in Process \X Page /\ <<q, page>>[1] = q
        OBVIOUS
      <4>2. q # p => ~Mapped(<<q, page>>)
        BY <3>1 DEF Absent
      <4> QED
        BY <1>7, <4>1, <4>2
    <3> QED
      BY <3>2, <3>3 DEF Absent
  <2>5. \A v \in Process \X Page : Mapped(v)' => FrameOf(v)' # 0
    BY <1>7 DEF Run, Control
  <2> QED
    BY <2>2, <2>3, <2>4, <2>5 DEF Control
<1>12. ~failed' /\ S \in SUBSET OwnSlot /\ SlotsOf(p) \in SUBSET Slot
  BY <1>1, <1>4 DEF Run, SlotsOf
<1> QED
  BY <1>10, <1>11, <1>12 DEF Moves
=============================================================================
