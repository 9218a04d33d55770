------------------------------ MODULE FATProofs ------------------------------
(***************************************************************************)
(* Clusters of FAT: for any disk, search hint, names and lengths, no two   *)
(* references name one cluster and every chain ends, until the table hands *)
(* out a cluster it could not mark.  How directories are read does not     *)
(* matter for it.                                                          *)
(***************************************************************************)
EXTENDS FAT, FiniteSetTheorems, NaturalsInduction, WellFoundedInduction, TLAPS

(* Zenon proves the steps that name no prover. *)
USE Zenon
-----------------------------------------------------------------------------
(***************************************************************************)
(* The inductive invariant.  The locals of a call have their types, and    *)
(* the fields its later steps change are there.                            *)
(***************************************************************************)
Creating(o) ==
    /\ o.path \in Path /\ o.name \in Name /\ o.dir \in BOOLEAN
    /\ o.len \in -1..MaxLen /\ o.new \in Number

GrowPc == {"clear", "link"}
EntryPc == {"lfn", "entry", "cleartmp", "tmpentry", "clearnew", "dots"}
DataPc == {"data", "extend", "linkdata", "modify"}
FindFields == {"pc", "path", "name", "dir", "len", "root", "chain", "new"}
EntryFields == {"pc", "path", "name", "dir", "len", "root", "new", "i", "tmp", "sector", "slot", "lfnAt"}

Finding(o) == o.pc = "find" /\ DOMAIN o = FindFields /\ Creating(o)

OpTyped ==
    /\ op.pc \in {"idle", "find", "open"} \cup GrowPc \cup EntryPc \cup DataPc
    /\ op.pc = "find" => Finding(op)
    /\ op.pc \in GrowPc =>
         DOMAIN op = {"pc", "grown", "back"} /\ op.grown \in Number /\ Finding(op.back)
    /\ op.pc \in EntryPc =>
         /\ DOMAIN op = EntryFields /\ Creating(op) /\ op.i \in 0..2 /\ op.tmp \in Number
         /\ op.pc = "lfn" => op.i < LFNEntries(op.name)
    /\ op.pc = "open" => op.path \in Path /\ op.len \in 0..MaxLen
    /\ op.pc \in DataPc =>
         /\ DOMAIN op = {"pc", "path", "len", "at", "cluster", "next", "i"}
         /\ op.len \in 0..MaxLen /\ op.next \in Number

(* The call in progress has allocated c, and nothing names it yet. *)
Pending(c) ==
    \/ op.pc \in {"find", "lfn", "entry", "cleartmp", "tmpentry"} /\ c = op.new
    \/ op.pc \in GrowPc /\ (c = op.grown \/ c = op.back.new)
    \/ op.pc = "linkdata" /\ c = op.next

GrowsByAnother == op.pc \in GrowPc => op.grown # op.back.new

(* One reference for each cluster and none for those to come, and all of    *)
(* them are marked in the table, so that they are not allocated again.      *)
Disjoint ==
    /\ \A r, s \in Reference : Target(r) \in Cluster /\ Target(r) = Target(s) => r = s
    /\ \A r \in Reference : Target(r) \in Cluster => table[Target(r)] # CLUSTER_FREE
    /\ \A c : Pending(c) => /\ c \in Cluster /\ table[c] # CLUSTER_FREE
                            /\ \A r \in Reference : Target(r) # c

FirstsReal ==
    \A s \in Sector, k \in Slot : disk[s][k].kind = "entry" => disk[s][k].first \in Cluster

(* TypeOK without the hint on the disk, which no step changes. *)
Typed ==
    /\ table \in [Cluster -> Number \cup {CLUSTER_END}]
    /\ disk \in [Sector -> [Slot -> AnyItem]]
    /\ startSearchCluster \in Nat
    /\ trouble \subseteq Trouble /\ uncleared \subseteq Number /\ made \subseteq Path

FInv == Typed /\ OpTyped /\ (Sound => Disjoint /\ GrowsByAnother /\ FirstsReal)

FHInv == FInv /\ fsInfo \in Nat
-----------------------------------------------------------------------------
(***************************************************************************)
(* Allocation.                                                             *)
(***************************************************************************)
(* A non-empty set of natural numbers has a least element. *)
LEMMA LeastNat ==
  ASSUME NEW S \in SUBSET Nat, S # {}
  PROVE  \E n \in S : \A m \in S : n <= m
<1>1. IsWellFoundedOn(OpToRel(<, Nat), Nat)
  BY NatLessThanWellFounded
<1>2. PICK n \in S : \A m \in S : ~(<<m, n>> \in OpToRel(<, Nat))
  BY <1>1, WFMin
<1>3. ASSUME NEW m \in S
      PROVE  n <= m
  <2>1. ~(m < n)
    BY <1>2 DEF OpToRel
  <2>2. m \in Nat /\ n \in Nat
    OBVIOUS
  <2> QED
    BY <2>1, <2>2, SMT
<1> QED
  BY <1>3

LEMMA ClusterNumbers ==
  /\ CLUSTER_FREE \notin Cluster /\ CLUSTER_END \notin Cluster
  /\ CLUSTER_FREE # CLUSTER_END /\ 0 \notin Cluster /\ CLUSTER_FREE = 0
  /\ rootDirCluster \in Cluster /\ Cluster \subseteq Number /\ 0 \in Number /\ Number \subseteq Nat
BY FATAssumption, SMT DEF CLUSTER_FREE, CLUSTER_END, Cluster, rootDirCluster, Number

(* AllocateCluster takes a cluster the table calls free, or a number below. *)
LEMMA NewIsFree ==
  ASSUME Typed
  PROVE  /\ NewCluster \in Number
         /\ NewCluster \in Cluster => table[NewCluster] = CLUSTER_FREE
<1> DEFINE free == {c \in startSearchCluster..(totalClusters - 1) : ReadTable(c) = CLUSTER_FREE}
<1>1. NewCluster = IF free = {} THEN 0 ELSE Min(free)
  BY DEF NewCluster
<1>2. free \in SUBSET Nat /\ free \subseteq Number
  BY FATAssumption, SMT DEF Typed, Number
<1>3. free # {} => \E n \in free : \A m \in free : n <= m
  BY <1>2, LeastNat
<1>4. \A c \in free : ReadTable(c) = CLUSTER_FREE
  OBVIOUS
<1> HIDE DEF free
<1>5. free # {} => Min(free) \in free
  BY <1>3 DEF Min
<1>6. NewCluster \in Number
  BY <1>1, <1>2, <1>5, ClusterNumbers
<1>7. NewCluster \in Cluster => table[NewCluster] = CLUSTER_FREE
  BY <1>1, <1>4, <1>5, ClusterNumbers DEF ReadTable
<1> QED
  BY <1>6, <1>7

LEMMA AllocationTyped ==
  ASSUME Typed, NEW more \in SUBSET Trouble, AllocateCluster(more)
  PROVE  /\ Typed' /\ NewCluster \in Number /\ disk' = disk /\ made' = made
         /\ Sound' => /\ NewCluster \in Cluster /\ table[NewCluster] = CLUSTER_FREE /\ Sound
                      /\ table' = [table EXCEPT ![NewCluster] = CLUSTER_END]
<1>0. /\ NewCluster \in Number /\ (NewCluster \in Cluster => table[NewCluster] = CLUSTER_FREE)
      /\ UNCHANGED <<disk, uncleared, made>>
      /\ "nocluster" \in Trouble /\ "unmarked" \in Trouble
  BY NewIsFree DEF AllocateCluster, Trouble
<1>1. CASE NewCluster \notin Cluster
  <2>1. table' = table /\ startSearchCluster' = startSearchCluster /\ trouble' = trouble \cup more \cup {"nocluster"}
    BY <1>1 DEF AllocateCluster
  <2>2. ~Sound'
    BY <2>1 DEF Sound
  <2> QED
    BY <1>0, <2>1, <2>2 DEF Typed
<1>2. CASE /\ NewCluster \in Cluster /\ startSearchCluster' = NewCluster
           /\ WriteTable(NewCluster, CLUSTER_END) /\ trouble' = trouble \cup more
  <2>1. table' = [table EXCEPT ![NewCluster] = CLUSTER_END]
    BY <1>2 DEF WriteTable
  <2>2. NewCluster \in Nat /\ (Sound' => Sound)
    BY <1>0, <1>2, ClusterNumbers DEF Sound
  <2>3. table' \in [Cluster -> Number \cup {CLUSTER_END}]
    BY <2>1 DEF Typed
  <2> QED
    BY <1>0, <1>2, <2>1, <2>2, <2>3 DEF Typed
<1>3. CASE /\ NewCluster \in Cluster /\ startSearchCluster' = NewCluster
           /\ table' = table /\ trouble' = trouble \cup more \cup {"unmarked"}
  <2>1. NewCluster \in Nat /\ ~Sound'
    BY <1>0, <1>3, ClusterNumbers DEF Sound
  <2> QED
    BY <1>0, <1>3, <2>1 DEF Typed
<1> QED
  BY <1>1, <1>2, <1>3 DEF AllocateCluster
-----------------------------------------------------------------------------
(***************************************************************************)
(* References.  EntryTarget and RootTarget are the first and the last of   *)
(* the three cases of Target.                                              *)
(***************************************************************************)
EntryTarget(s, k) == IF disk[s][k].kind = "entry" THEN disk[s][k].first ELSE 0
RootTarget == IF FatType = "FAT32" THEN rootDirCluster ELSE 0

LEMMA TargetOfEntry ==
  ASSUME NEW s \in Sector, NEW k \in Slot
  PROVE  /\ <<"entry", s, k>> \in Reference
         /\ Target(<<"entry", s, k>>) = EntryTarget(s, k)
         /\ Target(<<"entry", s, k>>)' = EntryTarget(s, k)'
BY SMT DEF Reference, Target, EntryTarget

LEMMA TargetOfLink ==
  ASSUME NEW c \in Cluster
  PROVE  /\ <<"link", c, 0>> \in Reference
         /\ Target(<<"link", c, 0>>) = table[c]
         /\ Target(<<"link", c, 0>>)' = table'[c]
BY SMT DEF Reference, Target

LEMMA TargetOfRoot ==
  /\ <<"root", 0, 0>> \in Reference
  /\ Target(<<"root", 0, 0>>) = RootTarget /\ Target(<<"root", 0, 0>>)' = RootTarget
BY SMT DEF Reference, Target, RootTarget, rootDirCluster

LEMMA ReferenceKinds ==
  ASSUME NEW r \in Reference
  PROVE  \/ \E s \in Sector, k \in Slot : r = <<"entry", s, k>>
         \/ \E c \in Cluster : r = <<"link", c, 0>>
         \/ r = <<"root", 0, 0>>
BY SMT DEF Reference

(* No reference changes but to name nothing. *)
Unnamed == \A r \in Reference : Target(r)' = Target(r) \/ Target(r)' \notin Cluster
StillMarked == \A c \in Cluster : table[c] # CLUSTER_FREE => table'[c] # CLUSTER_FREE

LEMMA DisjointKept ==
  ASSUME Disjoint, Unnamed, StillMarked, \A c : Pending(c)' => Pending(c)
  PROVE  Disjoint'
<1>1. \A r, s \in Reference : Target(r)' \in Cluster /\ Target(r)' = Target(s)' => r = s
  BY DEF Disjoint, Unnamed
<1>2. \A r \in Reference : Target(r)' \in Cluster => table'[Target(r)'] # CLUSTER_FREE
  BY DEF Disjoint, Unnamed, StillMarked
<1>3. \A c : Pending(c)' => /\ c \in Cluster /\ table'[c] # CLUSTER_FREE
                            /\ \A r \in Reference : Target(r)' # c
  BY DEF Disjoint, Unnamed, StillMarked
<1> QED
  BY <1>1, <1>2, <1>3 DEF Disjoint

(* One reference takes a pending cluster. *)
LEMMA DisjointNamed ==
  ASSUME Disjoint, NEW q \in Reference, NEW n, Pending(n), ~Pending(n)',
         \A r \in Reference : r # q => Target(r)' = Target(r) \/ Target(r)' \notin Cluster,
         Target(q)' = n \/ Target(q)' \notin Cluster,
         StillMarked, \A c : Pending(c)' => Pending(c)
  PROVE  Disjoint'
<1>1. \A r, s \in Reference : Target(r)' \in Cluster /\ Target(r)' = Target(s)' => r = s
  BY DEF Disjoint
<1>2. \A r \in Reference : Target(r)' \in Cluster => table'[Target(r)'] # CLUSTER_FREE
  BY DEF Disjoint, StillMarked
<1>3. \A c : Pending(c)' => /\ c \in Cluster /\ table'[c] # CLUSTER_FREE
                            /\ \A r \in Reference : Target(r)' # c
  BY DEF Disjoint, StillMarked
<1> QED
  BY <1>1, <1>2, <1>3 DEF Disjoint

(* A cluster is allocated and becomes pending. *)
LEMMA DisjointAllocated ==
  ASSUME Typed, Disjoint, NEW n \in Cluster, table[n] = CLUSTER_FREE,
         table' = [table EXCEPT ![n] = CLUSTER_END], disk' = disk,
         \A c : Pending(c)' => Pending(c) \/ c = n
  PROVE  Disjoint' /\ ~Pending(n)
<1>1. \A c \in Cluster : table'[c] = IF c = n THEN CLUSTER_END ELSE table[c]
  BY DEF Typed
<1>2. Unnamed
  <2> SUFFICES ASSUME NEW r \in Reference PROVE Target(r)' = Target(r) \/ Target(r)' \notin Cluster
    BY DEF Unnamed
  <2>1. CASE \E s \in Sector, k \in Slot : r = <<"entry", s, k>>
    BY <2>1, TargetOfEntry DEF EntryTarget
  <2>2. CASE \E c \in Cluster : r = <<"link", c, 0>>
    <3>1. PICK c \in Cluster : r = <<"link", c, 0>>
      BY <2>2
    <3>2. Target(r) = table[c] /\ Target(r)' = table'[c]
      BY <3>1, TargetOfLink
    <3> QED
      BY <1>1, <3>2, ClusterNumbers
  <2>3. CASE r = <<"root", 0, 0>>
    BY <2>3, TargetOfRoot
  <2> QED
    BY <2>1, <2>2, <2>3, ReferenceKinds
<1>3. StillMarked
  BY <1>1, ClusterNumbers DEF StillMarked
<1>4. ~Pending(n) /\ \A r \in Reference : Target(r) # n
  BY DEF Disjoint
<1>5. \A r, s \in Reference : Target(r)' \in Cluster /\ Target(r)' = Target(s)' => r = s
  BY <1>2 DEF Disjoint, Unnamed
<1>6. \A r \in Reference : Target(r)' \in Cluster => table'[Target(r)'] # CLUSTER_FREE
  BY <1>2, <1>3 DEF Disjoint, Unnamed, StillMarked
<1>7. \A c : Pending(c)' => /\ c \in Cluster /\ table'[c] # CLUSTER_FREE
                            /\ \A r \in Reference : Target(r)' # c
  BY <1>1, <1>2, <1>3, <1>4, ClusterNumbers DEF Disjoint, Unnamed, StillMarked
<1> QED
  BY <1>4, <1>5, <1>6, <1>7 DEF Disjoint
-----------------------------------------------------------------------------
(***************************************************************************)
(* Writing sectors and links.                                              *)
(***************************************************************************)
LEMMA PutTyped ==
  ASSUME Typed, NEW sector, NEW content, Put(sector, content),
         sector \in Sector => content \in [Slot -> AnyItem],
         trouble' \subseteq Trouble
  PROVE  /\ Typed' /\ table' = table
         /\ \A s \in Sector : disk'[s] = IF s = sector THEN content ELSE disk[s]
<1>1. UNCHANGED <<table, startSearchCluster, uncleared, made>>
  BY DEF Put
<1>2. disk' \in [Sector -> [Slot -> AnyItem]]
  BY DEF Put, Typed
<1>3. \A s \in Sector : disk'[s] = IF s = sector THEN content ELSE disk[s]
  BY DEF Put, Typed
<1> QED
  BY <1>1, <1>2, <1>3 DEF Typed

LEMMA PutItemTyped ==
  ASSUME Typed, NEW sector, NEW slot, NEW item \in AnyItem, PutItem(sector, slot, item),
         trouble' \subseteq Trouble
  PROVE  /\ Typed' /\ table' = table
         /\ \A s \in Sector, k \in Slot :
               disk'[s][k] = IF s = sector /\ k = slot THEN item ELSE disk[s][k]
<1> DEFINE content == [disk[sector] EXCEPT ![slot] = item]
<1>1. sector \in Sector => content \in [Slot -> AnyItem]
  BY DEF Typed
<1>2. Put(sector, content)
  BY DEF PutItem
<1>3. sector \in Sector => \A k \in Slot : content[k] = IF k = slot THEN item ELSE disk[sector][k]
  BY DEF Typed
<1> HIDE DEF content
<1>4. /\ Typed' /\ table' = table
      /\ \A s \in Sector : disk'[s] = IF s = sector THEN content ELSE disk[s]
  BY <1>1, <1>2, PutTyped
<1> QED
  BY <1>3, <1>4

LEMMA Items3 ==
  /\ \A kind \in {"end", "data", "dot"} : Item(kind) \in AnyItem /\ Item(kind).kind # "entry"
  /\ \A kind \in {"end", "data", "dot"} : Filled(kind) \in [Slot -> AnyItem]
  /\ \A kind \in {"end", "data", "dot"}, k \in Slot : Filled(kind)[k].kind # "entry"
<1>1. \A kind \in {"end", "data", "dot"} : Item(kind) \in AnyItem /\ Item(kind).kind = kind
  BY SMT DEF Item, AnyItem
<1> QED
  BY <1>1 DEF Filled

(* Slots are given something that is no entry, or keep their cluster. *)
NoEntryAdded ==
    \A s \in Sector, k \in Slot :
        \/ disk'[s][k].kind # "entry"
        \/ disk[s][k].kind = "entry" /\ disk'[s][k].first = disk[s][k].first

LEMMA DiskUnnamed ==
  ASSUME table' = table, NoEntryAdded
  PROVE  Unnamed /\ StillMarked /\ (FirstsReal => FirstsReal')
<1>1. \A s \in Sector, k \in Slot : EntryTarget(s, k)' = EntryTarget(s, k) \/ EntryTarget(s, k)' = 0
  BY DEF NoEntryAdded, EntryTarget
<1>2. ASSUME NEW r \in Reference
      PROVE  Target(r)' = Target(r) \/ Target(r)' = 0
  <2>1. CASE \E s \in Sector, k \in Slot : r = <<"entry", s, k>>
    <3>1. PICK s \in Sector, k \in Slot : r = <<"entry", s, k>>
      BY <2>1
    <3>2. Target(r) = EntryTarget(s, k) /\ Target(r)' = EntryTarget(s, k)'
      BY <3>1, TargetOfEntry
    <3> QED
      BY <1>1, <3>2
  <2>2. CASE \E c \in Cluster : r = <<"link", c, 0>>
    BY <2>2, TargetOfLink
  <2>3. CASE r = <<"root", 0, 0>>
    BY <2>3, TargetOfRoot
  <2> QED
    BY <2>1, <2>2, <2>3, ReferenceKinds
<1>3. Unnamed /\ StillMarked
  BY <1>2, ClusterNumbers DEF Unnamed, StillMarked
<1>4. FirstsReal => FirstsReal'
  BY DEF FirstsReal, NoEntryAdded
<1> QED
  BY <1>3, <1>4

LEMMA SameDisk ==
  ASSUME disk' = disk
  PROVE  NoEntryAdded
BY DEF NoEntryAdded

LEMMA ClearTyped ==
  ASSUME Typed, NEW c \in Number, ClearCluster(c), made' \subseteq Path
  PROVE  Typed' /\ NoEntryAdded /\ UNCHANGED <<table, trouble>> /\ (Sound' => Sound)
<1>1. UNCHANGED <<table, startSearchCluster, trouble>>
  BY DEF ClearCluster
<1>2. CASE disk' = [disk EXCEPT ![c] = Filled("end")] /\ uncleared' = uncleared
  <2>1. /\ disk' \in [Sector -> [Slot -> AnyItem]]
        /\ \A s \in Sector : disk'[s] = IF s = c THEN Filled("end") ELSE disk[s]
    BY <1>2, Items3 DEF Typed
  <2>2. NoEntryAdded
    BY <2>1, Items3 DEF NoEntryAdded
  <2> QED
    BY <1>1, <1>2, <2>1, <2>2 DEF Typed, Sound
<1>3. CASE disk' = disk /\ uncleared' = uncleared \cup {c}
  BY <1>1, <1>3, SameDisk DEF Typed, Sound
<1> QED
  BY <1>2, <1>3 DEF ClearCluster

LEMMA LinkTyped ==
  ASSUME Typed, NEW c, NEW n \in Number, Link(c, n)
  PROVE  /\ Typed' /\ disk' = disk /\ (Sound' => Sound)
         /\ \/ table' = table
            \/ \A d \in Cluster : table'[d] = IF d = c THEN n ELSE table[d]
<1>1. UNCHANGED <<disk, startSearchCluster, uncleared, made>>
  BY DEF Link
<1>2. CASE WriteTable(c, n) /\ trouble' = trouble
  <2>1. table' \in [Cluster -> Number \cup {CLUSTER_END}]
    BY <1>2 DEF WriteTable, Typed
  <2>2. \A d \in Cluster : table'[d] = IF d = c THEN n ELSE table[d]
    BY <1>2 DEF WriteTable, Typed
  <2> QED
    BY <1>1, <1>2, <2>1, <2>2 DEF Typed, Sound
<1>3. CASE table' = table /\ trouble' = trouble \cup {"unlinked"}
  BY <1>1, <1>3 DEF Typed, Sound, Trouble
<1> QED
  BY <1>2, <1>3 DEF Link

(* A pending cluster is appended to a chain. *)
LEMMA LinkDisjoint ==
  ASSUME Typed, Disjoint, NEW c, NEW n, Pending(n), ~Pending(n)', Link(c, n),
         \A d : Pending(d)' => Pending(d)
  PROVE  Disjoint'
<1>1. n \in Cluster /\ table[n] # CLUSTER_FREE
  BY DEF Disjoint
<1>0. /\ disk' = disk
      /\ \/ table' = table
         \/ \A d \in Cluster : table'[d] = IF d = c THEN n ELSE table[d]
  BY <1>1, LinkTyped, ClusterNumbers
<1> SUFFICES ASSUME \A d \in Cluster : table'[d] = IF d = c THEN n ELSE table[d]
             PROVE  Disjoint'
  BY <1>0, SameDisk, DiskUnnamed, DisjointKept
<1>2. disk' = disk /\ \A d \in Cluster : table'[d] = IF d = c THEN n ELSE table[d]
  BY <1>0
<1>3. StillMarked
  BY <1>1, <1>2, ClusterNumbers DEF StillMarked
<1>4. ASSUME NEW r \in Reference, r # <<"link", c, 0>>
      PROVE  Target(r)' = Target(r)
  <2>1. CASE \E s \in Sector, k \in Slot : r = <<"entry", s, k>>
    BY <1>2, <2>1, TargetOfEntry DEF EntryTarget
  <2>2. CASE \E d \in Cluster : r = <<"link", d, 0>>
    <3>1. PICK d \in Cluster : r = <<"link", d, 0>>
      BY <2>2
    <3>2. d # c
      BY <1>4, <3>1
    <3> QED
      BY <1>2, <3>1, <3>2, TargetOfLink
  <2>3. CASE r = <<"root", 0, 0>>
    BY <2>3, TargetOfRoot
  <2> QED
    BY <2>1, <2>2, <2>3, ReferenceKinds
<1>5. CASE c \in Cluster
  <2>1. <<"link", c, 0>> \in Reference /\ Target(<<"link", c, 0>>)' = n
    BY <1>2, <1>5, TargetOfLink
  <2> QED
    BY <1>3, <1>4, <2>1, DisjointNamed
<1>6. CASE c \notin Cluster
  <2>1. <<"link", c, 0>> \notin Reference
    BY <1>6, SMT DEF Reference
  <2>2. Unnamed
    BY <1>4, <2>1 DEF Unnamed
  <2> QED
    BY <1>3, <2>2, DisjointKept
<1> QED
  BY <1>5, <1>6
-----------------------------------------------------------------------------
(***************************************************************************)
(* The steps of a creation.                                                *)
(***************************************************************************)
(* No cluster becomes pending and no reference is added. *)
LEMMA Quiet ==
  ASSUME FInv, Typed', OpTyped', table' = table, NoEntryAdded, Sound' => Sound,
         \A c : Pending(c)' => Pending(c), GrowsByAnother => GrowsByAnother'
  PROVE  FInv'
<1>1. Unnamed /\ StillMarked /\ (FirstsReal => FirstsReal')
  BY DiskUnnamed
<1>2. Disjoint => Disjoint'
  BY <1>1, DisjointKept
<1> QED
  BY <1>1, <1>2 DEF FInv

LEMMA IdleKeeps ==
  ASSUME FInv, Typed', op' = Idle, table' = table, NoEntryAdded, Sound' => Sound
  PROVE  FInv'
<1>1. op'.pc = "idle"
  BY DEF Idle
<1>2. OpTyped' /\ GrowsByAnother' /\ \A c : ~Pending(c)'
  BY <1>1 DEF OpTyped, GrowsByAnother, Pending, GrowPc, EntryPc, DataPc
<1> QED
  BY <1>2, Quiet

LEMMA NameOfPath ==
  ASSUME NEW path \in Path
  PROVE  path[Len(path)] \in Name
<1>1. CASE \E n \in Name : path = <<n>>
  BY <1>1, SMT
<1>2. CASE \E d, n \in Name : path = <<d, n>>
  BY <1>2, SMT
<1>3. (\E n \in Name : path = <<n>>) \/ \E d, n \in Name : path = <<d, n>>
  BY SMT DEF Path
<1> QED
  BY <1>1, <1>2, <1>3

LEMMA Lengths ==
  /\ -1 \in -1..MaxLen /\ 0 \in 0..MaxLen
  /\ \A n \in 0..MaxLen : n \in -1..MaxLen
  /\ \A n \in -1..MaxLen : n # -1 => n \in 0..MaxLen
  /\ \A name : LFNEntries(name) \in {1, 2}
  /\ 0 \in 0..2 /\ 0 < 1 /\ 0 < 2
BY FATAssumption, SMT DEF LFNEntries

LEMMA CreateBegins ==
  ASSUME FInv, op = Idle, NEW path \in Path, NEW dir \in BOOLEAN, NEW len \in -1..MaxLen,
         CreateNewDirFileEntry(path, dir, len)
  PROVE  FInv'
<1>1. \E more \in SUBSET Trouble : \E root, chain :
        /\ AllocateCluster(more)
        /\ op' = [pc |-> "find", path |-> path, name |-> path[Len(path)], dir |-> dir,
                  len |-> len, root |-> root, chain |-> chain, new |-> NewCluster]
  <2>1. {"misuse"} \in SUBSET Trouble /\ {} \in SUBSET Trouble
    BY DEF Trouble
  <2> QED
    BY <2>1 DEF CreateNewDirFileEntry
<1>2. /\ op'.pc = "find" /\ op'.path = path /\ op'.name = path[Len(path)] /\ op'.dir = dir
      /\ op'.len = len /\ op'.new = NewCluster /\ DOMAIN op' = FindFields
  BY <1>1, SMT DEF FindFields
<1>3. /\ Typed' /\ NewCluster \in Number /\ disk' = disk /\ made' = made
      /\ Sound' => /\ NewCluster \in Cluster /\ table[NewCluster] = CLUSTER_FREE /\ Sound
                   /\ table' = [table EXCEPT ![NewCluster] = CLUSTER_END]
  BY <1>1, AllocationTyped DEF FInv
<1>4. OpTyped'
  <2>1. Finding(op)'
    BY <1>2, <1>3, NameOfPath DEF Finding, Creating
  <2> QED
    BY <1>2, <2>1 DEF OpTyped, GrowPc, EntryPc, DataPc
<1>5. GrowsByAnother' /\ \A c : Pending(c)' => c = NewCluster
  BY <1>2 DEF GrowsByAnother, Pending, GrowPc
<1>6. Sound' => Disjoint'
  BY <1>3, <1>5, DisjointAllocated DEF FInv
<1>7. Sound' => FirstsReal'
  BY <1>3 DEF FInv, FirstsReal
<1> QED
  BY <1>3, <1>4, <1>5, <1>6, <1>7 DEF FInv

LEMMA FindKeeps ==
  ASSUME FInv, FindEntryStartpoint
  PROVE  FInv'
<1>1. /\ op.pc = "find" /\ UNCHANGED <<table, disk, startSearchCluster, trouble, uncleared, made>>
      /\ \E root, sector, slot, lfnAt :
           op' = [pc |-> "lfn", path |-> op.path, name |-> op.name, dir |-> op.dir,
                  len |-> op.len, root |-> root, new |-> op.new, i |-> 0, tmp |-> 0,
                  sector |-> sector, slot |-> slot, lfnAt |-> lfnAt]
  BY DEF FindEntryStartpoint
<1>2. /\ op'.pc = "lfn" /\ op'.path = op.path /\ op'.name = op.name /\ op'.dir = op.dir
      /\ op'.len = op.len /\ op'.new = op.new /\ op'.i = 0 /\ op'.tmp = 0
      /\ DOMAIN op' = EntryFields
  BY <1>1, SMT DEF EntryFields
<1>3. Creating(op)' /\ op'.i < LFNEntries(op'.name)
  <2>1. Creating(op)'
    BY <1>1, <1>2 DEF FInv, OpTyped, Finding, Creating
  <2>2. LFNEntries(op'.name) \in {1, 2}
    BY Lengths
  <2> QED
    BY <1>2, <2>1, <2>2, Lengths
<1>4. OpTyped'
  BY <1>2, <1>3, Lengths, ClusterNumbers DEF OpTyped, GrowPc, EntryPc, DataPc
<1>5. GrowsByAnother' /\ \A c : Pending(c)' => Pending(c)
  BY <1>1, <1>2 DEF GrowsByAnother, Pending, GrowPc
<1>6. Typed' /\ (Sound' => Sound)
  BY <1>1 DEF FInv, Typed, Sound
<1> QED
  BY <1>1, <1>4, <1>5, <1>6, Quiet, SameDisk

LEMMA GrowKeeps ==
  ASSUME FInv, GrowDirectory
  PROVE  FInv'
<1>1. /\ op.pc = "find" /\ AllocateCluster({})
      /\ op' = [pc |-> "clear", grown |-> NewCluster, back |-> op]
  BY DEF GrowDirectory, CanGrow
<1>2. /\ op'.pc = "clear" /\ op'.grown = NewCluster /\ op'.back = op
      /\ DOMAIN op' = {"pc", "grown", "back"}
  BY <1>1, SMT
<1>3. /\ Typed' /\ NewCluster \in Number /\ disk' = disk
      /\ Sound' => /\ NewCluster \in Cluster /\ table[NewCluster] = CLUSTER_FREE /\ Sound
                   /\ table' = [table EXCEPT ![NewCluster] = CLUSTER_END]
  BY <1>1, AllocationTyped DEF FInv
<1>4. OpTyped'
  <2>1. Finding(op)
    BY <1>1 DEF FInv, OpTyped
  <2>2. Finding(op'.back)
    BY <1>2, <2>1
  <2> QED
    BY <1>2, <1>3, <2>2 DEF OpTyped, GrowPc, EntryPc, DataPc
<1>5. \A c : Pending(c)' => Pending(c) \/ c = NewCluster
  BY <1>1, <1>2 DEF Pending, GrowPc
<1>6. Sound' => Disjoint' /\ ~Pending(NewCluster)
  BY <1>3, <1>5, DisjointAllocated DEF FInv
<1>7. Sound' => GrowsByAnother'
  BY <1>1, <1>2, <1>6 DEF GrowsByAnother, Pending
<1>8. Sound' => FirstsReal'
  BY <1>3 DEF FInv, FirstsReal
<1> QED
  BY <1>3, <1>4, <1>6, <1>7, <1>8 DEF FInv

LEMMA ClearGrownKeeps ==
  ASSUME FInv, ClearGrown
  PROVE  FInv'
<1>0. Typed /\ made \subseteq Path
  BY DEF FInv, Typed
<1>1. CASE op.pc = "clear"
  <2>1. op' = [op EXCEPT !.pc = "link"] /\ ClearCluster(op.grown) /\ made' = made
    BY <1>1 DEF ClearGrown
  <2>2. DOMAIN op = {"pc", "grown", "back"} /\ op.grown \in Number /\ Finding(op.back)
    BY <1>1 DEF FInv, OpTyped, GrowPc
  <2>3. op'.pc = "link" /\ op'.grown = op.grown /\ op'.back = op.back /\ DOMAIN op' = DOMAIN op
    BY <2>1, <2>2, SMT
  <2>4. OpTyped'
    BY <2>2, <2>3 DEF OpTyped, GrowPc, EntryPc, DataPc
  <2>5. Typed' /\ NoEntryAdded /\ table' = table /\ (Sound' => Sound)
    BY <1>0, <2>1, <2>2, ClearTyped
  <2>6. (\A c : Pending(c)' => Pending(c)) /\ (GrowsByAnother => GrowsByAnother')
    BY <1>1, <2>3 DEF Pending, GrowsByAnother, GrowPc
  <2> QED
    BY <2>4, <2>5, <2>6, Quiet
<1>2. CASE op.pc = "link"
  <2> DEFINE tail == LastOf(op.back.chain)
  <2>1. op' = SearchOn /\ Link(tail, op.grown)
    BY <1>2 DEF ClearGrown
  <2> HIDE DEF tail
  <2>2. op.grown \in Number /\ Finding(op.back)
    BY <1>2 DEF FInv, OpTyped, GrowPc
  <2>3. Typed' /\ disk' = disk /\ (Sound' => Sound)
    BY <1>0, <2>1, <2>2, LinkTyped
  <2>4. Sound' => Disjoint /\ op.grown # op.back.new /\ FirstsReal
    BY <1>2, <2>3 DEF FInv, GrowsByAnother, GrowPc
  <2>5. op' = Idle \/ (Finding(op)' /\ op'.new = op.back.new)
    <3>1. CASE op.grown = 0
      BY <2>1, <3>1 DEF SearchOn
    <3>2. CASE op.grown # 0
      <4> DEFINE chain == Append(op.back.chain, op.grown)
      <4>1. op' = [op.back EXCEPT !.chain = chain]
        BY <2>1, <3>2 DEF SearchOn
      <4> HIDE DEF chain
      <4>2. DOMAIN op.back = FindFields /\ op.back.pc = "find" /\ Creating(op.back)
        BY <2>2 DEF Finding
      <4>3. /\ DOMAIN op' = FindFields /\ op'.pc = op.back.pc /\ op'.path = op.back.path
            /\ op'.name = op.back.name /\ op'.dir = op.back.dir /\ op'.len = op.back.len
            /\ op'.new = op.back.new
        BY <4>1, <4>2, SMT DEF FindFields
      <4> QED
        BY <4>2, <4>3 DEF Finding, Creating
    <3> QED
      BY <3>1, <3>2
  <2>6. op'.pc = "idle" \/ (op'.pc = "find" /\ Finding(op)' /\ op'.new = op.back.new)
    <3>1. op' = Idle => op'.pc = "idle"
      BY SMT DEF Idle
    <3>2. Finding(op)' => op'.pc = "find"
      BY DEF Finding
    <3> QED
      BY <2>5, <3>1, <3>2
  <2>7. OpTyped' /\ GrowsByAnother'
    BY <2>6 DEF OpTyped, GrowsByAnother, GrowPc, EntryPc, DataPc
  <2>8. (\A c : Pending(c)' => Pending(c) /\ c = op.back.new) /\ Pending(op.grown)
    BY <1>2, <2>6 DEF Pending, GrowPc
  <2>9. Sound' => Disjoint'
    BY <1>0, <2>1, <2>4, <2>8, LinkDisjoint
  <2>10. Sound' => FirstsReal'
    BY <2>3, <2>4 DEF FirstsReal
  <2> QED
    BY <2>3, <2>7, <2>9, <2>10 DEF FInv
<1> QED
  BY <1>1, <1>2 DEF ClearGrown

LEMMA EntryOp ==
  ASSUME FInv, op.pc \in EntryPc
  PROVE  /\ DOMAIN op = EntryFields
         /\ Creating(op) /\ op.i \in 0..2 /\ op.tmp \in Number
BY DEF FInv, OpTyped

(* A step that changes pc and tmp only. *)
LEMMA EntryOpGoesOn ==
  ASSUME FInv, op.pc \in EntryPc, NEW pc \in EntryPc \ {"lfn"}, NEW tmp \in Number,
         \/ op' = [op EXCEPT !.pc = pc]
         \/ op' = [op EXCEPT !.pc = pc, !.tmp = tmp]
  PROVE  OpTyped' /\ op'.pc = pc /\ op'.new = op.new
<1>1. DOMAIN op = EntryFields /\ Creating(op) /\ op.i \in 0..2 /\ op.tmp \in Number
  BY EntryOp
<1>2. /\ op'.pc = pc /\ op'.i = op.i /\ DOMAIN op' = EntryFields /\ op'.path = op.path
      /\ op'.name = op.name /\ op'.dir = op.dir /\ op'.len = op.len /\ op'.new = op.new
      /\ op'.tmp \in Number
  <2>1. CASE op' = [op EXCEPT !.pc = pc]
    BY <1>1, <2>1, SMT DEF EntryFields
  <2>2. CASE op' = [op EXCEPT !.pc = pc, !.tmp = tmp]
    BY <1>1, <2>2, SMT DEF EntryFields
  <2> QED
    BY <2>1, <2>2
<1>3. Creating(op)'
  BY <1>1, <1>2 DEF Creating
<1> QED
  BY <1>1, <1>2, <1>3 DEF OpTyped, GrowPc, EntryPc, DataPc

LEMMA WriteLFNKeeps ==
  ASSUME FInv, WriteLFN
  PROVE  FInv'
<1>1. PICK sector, slot, after :
        /\ op.pc = "lfn"
        /\ \/ PutItem(sector, slot, LFN) /\ UNCHANGED trouble
           \/ Put(sector, disk[sector]) /\ trouble' = trouble \cup {"overrun"}
        /\ op' = [op EXCEPT !.i = op.i + 1, !.lfnAt = after,
                             !.pc = IF op.i + 1 = LFNEntries(op.name) THEN "entry" ELSE "lfn"]
  BY DEF WriteLFN
<1>2. /\ DOMAIN op = EntryFields
      /\ Creating(op) /\ op.i \in 0..2 /\ op.tmp \in Number
      /\ op.i < LFNEntries(op.name) /\ LFNEntries(op.name) \in {1, 2}
  BY <1>1, EntryOp, Lengths DEF EntryPc, FInv, OpTyped
<1>3. op.i + 1 \in 0..2 /\ (op.i + 1 # LFNEntries(op.name) => op.i + 1 < LFNEntries(op.name))
  BY <1>2, SMT
<1>4. /\ op'.pc = IF op.i + 1 = LFNEntries(op.name) THEN "entry" ELSE "lfn"
      /\ op'.i = op.i + 1 /\ DOMAIN op' = DOMAIN op /\ op'.path = op.path /\ op'.name = op.name
      /\ op'.dir = op.dir /\ op'.len = op.len /\ op'.new = op.new /\ op'.tmp = op.tmp
  BY <1>1, <1>2, SMT DEF EntryFields
<1>5. Creating(op)' /\ op'.pc \in {"lfn", "entry"} /\ (op'.pc = "lfn" => op'.i < LFNEntries(op'.name))
  BY <1>2, <1>3, <1>4 DEF Creating
<1>6. OpTyped'
  BY <1>2, <1>3, <1>4, <1>5 DEF OpTyped, GrowPc, EntryPc, DataPc
<1>7. (\A c : Pending(c)' => Pending(c)) /\ GrowsByAnother'
  BY <1>1, <1>4, <1>5 DEF Pending, GrowPc, GrowsByAnother
<1>8. LFN \in AnyItem /\ LFN.kind = "lfn"
  <2>1. LFNEntries(op.name) - op.i \in 1..2
    BY <1>2, SMT
  <2> QED
    BY <1>2, <2>1, SMT DEF LFN, AnyItem, Creating
<1>9. trouble' \subseteq Trouble /\ (Sound' => Sound)
  BY <1>1 DEF FInv, Typed, Sound, Trouble
<1>0. Typed
  BY DEF FInv
<1>10. CASE PutItem(sector, slot, LFN)
  <2>1. /\ Typed' /\ table' = table
        /\ \A s \in Sector, k \in Slot :
              disk'[s][k] = IF s = sector /\ k = slot THEN LFN ELSE disk[s][k]
    BY <1>0, <1>8, <1>9, <1>10, PutItemTyped, SMT
  <2>2. NoEntryAdded
    BY <1>8, <2>1 DEF NoEntryAdded
  <2> QED
    BY <1>6, <1>7, <1>9, <2>1, <2>2, Quiet
<1>11. CASE Put(sector, disk[sector])
  <2>1. sector \in Sector => disk[sector] \in [Slot -> AnyItem]
    BY DEF FInv, Typed
  <2>2. /\ Typed' /\ table' = table
        /\ \A s \in Sector : disk'[s] = IF s = sector THEN disk[sector] ELSE disk[s]
    BY <1>9, <1>11, <2>1, PutTyped DEF FInv
  <2>3. NoEntryAdded
    BY <2>2 DEF NoEntryAdded
  <2> QED
    BY <1>6, <1>7, <1>9, <2>2, <2>3, Quiet
<1> QED
  BY <1>1, <1>10, <1>11

LEMMA WriteEntryKeeps ==
  ASSUME FInv, WriteDirectoryEntry
  PROVE  FInv'
<1> DEFINE item == Entry(op.name, op.dir, op.new, 0)
<1>1. PICK sector, slot :
        /\ op.pc \in {"entry", "tmpentry"} /\ PutItem(sector, slot, item) /\ trouble' = trouble
        /\ op' = [op EXCEPT !.pc = "clearnew"]
  BY DEF WriteDirectoryEntry
<1>2. op.pc \in EntryPc /\ "clearnew" \in EntryPc \ {"lfn"} /\ Creating(op) /\ op.tmp \in Number
  BY <1>1, EntryOp DEF EntryPc
<1>3. item \in AnyItem /\ item.kind = "entry" /\ item.first = op.new
  BY <1>2, Lengths, SMT DEF AnyItem, Entry, Creating
<1> HIDE DEF item
<1>6. OpTyped' /\ op'.pc = "clearnew"
  BY <1>1, <1>2, EntryOpGoesOn
<1>7. Pending(op.new) /\ (\A c : ~Pending(c)') /\ GrowsByAnother'
  BY <1>1, <1>6 DEF Pending, GrowPc, GrowsByAnother
<1>8. /\ Typed /\ trouble' \subseteq Trouble
      /\ Sound' => Sound /\ Disjoint /\ FirstsReal
  BY <1>1 DEF FInv, Typed, Sound
<1>9. /\ Typed' /\ table' = table
      /\ \A s \in Sector, k \in Slot :
            disk'[s][k] = IF s = sector /\ k = slot THEN item ELSE disk[s][k]
  BY <1>1, <1>3, <1>8, PutItemTyped, SMT
<1>10. ASSUME NEW r \in Reference, r # <<"entry", sector, slot>>
       PROVE  Target(r)' = Target(r)
  <2>1. CASE \E s \in Sector, k \in Slot : r = <<"entry", s, k>>
    <3>1. PICK s \in Sector, k \in Slot : r = <<"entry", s, k>>
      BY <2>1
    <3>2. disk'[s][k] = disk[s][k]
      BY <1>9, <1>10, <3>1
    <3> QED
      BY <3>1, <3>2, TargetOfEntry DEF EntryTarget
  <2>2. CASE \E d \in Cluster : r = <<"link", d, 0>>
    BY <1>9, <2>2, TargetOfLink
  <2>3. CASE r = <<"root", 0, 0>>
    BY <2>3, TargetOfRoot
  <2> QED
    BY <2>1, <2>2, <2>3, ReferenceKinds
<1>11. StillMarked
  BY <1>9 DEF StillMarked
<1>12. ASSUME Sound'
       PROVE  Disjoint'
  <2>1. CASE sector \in Sector /\ slot \in Slot
    <3>1. <<"entry", sector, slot>> \in Reference /\ Target(<<"entry", sector, slot>>)' = op.new
      BY <1>3, <1>9, <2>1, TargetOfEntry DEF EntryTarget
    <3> QED
      BY <1>7, <1>8, <1>10, <1>11, <1>12, <3>1, DisjointNamed
  <2>2. CASE ~(sector \in Sector /\ slot \in Slot)
    <3>1. <<"entry", sector, slot>> \notin Reference
      BY <2>2, SMT DEF Reference
    <3>2. Unnamed
      BY <1>10, <3>1 DEF Unnamed
    <3> QED
      BY <1>7, <1>8, <1>11, <1>12, <3>2, DisjointKept
  <2> QED
    BY <2>1, <2>2
<1>13. Sound' => FirstsReal'
  BY <1>3, <1>7, <1>8, <1>9, ZenonT(30) DEF FirstsReal, Disjoint
<1> QED
  BY <1>6, <1>7, <1>9, <1>12, <1>13 DEF FInv

LEMMA EntryClusterKeeps ==
  ASSUME FInv, AllocateEntryCluster
  PROVE  FInv'
<1>1. /\ op.pc = "entry" /\ AllocateCluster({})
      /\ op' = [op EXCEPT !.pc = "cleartmp", !.tmp = NewCluster]
  BY DEF AllocateEntryCluster
<1>2. /\ Typed' /\ NewCluster \in Number /\ disk' = disk
      /\ Sound' => /\ NewCluster \in Cluster /\ table[NewCluster] = CLUSTER_FREE /\ Sound
                   /\ table' = [table EXCEPT ![NewCluster] = CLUSTER_END]
  BY <1>1, AllocationTyped DEF FInv
<1>3. op.pc \in EntryPc /\ "cleartmp" \in EntryPc \ {"lfn"}
  BY <1>1 DEF EntryPc
<1>4. OpTyped' /\ op'.pc = "cleartmp" /\ op'.new = op.new
  BY <1>1, <1>2, <1>3, EntryOpGoesOn
<1>5. GrowsByAnother' /\ \A c : Pending(c)' => Pending(c)
  BY <1>1, <1>4 DEF GrowsByAnother, Pending, GrowPc
<1>6. Sound' => Disjoint'
  BY <1>2, <1>5, DisjointAllocated DEF FInv
<1>7. Sound' => FirstsReal'
  BY <1>2 DEF FInv, FirstsReal
<1> QED
  BY <1>2, <1>4, <1>5, <1>6, <1>7 DEF FInv

LEMMA ClearEntryKeeps ==
  ASSUME FInv, ClearEntryCluster
  PROVE  FInv'
<1>1. /\ op.pc = "cleartmp" /\ op' = [op EXCEPT !.pc = "tmpentry"]
      /\ ClearCluster(op.tmp) /\ made' = made
  BY DEF ClearEntryCluster
<1>2. op.pc \in EntryPc /\ "tmpentry" \in EntryPc \ {"lfn"} /\ op.tmp \in Number
  BY <1>1, EntryOp DEF EntryPc
<1>3. OpTyped' /\ op'.pc = "tmpentry" /\ op'.new = op.new
  BY <1>1, <1>2, EntryOpGoesOn
<1>4. Typed /\ made' \subseteq Path
  BY <1>1 DEF FInv, Typed
<1>5. Typed' /\ NoEntryAdded /\ table' = table /\ (Sound' => Sound)
  BY <1>1, <1>2, <1>4, ClearTyped
<1>6. GrowsByAnother' /\ \A c : Pending(c)' => Pending(c)
  BY <1>1, <1>3 DEF GrowsByAnother, Pending, GrowPc
<1> QED
  BY <1>3, <1>5, <1>6, Quiet

LEMMA AcknowledgedPaths ==
  ASSUME FInv, op.pc \in EntryPc, Acknowledge
  PROVE  made' \subseteq Path
<1>1. Creating(op)
  BY EntryOp
<1> QED
  BY <1>1 DEF Acknowledge, FInv, Typed, Creating

(* The call returns, or goes on as a write. *)
LEMMA AcknowledgeKeeps ==
  ASSUME FInv, op.pc \in EntryPc, Acknowledge, table' = table, NoEntryAdded,
         Typed', Sound' => Sound
  PROVE  FInv'
<1>1. Creating(op)
  BY EntryOp
<1>2. Typed' /\ (Sound' => Sound)
  OBVIOUS
<1>3. CASE op.len = -1
  BY <1>2, <1>3, IdleKeeps DEF Acknowledge
<1>4. CASE op.len # -1
  <2>1. op' = [pc |-> "open", path |-> op.path, len |-> op.len]
    BY <1>4 DEF Acknowledge
  <2>2. op'.pc = "open" /\ op'.path = op.path /\ op'.len = op.len
    BY <2>1, SMT
  <2>3. op.len \in 0..MaxLen
    BY <1>1, <1>4, Lengths DEF Creating
  <2>4. OpTyped'
    BY <1>1, <2>2, <2>3 DEF OpTyped, GrowPc, EntryPc, DataPc, Creating
  <2>5. GrowsByAnother' /\ \A c : ~Pending(c)'
    BY <2>2 DEF Pending, GrowPc, GrowsByAnother
  <2> QED
    BY <1>2, <2>4, <2>5, Quiet
<1> QED
  BY <1>3, <1>4

LEMMA ClearNewKeeps ==
  ASSUME FInv, ClearNew
  PROVE  FInv'
<1>1. /\ op.pc = "clearnew" /\ ClearCluster(op.new)
      /\ IF op.dir THEN op' = [op EXCEPT !.pc = "dots"] /\ UNCHANGED made ELSE Acknowledge
  BY DEF ClearNew
<1>2. /\ op.pc \in EntryPc /\ "dots" \in EntryPc \ {"lfn"} /\ op.new \in Number
      /\ op.tmp \in Number
  BY <1>1, EntryOp DEF EntryPc, Creating
<1>3. Typed /\ made \subseteq Path
  BY DEF FInv, Typed
<1>4. made' \subseteq Path
  BY <1>1, <1>2, <1>3, AcknowledgedPaths
<1>5. Typed' /\ NoEntryAdded /\ table' = table /\ (Sound' => Sound)
  BY <1>1, <1>2, <1>3, <1>4, ClearTyped
<1>6. CASE op.dir
  <2>1. OpTyped' /\ op'.pc = "dots"
    BY <1>1, <1>2, <1>6, EntryOpGoesOn
  <2>2. GrowsByAnother' /\ \A c : ~Pending(c)'
    BY <2>1 DEF Pending, GrowPc, GrowsByAnother
  <2> QED
    BY <1>5, <2>1, <2>2, Quiet
<1>7. CASE ~op.dir
  BY <1>1, <1>2, <1>5, <1>7, AcknowledgeKeeps
<1> QED
  BY <1>6, <1>7

LEMMA WriteDotsKeeps ==
  ASSUME FInv, WriteDots
  PROVE  FInv'
<1> DEFINE content == [disk[op.new] EXCEPT ![1] = Item("dot"), ![2] = Item("dot")]
<1>1. /\ op.pc = "dots" /\ disk' = [disk EXCEPT ![op.new] = content]
      /\ UNCHANGED <<table, startSearchCluster, trouble, uncleared>> /\ Acknowledge
  BY DEF WriteDots
<1>2. op.pc \in EntryPc
  BY <1>1 DEF EntryPc
<1>3. op.new \in Sector =>
        /\ content \in [Slot -> AnyItem]
        /\ \A k \in Slot : content[k] = disk[op.new][k] \/ content[k] = Item("dot")
  BY Items3 DEF FInv, Typed
<1> HIDE DEF content
<1>4. /\ disk' \in [Sector -> [Slot -> AnyItem]]
      /\ \A s \in Sector : disk'[s] = IF s = op.new THEN content ELSE disk[s]
  BY <1>1, <1>3 DEF FInv, Typed
<1>5. NoEntryAdded
  BY <1>3, <1>4, Items3, ZenonT(30) DEF NoEntryAdded
<1>6. made' \subseteq Path
  BY <1>1, <1>2, AcknowledgedPaths
<1>7. Typed' /\ (Sound' => Sound)
  BY <1>1, <1>4, <1>6 DEF FInv, Typed, Sound
<1> QED
  BY <1>1, <1>2, <1>5, <1>7, AcknowledgeKeeps
-----------------------------------------------------------------------------
(***************************************************************************)
(* The steps of a write.                                                   *)
(***************************************************************************)
LEMMA WriteBegins ==
  ASSUME FInv, NEW path \in Path, NEW len \in 0..MaxLen, NEW create, WriteFile(path, len, create)
  PROVE  FInv'
<1>1. CASE ~FileExists(path) /\ create
  <2>1. op = Idle /\ CreateNewDirFileEntry(path, FALSE, len) /\ len \in -1..MaxLen
    BY <1>1, Lengths DEF WriteFile
  <2> QED
    BY <2>1, CreateBegins
<1>2. CASE ~(~FileExists(path) /\ create)
  <2>1. /\ op' = [pc |-> "open", path |-> path, len |-> len]
        /\ UNCHANGED <<table, disk, startSearchCluster, trouble, uncleared, made>>
    BY <1>2 DEF WriteFile
  <2>2. op'.pc = "open" /\ op'.path = path /\ op'.len = len
    BY <2>1, SMT
  <2>3. OpTyped'
    BY <2>2 DEF OpTyped, GrowPc, EntryPc, DataPc
  <2>4. GrowsByAnother' /\ \A c : ~Pending(c)'
    BY <2>2 DEF Pending, GrowPc, GrowsByAnother
  <2>5. Typed' /\ (Sound' => Sound)
    BY <2>1 DEF FInv, Typed, Sound
  <2> QED
    BY <2>1, <2>3, <2>4, <2>5, Quiet, SameDisk
<1> QED
  BY <1>1, <1>2

LEMMA OpenKeeps ==
  ASSUME FInv, Open
  PROVE  FInv'
<1>1. /\ op.pc = "open" /\ UNCHANGED <<table, disk, startSearchCluster, uncleared, made>>
      /\ trouble' = trouble \/ trouble' = trouble \cup {"misuse"}
  BY DEF Open, Opened
<1>2. Typed' /\ (Sound' => Sound) /\ op.len \in 0..MaxLen
  BY <1>1 DEF FInv, Typed, Sound, OpTyped, Trouble
<1>3. CASE op' = Idle
  BY <1>1, <1>2, <1>3, IdleKeeps, SameDisk
<1>4. CASE Opened
  <2>1. PICK e : op' = [pc |-> IF op.len = 0 THEN "modify" ELSE "data", path |-> op.path,
                        len |-> op.len, at |-> e, cluster |-> e.item.first, next |-> 0, i |-> 0]
    BY <1>4 DEF Opened
  <2>2. /\ op'.pc \in {"modify", "data"} /\ op'.len = op.len /\ op'.next = 0
        /\ DOMAIN op' = {"pc", "path", "len", "at", "cluster", "next", "i"}
    BY <2>1, SMT
  <2>3. OpTyped'
    BY <1>2, <2>2, ClusterNumbers DEF OpTyped, GrowPc, EntryPc, DataPc
  <2>4. GrowsByAnother' /\ \A c : ~Pending(c)'
    BY <2>2 DEF Pending, GrowPc, GrowsByAnother
  <2> QED
    BY <1>1, <1>2, <2>3, <2>4, Quiet, SameDisk
<1> QED
  BY <1>3, <1>4 DEF Open

LEMMA DataOp ==
  ASSUME FInv, op.pc \in DataPc
  PROVE  /\ DOMAIN op = {"pc", "path", "len", "at", "cluster", "next", "i"}
         /\ op.len \in 0..MaxLen /\ op.next \in Number
BY DEF FInv, OpTyped

LEMMA WriteDataKeeps ==
  ASSUME FInv, WriteData
  PROVE  FInv'
<1>1. op.pc = "data" /\ op' = [op EXCEPT !.pc = "extend"] /\ Put(op.cluster, Filled("data")) /\ trouble' = trouble
  BY DEF WriteData
<1>2. /\ DOMAIN op = {"pc", "path", "len", "at", "cluster", "next", "i"}
      /\ op.len \in 0..MaxLen /\ op.next \in Number
  BY <1>1, DataOp DEF DataPc
<1>3. op'.pc = "extend" /\ DOMAIN op' = DOMAIN op /\ op'.len = op.len /\ op'.next = op.next
  BY <1>1, <1>2, SMT
<1>4. OpTyped' /\ GrowsByAnother' /\ \A c : ~Pending(c)'
  BY <1>2, <1>3 DEF OpTyped, Pending, GrowsByAnother, GrowPc, EntryPc, DataPc
<1>5. Typed /\ trouble' \subseteq Trouble /\ (Sound' => Sound)
  BY <1>1 DEF FInv, Typed, Sound
<1>6. /\ Typed' /\ table' = table
      /\ \A s \in Sector : disk'[s] = IF s = op.cluster THEN Filled("data") ELSE disk[s]
  BY <1>1, <1>5, Items3, PutTyped, ZenonT(30)
<1>7. NoEntryAdded
  BY <1>6, Items3 DEF NoEntryAdded
<1> QED
  BY <1>4, <1>5, <1>6, <1>7, Quiet

LEMMA ExtendKeeps ==
  ASSUME FInv, Extend
  PROVE  FInv'
<1>1. op.pc = "extend" /\ AllocateCluster({}) /\ op' = [op EXCEPT !.pc = "linkdata", !.next = NewCluster]
  BY DEF Extend
<1>2. /\ DOMAIN op = {"pc", "path", "len", "at", "cluster", "next", "i"} /\ op.len \in 0..MaxLen
  BY <1>1, DataOp DEF DataPc
<1>3. op'.pc = "linkdata" /\ op'.next = NewCluster /\ DOMAIN op' = DOMAIN op /\ op'.len = op.len
  BY <1>1, <1>2, SMT
<1>4. /\ Typed' /\ NewCluster \in Number /\ disk' = disk
      /\ Sound' => /\ NewCluster \in Cluster /\ table[NewCluster] = CLUSTER_FREE /\ Sound
                   /\ table' = [table EXCEPT ![NewCluster] = CLUSTER_END]
  BY <1>1, AllocationTyped DEF FInv
<1>5. OpTyped'
  BY <1>2, <1>3, <1>4 DEF OpTyped, GrowPc, EntryPc, DataPc
<1>6. GrowsByAnother' /\ \A c : Pending(c)' => c = NewCluster
  BY <1>3 DEF GrowsByAnother, Pending, GrowPc
<1>7. Sound' => Disjoint'
  BY <1>4, <1>6, DisjointAllocated DEF FInv
<1>8. Sound' => FirstsReal'
  BY <1>4 DEF FInv, FirstsReal
<1> QED
  BY <1>4, <1>5, <1>6, <1>7, <1>8 DEF FInv

LEMMA LinkDataKeeps ==
  ASSUME FInv, LinkData
  PROVE  FInv'
<1>1. /\ op.pc = "linkdata" /\ Link(op.cluster, op.next)
      /\ op' = [op EXCEPT !.pc = IF op.i + 1 = op.len THEN "modify" ELSE "data",
                          !.cluster = op.next, !.next = 0, !.i = @ + 1]
  BY DEF LinkData
<1>2. /\ DOMAIN op = {"pc", "path", "len", "at", "cluster", "next", "i"}
      /\ op.len \in 0..MaxLen /\ op.next \in Number
  BY <1>1, DataOp DEF DataPc
<1>3. op'.pc \in {"modify", "data"} /\ op'.next = 0 /\ DOMAIN op' = DOMAIN op /\ op'.len = op.len
  BY <1>1, <1>2, SMT
<1>4. OpTyped'
  BY <1>2, <1>3, ClusterNumbers DEF OpTyped, GrowPc, EntryPc, DataPc
<1>5. GrowsByAnother' /\ (\A c : ~Pending(c)') /\ Pending(op.next)
  BY <1>1, <1>3 DEF GrowsByAnother, Pending, GrowPc
<1>6. Typed
  BY DEF FInv
<1>7. Typed' /\ disk' = disk /\ (Sound' => Sound)
  BY <1>1, <1>2, <1>6, LinkTyped
<1>8. Sound' => Disjoint /\ FirstsReal
  BY <1>7 DEF FInv
<1>9. Sound' => Disjoint'
  BY <1>1, <1>5, <1>6, <1>8, LinkDisjoint
<1>10. Sound' => FirstsReal'
  BY <1>7, <1>8 DEF FirstsReal
<1> QED
  BY <1>4, <1>5, <1>7, <1>9, <1>10 DEF FInv

LEMMA SizeStored ==
  ASSUME NEW item \in AnyItem, NEW len \in 0..MaxLen
  PROVE  /\ [item EXCEPT !.size = len] \in AnyItem
         /\ [item EXCEPT !.size = len].kind = item.kind
         /\ item.kind = "entry" => [item EXCEPT !.size = len].first = item.first
BY SMT DEF AnyItem

LEMMA ModifyEntryKeeps ==
  ASSUME FInv, ModifyEntry
  PROVE  FInv'
<1> DEFINE sector == op.at.sector
           slot == op.at.slot
           item == [op.at.item EXCEPT !.size = op.len]
           content == [disk[sector] EXCEPT ![slot] = item]
<1>1. op.pc = "modify" /\ op' = Idle /\ trouble' = trouble /\ op.len \in 0..MaxLen
  BY DataOp DEF ModifyEntry, DataPc
<1>2. Typed /\ trouble' \subseteq Trouble /\ (Sound' => Sound)
  BY <1>1 DEF FInv, Typed, Sound
<1>3. CASE disk[sector][slot] = op.at.item
  <2>1. PutItem(sector, slot, item)
    BY <1>3 DEF ModifyEntry
  <2>2. Put(sector, content)
    BY <2>1 DEF PutItem
  <2>3. ASSUME sector \in Sector, slot \in Slot
        PROVE  /\ item \in AnyItem /\ item.kind = disk[sector][slot].kind
               /\ item.kind = "entry" => item.first = disk[sector][slot].first
    <3>1. op.at.item \in AnyItem
      BY <1>2, <1>3, <2>3, ZenonT(30) DEF Typed
    <3> QED
      BY <1>1, <1>3, <3>1, SizeStored, SMT
  <2> HIDE DEF item
  <2>4. ASSUME sector \in Sector
        PROVE  /\ content \in [Slot -> AnyItem]
               /\ \A k \in Slot : content[k] = IF k = slot THEN item ELSE disk[sector][k]
    BY <1>2, <2>3, <2>4 DEF Typed
  <2> HIDE DEF content, sector, slot
  <2>5. /\ Typed' /\ table' = table
        /\ \A s \in Sector : disk'[s] = IF s = sector THEN content ELSE disk[s]
    <3>1. sector \in Sector => content \in [Slot -> AnyItem]
      BY <2>4
    <3>2. Typed /\ trouble' \subseteq Trouble
      BY <1>2
    <3> QED
      BY <2>2, <3>1, <3>2, PutTyped
  <2>6. NoEntryAdded
    BY <2>3, <2>4, <2>5 DEF NoEntryAdded
  <2> QED
    BY <1>1, <1>2, <2>5, <2>6, IdleKeeps
<1>4. CASE disk[sector][slot] # op.at.item
  <2>1. UNCHANGED <<table, disk, startSearchCluster, uncleared, made>>
    BY <1>4 DEF ModifyEntry
  <2>2. Typed'
    BY <1>2, <2>1 DEF Typed
  <2> QED
    BY <1>1, <1>2, <2>1, <2>2, IdleKeeps, SameDisk
<1> QED
  BY <1>3, <1>4
-----------------------------------------------------------------------------
(***************************************************************************)
(* All steps.                                                              *)
(***************************************************************************)
LEMMA GivenUp ==
  ASSUME FInv, op' = Idle, startSearchCluster' \in Nat,
         trouble' = trouble \/ trouble' = trouble \cup {"cut"}, UNCHANGED <<table, disk, uncleared, made>>
  PROVE  FInv'
<1>1. Typed' /\ (Sound' => Sound)
  BY DEF FInv, Typed, Sound, Trouble
<1> QED
  BY <1>1, IdleKeeps, SameDisk

LEMMA FPreserved ==
  ASSUME FHInv, [Next]_vars
  PROVE  FHInv'
<1>0. FInv /\ startSearchCluster \in Nat /\ fsInfo \in Nat /\ fsInfo' = fsInfo
  BY DEF FHInv, FInv, Typed, Next, vars
<1> SUFFICES FInv'
  BY <1>0 DEF FHInv
<1>1. CASE Call
  <2>1. PICK path \in Path :
          \/ CreateFile(path) \/ CreateDirectory(path)
          \/ \E len \in 0..MaxLen, create \in BOOLEAN : WriteFile(path, len, create)
    BY <1>1 DEF Call
  <2>2. CASE CreateFile(path) \/ CreateDirectory(path)
    <3>1. op = Idle /\ -1 \in -1..MaxLen /\ \E dir \in BOOLEAN : CreateNewDirFileEntry(path, dir, -1)
      BY <2>2, Lengths DEF CreateFile, CreateDirectory
    <3> QED
      BY <1>0, <3>1, CreateBegins
  <2>3. CASE \E len \in 0..MaxLen, create \in BOOLEAN : WriteFile(path, len, create)
    BY <1>0, <2>3, WriteBegins
  <2> QED
    BY <2>1, <2>2, <2>3
<1>2. CASE CreateStep
  <2>1. CASE CreateFails
    BY <1>0, <2>1, GivenUp DEF CreateFails
  <2> QED
    BY <1>0, <1>2, <2>1, FindKeeps, GrowKeeps, ClearGrownKeeps, WriteLFNKeeps, EntryClusterKeeps,
       ClearEntryKeeps, WriteEntryKeeps, ClearNewKeeps, WriteDotsKeeps DEF CreateStep
<1>3. CASE WriteStep
  BY <1>0, <1>3, OpenKeeps, WriteDataKeeps, ExtendKeeps, LinkDataKeeps, ModifyEntryKeeps DEF WriteStep
<1>4. CASE WriteFails
  BY <1>0, <1>4, GivenUp DEF WriteFails
<1>5. CASE PowerFailure
  BY <1>0, <1>5, GivenUp DEF PowerFailure
<1>6. CASE UNCHANGED vars
  <2>1. op' = op /\ table' = table /\ disk' = disk /\ UNCHANGED <<startSearchCluster, trouble, uncleared, made>>
    BY <1>6 DEF vars
  <2>2. Typed' /\ (Sound' => Sound)
    BY <1>0, <2>1 DEF FInv, Typed, Sound
  <2>3. OpTyped'
    BY <1>0, <2>1, SMT DEF FInv, OpTyped, Finding, Creating
  <2>4. (\A c : Pending(c)' => Pending(c)) /\ (GrowsByAnother => GrowsByAnother')
    BY <2>1 DEF Pending, GrowsByAnother
  <2> QED
    BY <1>0, <2>1, <2>2, <2>3, <2>4, Quiet, SameDisk
<1> QED
  BY <1>0, <1>1, <1>2, <1>3, <1>4, <1>5, <1>6 DEF Next

LEMMA FInitially ==
  ASSUME Init
  PROVE  FHInv
<1>0. 2 \in Nat /\ FSInfo \subseteq Nat
  BY FATAssumption, SMT
<1>1. /\ op.pc = "idle" /\ trouble = {} /\ uncleared = {} /\ made = {}
      /\ fsInfo \in Nat /\ startSearchCluster \in Nat
  BY <1>0 DEF Init, Idle
<1>2. /\ disk \in [Sector -> [Slot -> AnyItem]]
      /\ \A s \in Sector, k \in Slot : disk[s][k].kind # "entry"
  BY Items3 DEF Init
<1>3. /\ table \in [Cluster -> Number \cup {CLUSTER_END}]
      /\ \A c \in Cluster : table[c] \notin Cluster
      /\ FatType = "FAT32" => table[rootDirCluster] = CLUSTER_END
  BY ClusterNumbers DEF Init
<1>4. Typed
  BY <1>1, <1>2, <1>3 DEF Typed
<1>5. OpTyped /\ GrowsByAnother /\ \A c : ~Pending(c)
  BY <1>1 DEF OpTyped, GrowsByAnother, Pending, GrowPc, EntryPc, DataPc
<1>6. FirstsReal
  BY <1>2 DEF FirstsReal
<1>7. ASSUME NEW r \in Reference, Target(r) \in Cluster
      PROVE  r = <<"root", 0, 0>> /\ Target(r) = rootDirCluster /\ FatType = "FAT32"
  <2>1. CASE \E s \in Sector, k \in Slot : r = <<"entry", s, k>>
    BY <1>2, <1>7, <2>1, TargetOfEntry, ClusterNumbers DEF EntryTarget
  <2>2. CASE \E c \in Cluster : r = <<"link", c, 0>>
    BY <1>3, <1>7, <2>2, TargetOfLink
  <2>3. CASE r = <<"root", 0, 0>>
    BY <1>7, <2>3, TargetOfRoot, ClusterNumbers DEF RootTarget
  <2> QED
    BY <2>1, <2>2, <2>3, ReferenceKinds
<1>8. Disjoint
  BY <1>3, <1>5, <1>7, ClusterNumbers DEF Disjoint
<1> QED
  BY <1>1, <1>4, <1>5, <1>6, <1>8 DEF FHInv, FInv

LEMMA FInvariant == Spec => []FHInv
BY FInitially, FPreserved, PTL DEF Spec
-----------------------------------------------------------------------------
(***************************************************************************)
(* The theorems.                                                           *)
(***************************************************************************)
(* For any disk, search hint, names and lengths, and whatever writes fail,  *)
(* the table and the entries hold numbers of the disk only.                 *)
THEOREM TypeCorrect == Spec => []TypeOK
<1>1. FHInv => TypeOK
  BY DEF FHInv, FInv, Typed, TypeOK
<1> QED
  BY <1>1, FInvariant, PTL

(* No two references name one cluster, whatever calls failed or were cut    *)
(* short by the power before, until AllocateCluster finds no cluster or     *)
(* cannot mark the one it returns; so one failed write of the table, there, *)
(* is the only one that does harm.                                          *)
THEOREM ClustersNotShared == Spec => []NoCrossLink
<1>1. FHInv => NoCrossLink
  BY DEF FHInv, FInv, Disjoint, NoCrossLink, Naming
<1> QED
  BY <1>1, FInvariant, PTL

(* A set of clusters no link leaves is entered by no link and no reference  *)
(* from outside: its links already name every member once.                  *)
LEMMA RoundsClosed ==
  ASSUME Disjoint, NEW S \in Rounds, NEW c \in S
  PROVE  \E d \in S : table[d] = c
<1> DEFINE follow == [d \in S |-> table[d]]
<1>1. S \subseteq Cluster /\ S \subseteq Linked /\ \A d \in S : table[d] \in S
  BY DEF Rounds, Linked
<1>2. IsFiniteSet(Cluster)
  BY FATAssumption, FS_Interval, SMT DEF Cluster
<1>3. IsFiniteSet(S)
  BY <1>1, <1>2, FS_Subset
<1>4. ASSUME NEW d \in S, NEW e \in S, table[d] = table[e]
      PROVE  d = e
  <2>1. <<"link", d, 0>> \in Reference /\ Target(<<"link", d, 0>>) = table[d] /\ table[d] \in Cluster
    BY <1>1, TargetOfLink DEF Linked
  <2>2. <<"link", e, 0>> \in Reference /\ Target(<<"link", e, 0>>) = table[e]
    BY <1>1, TargetOfLink
  <2>3. <<"link", d, 0>> = <<"link", e, 0>>
    BY <1>4, <2>1, <2>2 DEF Disjoint
  <2> QED
    BY <2>3, SMT
<1>5. follow \in Injection(S, S)
  BY <1>1, <1>4 DEF Injection, IsInjective
<1> HIDE DEF follow
<1>6. follow \in Surjection(S, S)
  BY <1>3, <1>5, FS_Injection
<1>7. PICK d \in S : follow[d] = c
  BY <1>6 DEF Surjection
<1> QED
  BY <1>7 DEF follow

(* Until then, entries have first clusters, and the walks from there and    *)
(* from the root end with the end mark.                                     *)
THEOREM WalksEnd == Spec => []ChainsEnd
<1>1. ASSUME FInv, Sound
      PROVE  ChainsEnd
  <2>1. Disjoint /\ FirstsReal
    BY <1>1 DEF FInv
  <2>2. ASSUME NEW r \in Naming
        PROVE  table[Target(r)] # CLUSTER_FREE
    BY <2>1, <2>2 DEF Disjoint, Naming
  <2>3. ASSUME NEW r \in Naming, r[1] # "link", NEW S \in Rounds, Target(r) \in S
        PROVE  FALSE
    <3>1. PICK d \in S : table[d] = Target(r)
      BY <2>1, <2>3, RoundsClosed
    <3>2. d \in Cluster
      BY DEF Rounds, Linked
    <3>3. <<"link", d, 0>> \in Reference /\ Target(<<"link", d, 0>>) = Target(r)
      BY <3>1, <3>2, TargetOfLink
    <3>4. r = <<"link", d, 0>>
      BY <2>1, <3>3 DEF Disjoint, Naming
    <3> QED
      BY <2>3, <3>4, SMT
  <2> QED
    BY <2>1, <2>2, <2>3 DEF ChainsEnd, FirstsReal
<1>2. FHInv => ChainsEnd
  BY <1>1 DEF FHInv, ChainsEnd
<1> QED
  BY <1>2, FInvariant, PTL
=============================================================================
