--------------------------------- MODULE FAT ---------------------------------
(***************************************************************************)
(* The FAT file system of libcx/kernelcc (src/system/vfs/fat.cpp): file    *)
(* and directory creation and file writing, one sector write at a time:    *)
(* each may fail, and the power may fail between any two of them.          *)
(*                                                                         *)
(* A cluster is one sector of SlotsPerSector directory entries.  Sector c  *)
(* holds cluster c, so the data region starts at sector 2 = firstDataSector*)
(* and the sectors below it are the end of the root directory (FAT16) or   *)
(* of the second copy of the table (FAT32), which nobody reads.  The       *)
(* entries of a FAT12 table may straddle two sectors and are not modelled. *)
(***************************************************************************)
EXTENDS Integers, Sequences, FiniteSets, FiniteSetsExt

CONSTANTS
    totalClusters,
    SlotsPerSector,
    FatType,        \* "FAT32", or "FAT16", which has a root directory area
    rootDirSectors, \* size of that area, 0 for FAT32
    rootSearchSectors, \* the part of it a free entry is looked for in, 224 entries
    FSInfo,         \* search hints a FAT32 disk may hold; 0 if it has no FSInfo sector
    Name,           \* names of files and directories
    Long,           \* those of more than 13 characters
    MaxLen,         \* bound: length of a file in clusters
    MaxFailed       \* bound: failures of the two

ASSUME FATAssumption ==
    /\ totalClusters \in Nat /\ totalClusters > 2
    /\ SlotsPerSector \in Nat /\ SlotsPerSector >= 2
    /\ FatType \in {"FAT16", "FAT32"}
    /\ rootDirSectors \in Nat /\ (rootDirSectors = 0 <=> FatType = "FAT32")
    /\ rootSearchSectors \in 0..(rootDirSectors + totalClusters - 1)
    /\ FSInfo \subseteq Nat /\ FSInfo # {}
    /\ Long \subseteq Name
    /\ MaxLen \in Nat /\ MaxFailed \in Nat

CLUSTER_FREE == 0
CLUSTER_END == totalClusters + 1

Cluster == 2..totalClusters
Slot == 1..SlotsPerSector
Sector == Min({0, 2 - rootDirSectors})..totalClusters

rootDirCluster == 2     \* FAT32; for FAT16 any value that is a cluster

VARIABLES
    table,              \* the file allocation table
    disk,               \* the items in the slots of each sector
    fsInfo,             \* the search hint on the disk, never written back
    startSearchCluster, \* the one in memory
    op,                 \* the call in progress
    trouble,            \* history: what has gone wrong, see Trouble
    uncleared,          \* history: clusters that ClearCluster could not clear
    made,               \* history: paths whose creation was acknowledged
    known               \* history: where each path led when the last call began

vars == <<table, disk, fsInfo, startSearchCluster, op, trouble, uncleared, made, known>>

(***************************************************************************)
(* "nocluster": AllocateCluster returned a number that is no cluster.      *)
(* "unmarked": it could not mark the cluster it returned.  "unlinked":     *)
(* another write of the table failed.  "overrun": an entry was copied      *)
(* behind readBuffer.  "misuse": a caller wrote to the path of a directory *)
(* or created something below a file.  "cut": a call returned -1 because a *)
(* write failed, or the power failed.                                      *)
(***************************************************************************)
Trouble == {"nocluster", "unmarked", "unlinked", "overrun", "misuse", "cut"}

Item(kind) == [kind |-> kind]
Entry(name, dir, first, size) ==
    [kind |-> "entry", name |-> name, dir |-> dir, first |-> first, size |-> size]

Filled(kind) == [s \in Slot |-> Item(kind)]
IsFree(item) == item.kind = "end"

(* How many LFN entries carry a name. *)
LFNEntries(name) == IF name \in Long THEN 2 ELSE 1

(* A path: a name in the root directory or in a directory of the root. *)
Path == {<<n>> : n \in Name} \cup {<<d, n>> : d, n \in Name}

Idle == [pc |-> "idle"]
-----------------------------------------------------------------------------
(* The table. *)
ReadTable(c) == IF c \in Cluster THEN table[c] ELSE 0

WriteTable(c, value) ==
    table' = IF c \in Cluster THEN [table EXCEPT ![c] = value] ELSE table

(* The first cluster from the hint on that reads as free, and those below 2 *)
(* do; the last one is never looked at.                                     *)
NewCluster ==
    LET free == {c \in startSearchCluster..(totalClusters - 1) : ReadTable(c) = CLUSTER_FREE}
    IN  IF free = {} THEN 0 ELSE Min(free)

(* Mutant: the search hint moves, the table keeps saying free. *)
AllocateClusterUnmarked(more) ==
    /\ startSearchCluster' = IF NewCluster = 0 THEN startSearchCluster ELSE NewCluster
    /\ trouble' = trouble \cup more \cup (IF NewCluster = 0 THEN {"nocluster"} ELSE {})
    /\ UNCHANGED <<table, disk, uncleared, made>>

(* A failed write of the table is logged, and the cluster returned all the  *)
(* same.  more is trouble the caller has to record.                         *)
AllocateCluster(more) ==
    /\ \/ /\ NewCluster \in Cluster /\ startSearchCluster' = NewCluster
          /\ \/ WriteTable(NewCluster, CLUSTER_END) /\ trouble' = trouble \cup more
             \/ UNCHANGED table /\ trouble' = trouble \cup more \cup {"unmarked"}
       \/ /\ NewCluster \notin Cluster /\ UNCHANGED <<table, startSearchCluster>>
          /\ trouble' = trouble \cup more \cup {"nocluster"}
    /\ UNCHANGED <<disk, uncleared, made>>

(* One sector is written and nothing else changes but the call's progress. *)
Put(sector, content) ==
    /\ disk' = IF sector \in Sector THEN [disk EXCEPT ![sector] = content] ELSE disk
    /\ UNCHANGED <<table, startSearchCluster, uncleared, made>>

PutItem(sector, slot, item) == Put(sector, [disk[sector] EXCEPT ![slot] = item])

(* The next two log a failed write, too, and their callers go on. *)
Failed == Cardinality(uncleared) + Cardinality(trouble \cap {"unlinked"})

ClearCluster(c) ==
    /\ \/ disk' = [disk EXCEPT ![c] = Filled("end")] /\ UNCHANGED uncleared
       \/ /\ Failed < MaxFailed
          /\ uncleared' = uncleared \cup {c} /\ UNCHANGED disk
    /\ UNCHANGED <<table, startSearchCluster, trouble>>

Link(c, next) ==
    /\ \/ WriteTable(c, next) /\ UNCHANGED trouble
       \/ Failed < MaxFailed /\ trouble' = trouble \cup {"unlinked"} /\ UNCHANGED table
    /\ UNCHANGED <<disk, startSearchCluster, uncleared, made>>
-----------------------------------------------------------------------------
(* Reading: cluster chains, directories and paths. *)
Follow[c \in Nat, steps \in Nat] ==
    IF c \notin Cluster \/ steps = 0 THEN <<>> ELSE <<c>> \o Follow[table[c], steps - 1]

(* The clusters of the chain that starts at c; one that goes round in a     *)
(* circle is cut off when it is longer than the disk.                       *)
Chain(c) == Follow[c, totalClusters]

LastOf(chain) == chain[Len(chain)]

IsRootArea(dir) == dir.root /\ FatType # "FAT32"

(* The root area; GetDirectoryEntries knows no end of it and reads on. *)
RootSectors == [i \in 1..(rootDirSectors + totalClusters - 1) |-> 1 - rootDirSectors + i]

(* A directory: its first cluster, and whether it is the root. *)
Root == [root |-> TRUE, first |-> rootDirCluster]
Sub(first) == [root |-> FALSE, first |-> first]

SectorsOf(dir) == IF IsRootArea(dir) THEN RootSectors ELSE Chain(dir.first)

(* The items of these sectors in order, with the place of each. *)
Items(sectors) ==
    LET Place(k) == [sector |-> sectors[1 + (k - 1) \div SlotsPerSector],
                     slot   |-> 1 + ((k - 1) % SlotsPerSector)]
    IN  [k \in 1..(Len(sectors) * SlotsPerSector) |->
            LET at == Place(k)
            IN  [sector |-> at.sector, slot |-> at.slot, item |-> disk[at.sector][at.slot]]]

(* ParseLFNEntries yields the name if every pending LFN entry belongs to    *)
(* the main entry (its checksum is right) and none of them is missing.      *)
ParseLFNEntries(pending, name) ==
    pending = {[kind |-> "lfn", name |-> name, index |-> i] : i \in 1..LFNEntries(name)}

(* GetDirectoryEntries: the entries before the first free item, each with   *)
(* its index; named if the LFN entries since the entry before make a name.  *)
GetDirectoryEntries(dir) ==
    LET items == Items(SectorsOf(dir))
        Kind(k) == items[k].item.kind
        read == {k \in DOMAIN items : \A j \in 1..k : ~IsFree(items[j].item)}
        Pending(k) == {j \in 1..(k - 1) : Kind(j) = "lfn" /\ \A i \in j..(k - 1) : Kind(i) # "entry"}
    IN  {[at |-> items[k], index |-> k,
          named |-> ParseLFNEntries({items[j].item : j \in Pending(k)}, items[k].item.name)] :
            k \in {j \in read : Kind(j) = "entry"}}

(* SeachInDirectory: the first entry of that name; {} if there is none. *)
SeachInDirectory(name, dir) ==
    LET hits == {e \in GetDirectoryEntries(dir) : e.named /\ e.at.item.name = name}
    IN  {e.at : e \in {h \in hits : \A f \in hits : h.index <= f.index}}

(* GetEntryByPath: at most one place. *)
GetEntryByPath(path) ==
    IF Len(path) = 1 THEN SeachInDirectory(path[1], Root)
    ELSE UNION {SeachInDirectory(path[2], Sub(d.item.first)) :
                  d \in {e \in SeachInDirectory(path[1], Root) : e.item.dir}}

FileExists(path) == \E e \in GetEntryByPath(path) : ~e.item.dir
DirectoryExists(path) == \E e \in GetEntryByPath(path) : e.item.dir
-----------------------------------------------------------------------------
(***************************************************************************)
(* CreateNewDirFileEntry.  The parent is whatever has its name; the new    *)
(* name may exist already.  A creation on behalf of WriteFile goes on with *)
(* len clusters of data, the others have len = -1.                         *)
(***************************************************************************)
Parent(path) ==
    IF Len(path) = 1 THEN {Root}
    ELSE {Sub(e.item.first) : e \in GetEntryByPath(<<path[1]>>)}

CreateNewDirFileEntry(path, dir, len) ==
    \E parent \in Parent(path) :
      /\ AllocateCluster(IF Len(path) = 2 /\ ~DirectoryExists(<<path[1]>>) THEN {"misuse"} ELSE {})
      /\ op' = [pc |-> "find", path |-> path, name |-> path[Len(path)], dir |-> dir,
                len |-> len, root |-> IsRootArea(parent), chain |-> SectorsOf(parent),
                new |-> NewCluster]

CreateFile(path) == op = Idle /\ CreateNewDirFileEntry(path, FALSE, -1)

CreateDirectory(path) ==
    /\ op = Idle /\ Len(path) = 1       \* bound: the depth of the tree
    /\ CreateNewDirFileEntry(path, TRUE, -1)

(* FindEntryStartpoint looks for enough free entries in a row, in part of   *)
(* the root area or in the whole chain.                                     *)
Startpoints(items) ==
    LET count == LFNEntries(op.name) + 1
        last  == IF op.root THEN rootSearchSectors * SlotsPerSector ELSE Len(items)
    IN  {k \in 1..(last - count + 1) :
            \A j \in k..(k + count - 1) : IsFree(items[j].item)}

(* It found some.  For the root area only the offset in the sector is       *)
(* returned: targetSector is always 0.                                      *)
FindEntryStartpoint ==
    /\ op.pc = "find"
    /\ LET items == Items(op.chain)
           found == Startpoints(items)
       IN /\ found # {}
          /\ LET at     == items[Min(found)]
                 sector == IF op.root THEN RootSectors[1] ELSE at.sector
             IN
             op' = [pc |-> "lfn", path |-> op.path, name |-> op.name, dir |-> op.dir,
                    len |-> op.len, root |-> op.root, new |-> op.new, i |-> 0, tmp |-> 0,
                    sector |-> sector, slot |-> at.slot, lfnAt |-> <<sector, at.slot>>]
    /\ UNCHANGED <<table, disk, startSearchCluster, trouble, uncleared, made>>

NoStartpoint == Startpoints(Items(op.chain)) = {}

(* There is none, and the chain ends with a cluster: one more is added. *)
CanGrow ==
    /\ op.pc = "find" /\ NoStartpoint /\ ~op.root
    /\ op.chain # <<>> /\ ReadTable(LastOf(op.chain)) = CLUSTER_END

GrowDirectory ==
    /\ CanGrow
    /\ AllocateCluster({})
    /\ op' = [pc |-> "clear", grown |-> NewCluster, back |-> op]

(* The search goes on in the new cluster, linked or not. *)
SearchOn == IF op.grown = 0 THEN Idle ELSE [op.back EXCEPT !.chain = Append(@, op.grown)]

(* Mutant: the new cluster joins the chain before it is empty. *)
ClearGrownLate ==
    \/ /\ op.pc = "clear" /\ op' = [op EXCEPT !.pc = "link"]
       /\ Link(LastOf(op.back.chain), op.grown)
    \/ /\ op.pc = "link" /\ op' = SearchOn
       /\ ClearCluster(op.grown) /\ UNCHANGED made

(* Mutant: the directory's last cluster is cleared, not the new one. *)
ClearGrownOther ==
    \/ /\ op.pc = "clear" /\ op' = [op EXCEPT !.pc = "link"]
       /\ ClearCluster(LastOf(op.back.chain)) /\ UNCHANGED made
    \/ /\ op.pc = "link" /\ op' = SearchOn
       /\ Link(LastOf(op.back.chain), op.grown)

ClearGrown ==
    \/ /\ op.pc = "clear" /\ op' = [op EXCEPT !.pc = "link"]
       /\ ClearCluster(op.grown) /\ UNCHANGED made
    \/ /\ op.pc = "link" /\ op' = SearchOn
       /\ Link(LastOf(op.back.chain), op.grown)

(* No room: a chain without a proper end, or a full root area. *)
CreateFails ==
    /\ op.pc = "find" /\ NoStartpoint /\ ~CanGrow
    /\ op' = Idle
    /\ UNCHANGED <<table, disk, startSearchCluster, trouble, uncleared, made>>

(***************************************************************************)
(* WriteLongFilenameEntries, LFN entry i of a name.  Across the end of a   *)
(* sector the root area goes on in the next one, with the offset reset;    *)
(* elsewhere the cluster changes and the offset does not: the next entry   *)
(* is copied behind the end of readBuffer.  Behind a link that failed      *)
(* there is no sector to read.                                             *)
(***************************************************************************)
(* Mutant: the entries of a name are numbered from 0. *)
LFNFromZero == [kind |-> "lfn", name |-> op.name, index |-> op.i]

LFN == [kind |-> "lfn", name |-> op.name, index |-> LFNEntries(op.name) - op.i]

WriteLFN ==
    LET sector  == op.lfnAt[1]
        slot    == op.lfnAt[2] + op.i
        done    == op.i + 1 = LFNEntries(op.name)
        after   == IF slot < SlotsPerSector THEN op.lfnAt
                   ELSE IF op.root THEN <<sector + 1, 1>>
                   ELSE <<ReadTable(sector), op.lfnAt[2]>>
    IN
    /\ op.pc = "lfn" /\ sector \in Sector
    /\ IF slot \in Slot
         THEN PutItem(sector, slot, LFN) /\ UNCHANGED trouble
         ELSE Put(sector, disk[sector]) /\ trouble' = trouble \cup {"overrun"}
    /\ op' = [op EXCEPT !.i = @ + 1, !.lfnAt = after, !.pc = IF done THEN "entry" ELSE "lfn"]

(* Mutant: an offset behind the sector wraps round inside it. *)
MainEntryPlaceWraps ==
    LET slot == op.slot + LFNEntries(op.name)
    IN  <<op.sector, IF slot <= SlotsPerSector THEN slot ELSE slot - SlotsPerSector>>

(* The place CreateEntry computes for the main entry. *)
MainEntryPlace ==
    LET slot == op.slot + LFNEntries(op.name)
    IN  IF slot <= SlotsPerSector THEN <<op.sector, slot>>
        ELSE <<IF op.root THEN op.sector + 1 ELSE ReadTable(op.sector),
               slot - SlotsPerSector>>

(* Behind a link that failed it allocates one more cluster, which it does   *)
(* not link either: the number of the last cluster is lost by then.         *)
AllocateEntryCluster ==
    /\ op.pc = "entry" /\ ~op.root /\ MainEntryPlace[1] = CLUSTER_END
    /\ AllocateCluster({})
    /\ op' = [op EXCEPT !.pc = "cleartmp", !.tmp = NewCluster]

ClearEntryCluster ==
    /\ op.pc = "cleartmp" /\ op' = [op EXCEPT !.pc = "tmpentry"]
    /\ ClearCluster(op.tmp) /\ UNCHANGED made

WriteDirectoryEntry ==
    LET at == IF op.pc = "entry" THEN MainEntryPlace ELSE <<op.tmp, MainEntryPlace[2]>> IN
    /\ op.pc \in {"entry", "tmpentry"} /\ at[1] \in Sector
    /\ PutItem(at[1], at[2], Entry(op.name, op.dir, op.new, 0)) /\ UNCHANGED trouble
    /\ op' = [op EXCEPT !.pc = "clearnew"]

(* The call returns 0.  A creation WriteFile asked for goes on there. *)
Acknowledge ==
    /\ made' = IF op.len = -1 THEN made \cup {op.path} ELSE made
    /\ op' = IF op.len = -1 THEN Idle ELSE [pc |-> "open", path |-> op.path, len |-> op.len]

(* Only now the content the new cluster had before is erased. *)
ClearNew ==
    /\ op.pc = "clearnew" /\ ClearCluster(op.new)
    /\ IF op.dir THEN op' = [op EXCEPT !.pc = "dots"] /\ UNCHANGED made
                 ELSE Acknowledge

WriteDots ==
    /\ op.pc = "dots"
    /\ disk' = [disk EXCEPT ![op.new] = [@ EXCEPT ![1] = Item("dot"), ![2] = Item("dot")]]
    /\ Acknowledge
    /\ UNCHANGED <<table, startSearchCluster, trouble, uncleared>>
-----------------------------------------------------------------------------
(***************************************************************************)
(* WriteFile of len clusters.  After each cluster it allocates the next    *)
(* one, even after the last, and links it: what the file held before is    *)
(* given up, not freed.                                                    *)
(***************************************************************************)
WriteFile(path, len, create) ==
    /\ op = Idle
    /\ IF ~FileExists(path) /\ create
         THEN CreateNewDirFileEntry(path, FALSE, len)
         ELSE /\ op' = [pc |-> "open", path |-> path, len |-> len]
              /\ UNCHANGED <<table, disk, startSearchCluster, trouble, uncleared, made>>

(* What is opened may be a directory. *)
Opened ==
    \E e \in GetEntryByPath(op.path) :
        /\ op' = [pc |-> IF op.len = 0 THEN "modify" ELSE "data", path |-> op.path,
                  len |-> op.len, at |-> e, cluster |-> e.item.first, next |-> 0, i |-> 0]
        /\ trouble' = trouble \cup (IF e.item.dir THEN {"misuse"} ELSE {})

Open ==
    /\ op.pc = "open"
    /\ Opened \/ (GetEntryByPath(op.path) = {} /\ op' = Idle /\ UNCHANGED trouble)
    /\ UNCHANGED <<table, disk, startSearchCluster, uncleared, made>>

WriteData ==
    /\ op.pc = "data" /\ op' = [op EXCEPT !.pc = "extend"]
    /\ Put(op.cluster, Filled("data")) /\ UNCHANGED trouble

(* Mutant: the next cluster is taken from behind the last one, free or not. *)
ExtendNext ==
    /\ op.pc = "extend"
    /\ op' = [op EXCEPT !.pc = "linkdata", !.next = op.cluster + 1]
    /\ WriteTable(op.cluster + 1, CLUSTER_END)
    /\ UNCHANGED <<disk, startSearchCluster, trouble, uncleared, made>>

Extend ==
    /\ op.pc = "extend"
    /\ op' = [op EXCEPT !.pc = "linkdata", !.next = NewCluster]
    /\ AllocateCluster({})

(* Mutant: the clusters are filled but not chained. *)
LinkDataForgotten ==
    /\ op.pc = "linkdata"
    /\ op' = [op EXCEPT !.pc = IF op.i + 1 = op.len THEN "modify" ELSE "data",
                        !.cluster = op.next, !.next = 0, !.i = @ + 1]
    /\ UNCHANGED <<table, disk, startSearchCluster, trouble, uncleared, made>>

LinkData ==
    /\ op.pc = "linkdata"
    /\ op' = [op EXCEPT !.pc = IF op.i + 1 = op.len THEN "modify" ELSE "data",
                        !.cluster = op.next, !.next = 0, !.i = @ + 1]
    /\ Link(op.cluster, op.next)

(* ModifyEntry stores the new size, if the entry is still what it was. *)
ModifyEntry ==
    /\ op.pc = "modify" /\ op' = Idle
    /\ IF disk[op.at.sector][op.at.slot] = op.at.item
         THEN PutItem(op.at.sector, op.at.slot, [op.at.item EXCEPT !.size = op.len])
         ELSE UNCHANGED <<table, disk, startSearchCluster, uncleared, made>>
    /\ UNCHANGED trouble
-----------------------------------------------------------------------------
(* WriteSector fails where the code looks at its result: the call returns   *)
(* -1 and leaves what it has written.  (Failures the code only logs are in  *)
(* AllocateCluster, ClearCluster and Link.)                                 *)
WriteFails ==
    /\ op.pc \in {"lfn", "entry", "tmpentry", "dots", "data", "modify"}
    /\ op' = Idle
    /\ trouble' = trouble \cup {"cut"}
    /\ UNCHANGED <<table, disk, startSearchCluster, uncleared, made, known>>

(* The power fails; Initialize starts from what the disk holds. *)
PowerFailure ==
    /\ op # Idle
    /\ op' = Idle /\ startSearchCluster' = fsInfo
    /\ trouble' = trouble \cup {"cut"}
    /\ UNCHANGED <<table, disk, uncleared, made, known>>

(* A formatted disk: what the free clusters held before is still there. *)
Init ==
    /\ table = [c \in Cluster |-> IF FatType = "FAT32" /\ c = rootDirCluster
                                   THEN CLUSTER_END ELSE CLUSTER_FREE]
    /\ disk = [s \in Sector |-> IF s <= 2 /\ (s < 2 \/ FatType = "FAT32")
                                  THEN Filled("end") ELSE Filled("data")]
    /\ fsInfo \in (IF FatType = "FAT32" THEN FSInfo ELSE {2})
    /\ startSearchCluster = fsInfo /\ op = Idle
    /\ trouble = {} /\ uncleared = {} /\ made = {} /\ known = {}

(* Bound: a call that does one of these is followed to its end; what later  *)
(* calls do then is not.                                                    *)
Sound == trouble \cap {"nocluster", "unmarked", "overrun", "misuse"} = {}

(* Where the paths that exist lead: to a first cluster. *)
Tree == UNION {{<<path, e.item.first>> : e \in GetEntryByPath(path)} : path \in Path}

Call ==
    /\ Sound /\ known' = Tree
    /\ \E path \in Path :
          \/ CreateFile(path) \/ CreateDirectory(path)
          \/ \E len \in 0..MaxLen, create \in BOOLEAN : WriteFile(path, len, create)

CreateStep ==
    /\ \/ FindEntryStartpoint \/ GrowDirectory \/ ClearGrown \/ CreateFails
       \/ WriteLFN \/ AllocateEntryCluster \/ ClearEntryCluster \/ WriteDirectoryEntry \/ ClearNew \/ WriteDots
    /\ UNCHANGED known

WriteStep ==
    /\ Open \/ WriteData \/ Extend \/ LinkData \/ ModifyEntry
    /\ UNCHANGED known

Next == (Call \/ CreateStep \/ WriteStep \/ WriteFails \/ PowerFailure) /\ UNCHANGED fsInfo

Spec == Init /\ [][Next]_vars
-----------------------------------------------------------------------------
(* The entries the directories of the disk hold, wherever a walk from the   *)
(* root finds them.                                                         *)
EntriesIn(dir) == {e.at : e \in GetDirectoryEntries(dir)}

Entries == LET inRoot == EntriesIn(Root)
           IN  inRoot \cup UNION {EntriesIn(Sub(d.item.first)) : d \in {e \in inRoot : e.item.dir}}

(* What an entry or a link holds: a cluster, or what AllocateCluster        *)
(* returned in its place.                                                   *)
Number == 0..totalClusters

AnyItem ==
    [kind : {"end", "data", "dot"}]
    \cup [kind : {"lfn"}, name : Name, index : 1..2]
    \cup [kind : {"entry"}, name : Name, dir : BOOLEAN, first : Number, size : 0..MaxLen]

(* The variables have their types: table and entries name nothing outside   *)
(* the disk, whatever hint Initialize found.                                *)
TypeOK ==
    /\ table \in [Cluster -> Number \cup {CLUSTER_END}]
    /\ disk \in [Sector -> [Slot -> AnyItem]]
    /\ fsInfo \in Nat /\ startSearchCluster \in Nat
    /\ trouble \subseteq Trouble /\ uncleared \subseteq Number /\ made \subseteq Path

(* What may name a cluster: an entry in any slot of the disk, whether or    *)
(* not a directory still leads to it, a link of the table, and the boot     *)
(* record of FAT32.                                                         *)
Reference == ({"entry"} \X Sector \X Slot) \cup ({"link"} \X Cluster \X {0}) \cup {<<"root", 0, 0>>}

Target(r) ==
    CASE r[1] = "entry" -> IF disk[r[2]][r[3]].kind = "entry" THEN disk[r[2]][r[3]].first ELSE 0
      [] r[1] = "link"  -> table[r[2]]
      [] r[1] = "root"  -> IF FatType = "FAT32" THEN rootDirCluster ELSE 0

Naming == {r \in Reference : Target(r) \in Cluster}

(* Files and directories share no cluster: no two references name the same  *)
(* one, whatever calls failed, until AllocateCluster finds no cluster or    *)
(* cannot mark the one it returns.  (No operation frees a cluster, and      *)
(* AllocateCluster marks one before anything points to it, fat.cpp:225.)    *)
NoCrossLink ==
    Sound => LET naming == Naming
             IN  \A r, s \in naming : Target(r) = Target(s) => r = s

(* The clusters with a successor, and the sets a walk that is in them never *)
(* leaves.                                                                  *)
Linked == {c \in Cluster : table[c] \in Cluster}
Rounds == {S \in SUBSET Linked : \A c \in S : table[c] \in S}

(* Likewise, every entry has a first cluster ("File should have first       *)
(* cluster allocated already", fat.cpp:1086), and a walk along the links    *)
(* from there or from the root's first cluster meets no free cluster and    *)
(* does not go round, so that the loops over a chain end, with the end      *)
(* mark, also after links or clears that failed.                            *)
ChainsEnd ==
    Sound =>
        /\ \A s \in Sector, k \in Slot :
              disk[s][k].kind = "entry" => disk[s][k].first \in Cluster
        /\ \A r \in Naming :
              /\ table[Target(r)] # CLUSTER_FREE
              /\ r[1] # "link" => \A S \in Rounds : Target(r) \notin S

(* Nothing a call does, and no failure during it, makes a path that was     *)
(* found disappear or lead elsewhere: entries go to free slots only ("Copy  *)
(* entry to free spot", fat.cpp:708).  The exceptions are those of Sound: a *)
(* caller that writes to a directory's path destroys what is in it.         *)
EntriesKept == Sound => known \subseteq Tree

(* What was created is found by its name again, as long as no call was cut  *)
(* short (LFN entries without a main entry spoil the next name), no link    *)
(* failed and no cluster stayed uncleared (the search for names stops at    *)
(* the free entries before it).  The exception is a long name across the    *)
(* end of a sector, whose creation returns 0 all the same: part of it was   *)
(* copied behind readBuffer (fat.cpp:686-697).                              *)
CreatedIsFound ==
    trouble \subseteq {"overrun"} /\ uncleared = {} =>
        \A path \in made :
            \/ GetEntryByPath(path) # {}
            \/ "overrun" \in trouble /\ path[Len(path)] \in Long

(* Left-over content of a cluster shows up in a directory only if it could  *)
(* not be cleared, or if the creation of the directory stopped before its   *)
(* first cluster was; a cluster a directory grows by is cleared before it   *)
(* is linked (fat.cpp:547-549).                                             *)
DirectoryClean ==
    Sound =>
        \A dir \in {Root} \cup {Sub(e.item.first) : e \in {x \in EntriesIn(Root) : x.item.dir}} :
            \A k \in DOMAIN Items(SectorsOf(dir)) :
                LET at == Items(SectorsOf(dir))[k] IN
                at.item.kind = "data" =>
                    \/ at.sector \in uncleared
                    \/ /\ ~dir.root /\ at.sector = dir.first
                       /\ "cut" \in trouble \/ op.pc = "clearnew"

(* Between calls, while nothing has failed, a file's chain is long enough    *)
(* for its size, also after it was written again with another length.       *)
SizeCovered ==
    trouble = {} /\ op = Idle =>
        \A e \in Entries : e.item.size <= Len(Chain(e.item.first))
=============================================================================
