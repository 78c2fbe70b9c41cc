--------------------------------- MODULE Volumes ---------------------------------
(***************************************************************************)
(* A device as it is mounted, used, damaged, formatted (format_exfat of    *)
(* src/format.rs) and mounted again.  format is one action per sector      *)
(* that it writes; between any two of them the power can fail, and what    *)
(* was written since the last flush can be lost with it.                   *)
(*                                                                         *)
(* Abstractions: a file is one slot of the root directory (Directories has *)
(* the slots of a set and the growth, Tree and FileStreams the clusters).  *)
(***************************************************************************)
EXTENDS Mount

CONSTANTS
    Media,      \* devices as they are found: size, sectors, what a mount finds
    Scratches,  \* lengths of the caller's scratch memory, in bytes
    Files,      \* names of files that callers make
    MaxMade,    \* and how many of them: a bound
    Damages,    \* "tear": one sector; "erase": the first boot region zeroed
    CacheLoses  \* in a power cut: "nothing", "everything", "one" sector

ASSUME VolumesAssumption ==
    /\ \A s \in Scratches : s \in Nat /\ s >= SectorBytes
    /\ \A m \in Media : DOMAIN m.disk = 0..(m.total - 1) /\ m.total > 1
    /\ MaxMade \in Nat

VARIABLES
    media,   \* the device as it was found: does not change
    disk,    \* its sectors, as reads see them
    stable,  \* its sectors, as of the last flush
    format,  \* the call of format_exfat: its step, its scratch memory
    volume,  \* what the last mount returned, or NotMounted
    holds,   \* history: "found", or "format" since it began, "again", "fresh"
    made,    \* history: the files made since the medium was found or formatted
    damaged  \* history: the sectors damaged since then

vars == <<media, disk, stable, format, volume, holds, made, damaged>>

total == media.total
Result == MountResult(disk, total)
NotMounted == Failure("not mounted")
Idle == [pc |-> "idle", step |-> 1, scratch |-> 0]
At(pc) == format.pc = pc

-----------------------------------------------------------------------------
(* The sectors that format writes on a volume of geometry g.               *)

BootRegion(g) ==
    <<BootSector(g)>> \o [i \in 1..(RegionSectors - 2) |-> [kind |-> "extended", number |-> i]]

MbrSector(g) ==
    [kind |-> "mbr", entries |-> <<[type |-> "exfat", first |-> 1, count |-> g.count]>>]
WriteMbr(g) == <<<<0, MbrSector(g)>>>>

WriteBoot(g, start) ==
    [i \in 1..(RegionSectors - 1) |-> <<start + i - 1, BootRegion(g)[i]>>]
    \o <<<<start + RegionSectors - 1, [kind |-> "checksum", of |-> BootRegion(g)]>>>>

(* A system file of n clusters from one on.                                *)
Linked(c, first, n) == IF c + 1 < first + n THEN c + 1 ELSE EndOfChain
FatValue(g, c) ==
    CASE c \in {0, 1, 2} -> EndOfChain
      [] c \in BitmapCluster..(UpcaseCluster(g) - 1) -> Linked(c, BitmapCluster, BitmapClusters(g))
      [] c \in UpcaseCluster(g)..(UpcaseCluster(g) + UpcaseClusters(g) - 1) ->
            Linked(c, UpcaseCluster(g), UpcaseClusters(g))
      [] OTHER -> 0
WriteFat(g) ==
    [k \in 1..g.fatLength |->
        <<g.first + g.fatOffset + k - 1,
          [kind |-> "fat",
           next |-> [i \in 1..EntriesPerSector |-> FatValue(g, (k - 1) * EntriesPerSector + i - 1)]]>>]

(* Seeded fault: the root directory's cluster is not counted. *)
ReservedWithoutRoot(g) == BitmapClusters(g) + UpcaseClusters(g)

Reserved(g) == 1 + BitmapClusters(g) + UpcaseClusters(g)

SectorBits == SectorBytes * BitsPerByte
WriteBitmap(g) ==
    [k \in 1..CeilDiv(BitmapBytes(g), SectorBytes) |->
        <<ClusterLba(g, BitmapCluster) + k - 1,
          [kind |-> "bitmap",
           set |-> {b \in 0..(SectorBits - 1) : (k - 1) * SectorBits + b < Reserved(g)}]>>]

UpcaseTable ==
    [k \in 1..(UpcaseBytes \div SectorBytes) |-> [kind |-> "upcase", part |-> k]]
WriteUpcase(g) ==
    [k \in DOMAIN UpcaseTable |-> <<ClusterLba(g, UpcaseCluster(g)) + k - 1, UpcaseTable[k]>>]

BitmapSlot(g) ==
    [type |-> "bitmap", id |-> 0, first |-> BitmapCluster, length |-> BitmapBytes(g)]
UpcaseSlot(g) ==
    [type |-> "upcase", first |-> UpcaseCluster(g), length |-> UpcaseBytes, sum |-> UpcaseTable]
RootSector(g) ==
    [kind |-> "root",
     slots |-> <<BitmapSlot(g), UpcaseSlot(g)>> \o [i \in 1..(SlotsPerSector - 2) |-> EndSlot]]
WriteRoot(g) == <<<<ClusterLba(g, 2), RootSector(g)>>>>

(* Seeded fault: the root directory is written ahead of what it names. *)
WritesRootFirst(g) ==
    WriteMbr(g) \o WriteBoot(g, 1) \o WriteBoot(g, 1 + RegionSectors)
    \o WriteRoot(g) \o WriteFat(g) \o WriteBitmap(g) \o WriteUpcase(g)
(* Seeded fault: the boot regions are written last, over the new contents. *)
WritesBootLast(g) ==
    WriteMbr(g) \o WriteRoot(g) \o WriteFat(g) \o WriteBitmap(g) \o WriteUpcase(g)
    \o WriteBoot(g, 1) \o WriteBoot(g, 1 + RegionSectors)

(* In their order.                                                         *)
Writes(g) ==
    WriteMbr(g) \o WriteBoot(g, 1) \o WriteBoot(g, 1 + RegionSectors)
    \o WriteFat(g) \o WriteBitmap(g) \o WriteUpcase(g) \o WriteRoot(g)

(* The geometry and the writes for each size of device.                    *)
Sizes == {n \in {m.total : m \in Media} : Formattable(n)}
GeometryFor == [n \in Sizes |-> FormatGeometry(n)]
WritesFor == [n \in Sizes |-> Writes(GeometryFor[n])]
fresh == GeometryFor[total]
writes == WritesFor[total]

(* write_upcase fills half as many words as its scratch memory has bytes,  *)
(* and slices them from the whole sectors in it.                           *)
UpcaseStep == Len(writes) - Len(UpcaseTable)
UpcaseFits ==
    LET bytes == 2 * (format.scratch \div 2)
    IN  (IF UpcaseBytes < bytes THEN UpcaseBytes ELSE bytes)
            <= SectorBytes * (format.scratch \div SectorBytes)

-----------------------------------------------------------------------------
Init ==
    /\ media \in Media
    /\ disk = media.disk /\ stable = media.disk
    /\ format = Idle
    /\ volume = NotMounted
    /\ holds = "found" /\ made = {} /\ damaged = {}

(* The device is moved into a file system by a mount, and format has it    *)
(* exclusively.  (A bound: media are damaged behind a format, not ahead of *)
(* one.)                                                                   *)
Unowned == format.pc \in {"idle", "refused"} /\ ~Mounted(volume)

BeginFormat(s) ==
    /\ Unowned /\ total \in Sizes /\ damaged = {}
    /\ format' = [pc |-> "writing", step |-> 1, scratch |-> s]
    /\ volume' = NotMounted
    /\ holds' = IF holds = "found" THEN "format" ELSE "again"
    /\ UNCHANGED <<media, disk, stable, made, damaged>>

(* A layout that does not settle, or no room: an error, and no write.      *)
FormatRefuses ==
    /\ Unowned /\ total \notin Sizes
    /\ format' = [Idle EXCEPT !.pc = "refused"]
    /\ UNCHANGED <<media, disk, stable, volume, holds, made, damaged>>

(* Seeded fault: two sectors are counted for one. *)
StepTwice == format.step + 2

NextStep == format.step + 1

WriteSector ==
    /\ At("writing") /\ format.step <= Len(writes)
    /\ format.step = UpcaseStep => UpcaseFits
    /\ disk' = [disk EXCEPT ![writes[format.step][1]] = writes[format.step][2]]
    /\ format' = [format EXCEPT !.step = NextStep]
    /\ UNCHANGED <<media, stable, volume, holds, made, damaged>>

WriteUpcasePanics ==
    /\ At("writing") /\ format.step = UpcaseStep /\ ~UpcaseFits
    /\ format' = [format EXCEPT !.pc = "panicked"]
    /\ UNCHANGED <<media, disk, stable, volume, holds, made, damaged>>

FormatIoError ==
    /\ At("writing")
    /\ format' = [format EXCEPT !.pc = "idle", !.scratch = 0]
    /\ UNCHANGED <<media, disk, stable, volume, holds, made, damaged>>

Flush ==
    /\ At("writing") /\ format.step = Len(writes) + 1
    /\ stable' = disk
    /\ format' = Idle
    /\ holds' = "fresh" /\ damaged' = {} /\ made' = {}
    /\ UNCHANGED <<media, disk, volume>>

-----------------------------------------------------------------------------
Mount ==
    /\ Unowned
    /\ volume' = Result
    /\ UNCHANGED <<media, disk, stable, format, holds, made, damaged>>

(* The device comes back with the error and can be mounted again.          *)
MountIoError ==
    /\ Unowned
    /\ volume' = Failure("Device")
    /\ UNCHANGED <<media, disk, stable, format, holds, made, damaged>>

IntoDevice ==
    /\ Mounted(volume)
    /\ volume' = NotMounted
    /\ UNCHANGED <<media, disk, stable, format, holds, made, damaged>>

(* The files that read_directory shows of the root.                        *)
FilesAmong(slots) == {slots[i].name : i \in {j \in DOMAIN slots : slots[j].type = "file"}}
Shown(slots) ==
    FilesAmong(IF \E i \in DOMAIN slots : slots[i] = EndSlot THEN UsedSlots(slots) ELSE slots)
Listing(g) == Shown(RootSlots(disk, g))

(* create writes its set over the first slot that is not in use.           *)
FreeSlots(lbas) ==
    {p \in (DOMAIN lbas) \X (1..SlotsPerSector) :
        /\ p[2] \in DOMAIN SlotsIn(disk[lbas[p[1]]])
        /\ SlotsIn(disk[lbas[p[1]]])[p[2]].type \in {"end", "gone"}}
Ahead(p, q) == p[1] < q[1] \/ (p[1] = q[1] /\ p[2] <= q[2])
WithFile(s, slot, f) ==
    [kind |-> "root", slots |-> [SlotsIn(s) EXCEPT ![slot] = [type |-> "file", name |-> f]]]

Create(f) ==
    /\ Mounted(volume)
    /\ f \notin Listing(volume.geometry) /\ Cardinality(made) < MaxMade
    /\ \E lbas \in {ChainLbas(disk, volume.geometry, volume.geometry.root)} :
         \E p \in FreeSlots(lbas) :
           /\ \A q \in FreeSlots(lbas) : Ahead(p, q)
           /\ disk' = [disk EXCEPT ![lbas[p[1]]] = WithFile(@, p[2], f)]
    /\ made' = made \cup {f}
    /\ UNCHANGED <<media, stable, format, volume, holds, damaged>>

-----------------------------------------------------------------------------
(* The power fails: calls and handles are gone, and of what was written    *)
(* since the last flush nothing, everything or one sector.  (A bound: of   *)
(* files that were made none is lost.  Directories and FileStreams have    *)
(* the power cuts between their writes.)                                   *)
Survivors ==
    LET unflushed == {l \in DOMAIN disk : disk[l] # stable[l]}
    IN  (IF "nothing" \in CacheLoses THEN {disk} ELSE {})
        \cup (IF "everything" \in CacheLoses THEN {stable} ELSE {})
        \cup (IF "one" \in CacheLoses THEN {[disk EXCEPT ![l] = stable[l]] : l \in unflushed} ELSE {})

Crash ==
    /\ \E d \in Survivors :
         /\ d = disk \/ made = {}
         /\ disk' = d /\ stable' = d
    /\ format' = [format EXCEPT !.pc = "idle", !.scratch = 0]
    /\ volume' = NotMounted
    /\ UNCHANGED <<media, holds, made, damaged>>

(* A medium that nobody has open is damaged: one sector, or the flash      *)
(* block that has its first boot region.                                   *)
Damage(lbas, s) ==
    /\ Unowned /\ volume = NotMounted /\ damaged = {} /\ holds \in {"found", "fresh"}
    /\ Mounted(Result)
    /\ disk' = [l \in DOMAIN disk |-> IF l \in lbas THEN s ELSE disk[l]]
    /\ stable' = disk'
    /\ damaged' = lbas
    /\ UNCHANGED <<media, format, volume, holds, made>>
Tear ==
    "tear" \in Damages /\ \E l \in DOMAIN disk : Damage({l}, Junk)
Erase ==
    LET first == Result.geometry.first
    IN  "erase" \in Damages /\ Damage(first..(first + RegionSectors - 1), Zero)

Next ==
    \/ \E s \in Scratches : BeginFormat(s)
    \/ FormatRefuses \/ WriteSector \/ WriteUpcasePanics \/ FormatIoError \/ Flush
    \/ Mount \/ MountIoError \/ IntoDevice
    \/ \E f \in Files : Create(f)
    \/ Crash \/ Tear \/ Erase

Spec == Init /\ [][Next]_vars
-----------------------------------------------------------------------------
(* What a mount must find behind format.                                   *)
FreshVolume(g) ==
    [outcome |-> "ok", geometry |-> g, bitmap |-> BitmapSlot(g), upcase |-> UpcaseSlot(g),
     upcaseValid |-> TRUE, label |-> NoLabel]

ClusterSet(chain) == {chain[i] : i \in DOMAIN chain}
BitIsSet(sectors, p) ==
    LET k == p.byte \div SectorBytes + 1
    IN  /\ k \in DOMAIN sectors /\ sectors[k].kind = "bitmap"
        /\ (p.byte % SectorBytes) * BitsPerByte + p.bit \in sectors[k].set

(* The FAT chains of the three system files are apart, as long as the      *)
(* files, and end; the bitmap has a bit for every cluster, and the bits    *)
(* that are set are those of the chains.                                   *)
ChainsWhole(g, root, bitmap, table) ==
    /\ Cardinality(root) = 1
    /\ Cardinality(bitmap) = CeilDiv(BitmapBytes(g), ClusterBytes(g))
    /\ Cardinality(table) = CeilDiv(UpcaseBytes, ClusterBytes(g))
    /\ Cardinality(root \cup bitmap \cup table)
          = Cardinality(root) + Cardinality(bitmap) + Cardinality(table)
BitsWhole(g, sectors, claimed) ==
    /\ g.clusters <= BitmapBytes(g) * BitsPerByte
    /\ \A c \in HeapClusters(g) : BitIsSet(sectors, BitPosition(c)) <=> c \in claimed

SystemFilesWhole(g) ==
    \E root \in {ClusterSet(Chain(disk, g, 2))},
       bitmap \in {ClusterSet(Chain(disk, g, BitmapCluster))},
       table \in {ClusterSet(Chain(disk, g, UpcaseCluster(g)))} :
        /\ ChainsWhole(g, root, bitmap, table)
        /\ BitsWhole(g, ChainSectors(disk, g, BitmapCluster), root \cup bitmap \cup table)

IsFreshOf(g) == Result = FreshVolume(g) /\ SystemFilesWhole(g)
IsFresh == IsFreshOf(fresh)

-----------------------------------------------------------------------------
(* Each variable holds what the program keeps there, and format writes     *)
(* only to sectors of the device.                                          *)
TypeOK ==
    /\ DOMAIN disk = 0..(total - 1) /\ DOMAIN stable = 0..(total - 1)
    /\ format.pc \in {"idle", "writing", "refused", "panicked"}
    /\ At("writing") =>
         /\ format.step \in 1..(Len(writes) + 1)
         /\ format.step <= Len(writes) => writes[format.step][1] \in DOMAIN disk

(* A mount finds the volume that is on the medium, through the partition   *)
(* table, the active FAT and the root's chain, and the files in its root;  *)
(* it rejects what is no volume.                                           *)
MountSees ==
    holds = "found" /\ damaged = {} =>
        /\ Result = media.expected
        /\ Mounted(Result) => Listing(Result.geometry) = media.files \cup made

(* Behind a format that returned Ok, a power cut or not, a mount finds the *)
(* fresh volume, whatever was on the medium.                               *)
FormattedFresh ==
    holds = "fresh" /\ damaged = {} => IsFresh

(* An erased medium that was being formatted when the power failed is not  *)
(* mounted until everything is in place.                                   *)
FreshOrNothing ==
    (\A l \in DOMAIN disk : media.disk[l] = Zero) /\ damaged = {} => (Mounted(Result) => IsFresh)

(* While format has not replaced the first boot region, the backup serves: *)
(* a mount finds the old volume and its files.                             *)
OldUntilReplaced ==
    /\ holds = "format" /\ Mounted(media.expected) /\ damaged = {}
    /\ [first |-> media.expected.geometry.first, count |-> media.expected.geometry.count]
          = [first |-> 1, count |-> total - 1]
    /\ format.step <= 1 + RegionSectors
    => Result = media.expected /\ Listing(Result.geometry) = media.files \cup made

(* One torn sector of either boot region changes nothing; one of the       *)
(* up-case table only withholds the table.                                 *)
ToleratedBy(whole, table) ==
    LET first == whole.geometry.first
    IN  /\ damaged \subseteq first..(first + BootSectors - 1) => Result = whole
        /\ damaged \subseteq table => Result = [whole EXCEPT !.upcaseValid = FALSE]
TableSectors(whole, lbas) ==
    {lbas[i] : i \in DOMAIN lbas \cap 1..CeilDiv(whole.upcase.length, SectorBytes)}
DamageTolerated ==
    holds \in {"found", "fresh"} /\ Cardinality(damaged) = 1 =>
        \E whole \in {IF holds = "fresh" THEN FreshVolume(fresh) ELSE media.expected} :
            ToleratedBy(whole, TableSectors(whole, ChainLbas(disk, whole.geometry, whole.upcase.first)))

(* "does not preserve any prior data ... or files": what a formatted       *)
(* volume shows was made since.                                            *)
NoPriorFiles ==
    holds = "fresh" /\ Mounted(Result) => Listing(Result.geometry) \subseteq made

(* "mount from that verified copy rather than treating a recoverable       *)
(* volume as unformatted", for a boot region that reads as zeros.          *)
ErasedRegionTolerated ==
    holds \in {"found", "fresh"} /\ Cardinality(damaged) = RegionSectors => Mounted(Result)

(* A device that a layout exists for is formatted.                         *)
LayoutFound ==
    At("refused") => \A fat \in 1..total :
        LET spc == ClusterSectors(total - 1)
            g == [clusters |-> ClustersBehind(total - 1, spc, fat), spc |-> spc]
        IN  /\ BootSectors + fat < total
            /\ total > BootSectors + MinimumSectors /\ total - 1 <= MaxSectors =>
                \/ fat < FatNeeded(g.clusters)
                \/ UpcaseCluster(g) + UpcaseClusters(g) > g.clusters + 2

(* Scratch memory "must be at least one sector long": format runs with any *)
(* that is.                                                                *)
NeverPanics == ~At("panicked")
=============================================================================
