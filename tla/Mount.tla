---------------------------------- MODULE Mount ----------------------------------
(***************************************************************************)
(* What a mount finds on a device (Volume::mount of src/mount/mod.rs): the *)
(* partition, the boot region or its backup, the system entries of the     *)
(* root directory, the up-case table.  A mount only reads, so it is an     *)
(* operator on the sectors of the device, d.                               *)
(*                                                                         *)
(* Abstractions: a sector is a record of what is in it, or Zero, or Junk:  *)
(* bytes that read as no structure.  A checksum is the data it is computed *)
(* from.                                                                   *)
(***************************************************************************)
EXTENDS Geometry, Sequences, SequencesExt, FiniteSets

CONSTANTS
    SlotsPerSector, \* SectorBytes / 32
    GptEntriesPerSector

Zero == [kind |-> "zero"]
Junk == [kind |-> "junk"]
EndSlot == [type |-> "end"]

EndOfChain == 2 * MaxClusterBytes + 1 \* 0xffffffff, beyond every cluster
NoLabel == <<>>

Failure(error) == [outcome |-> error]
Mounted(r) == r.outcome = "ok"

-----------------------------------------------------------------------------
(* Partitions.                                                             *)

IsProtective(s) == s.kind = "mbr" /\ \E i \in DOMAIN s.entries : s.entries[i].type = "protective"

IsExfat(e) == e.type = "exfat" /\ e.first # 0 /\ e.count # 0

MbrPartition(s) ==
    IF s.kind # "mbr" THEN Failure("InvalidPartitionTable")
    ELSE LET found == SelectSeq(s.entries, IsExfat)
         IN  IF found = <<>> THEN Failure("PartitionNotFound")
             ELSE [outcome |-> "ok", first |-> Head(found).first, count |-> Head(found).count]

(* The entries of a table, sector by sector.                               *)
EntriesIn(s) == IF s.kind = "gptEntries" THEN s.entries ELSE [i \in 1..GptEntriesPerSector |-> s]
GptTable(d, h) ==
    LET sectors == CeilDiv(h.count, GptEntriesPerSector)
    IN  SubSeq(FlattenSeq([i \in 1..sectors |-> EntriesIn(d[h.at + i - 1])]), 1, h.count)

IsBasic(e) == e.kind = "basic"
BasicPartition(entries, total) ==
    IF entries = <<>> THEN Failure("PartitionNotFound")
    ELSE LET e == Head(entries)
         IN  IF e.first = 0 \/ e.last < e.first \/ e.last >= total THEN Failure("InvalidGpt")
             ELSE [outcome |-> "ok", first |-> e.first, count |-> e.last - e.first + 1]

HeaderReadable(h, total) ==
    /\ h.kind = "gptHeader" /\ h.count # 0 /\ h.at # 0
    /\ h.at + CeilDiv(h.count, GptEntriesPerSector) <= total
GptPartition(d, h, total) ==
    IF ~HeaderReadable(h, total) THEN Failure("InvalidGpt")
    ELSE LET table == GptTable(d, h)
         IN  IF table # h.sum THEN Failure("InvalidGpt")
             ELSE BasicPartition(SelectSeq(table, IsBasic), total)

Inside(p, total) ==
    IF Mounted(p) /\ (p.first >= total \/ p.count > total - p.first)
    THEN Failure("InvalidPartitionTable")
    ELSE p
Partition(d, total) ==
    Inside(IF IsProtective(d[0]) THEN GptPartition(d, d[1], total) ELSE MbrPartition(d[0]), total)

-----------------------------------------------------------------------------
(* The boot region, or the backup behind it.                               *)

(* What the checksum covers: not VolumeFlags, which has the active FAT.    *)
Covered(s) == IF s.kind = "boot" THEN [s EXCEPT !.active = 0] ELSE s

(* A region of zeros has the checksum zero.                                *)
BootRegionValid(d, p, offset) ==
    LET region == [i \in 1..(RegionSectors - 1) |-> Covered(d[p.first + offset + i - 1])]
        sum == d[p.first + offset + RegionSectors - 1]
    IN  /\ p.count >= offset + RegionSectors
        /\ \/ sum.kind = "checksum" /\ sum.of = region
           \/ sum = Zero /\ \A i \in DOMAIN region : region[i] = Zero

(* Seeded fault: the copy is looked for one sector too far. *)
BootOffsetsPast == <<0, RegionSectors + 1>>

BootOffsets == <<0, RegionSectors>>

CheckedGeometry(p, boot) ==
    IF boot.kind # "boot" \/ boot.sectorBytes # SectorBytes THEN Failure("InvalidBootSector")
    ELSE IF boot.spc * SectorBytes > MaxClusterBytes THEN Failure("UnsupportedClusterSize")
    ELSE IF ~BootAccepted(p, boot) THEN Failure("BootGeometryCorrupt")
    ELSE [outcome |-> "ok", geometry |-> GeometryIn(p, boot)]

BootGeometry(d, p) ==
    LET valid == SelectSeq(BootOffsets, LAMBDA o : BootRegionValid(d, p, o))
    IN  IF valid = <<>> THEN Failure("InvalidBootSector")
        ELSE CheckedGeometry(p, d[p.first + Head(valid)])

-----------------------------------------------------------------------------
(* Clusters.                                                               *)

NextCluster(d, g, c) ==
    LET s == d[FatLba(g, c)]
    IN  IF s.kind = "fat" THEN s.next[(c % EntriesPerSector) + 1]
        ELSE IF s = Zero THEN 0 ELSE g.clusters + 2

(* The clusters that a walk from one visits: to the end, out of the heap,  *)
(* or once for each cluster of it.                                         *)
Chain(d, g, c) ==
    LET walk[n \in 1..g.clusters] ==
            IF n = 1 THEN SelectSeq(<<c>>, LAMBDA x : x \in HeapClusters(g))
            ELSE LET w == walk[n - 1]
                 IN  IF w = <<>> \/ Len(w) < n - 1 \/ NextCluster(d, g, Last(w)) \notin HeapClusters(g)
                     THEN w ELSE Append(w, NextCluster(d, g, Last(w)))
    IN  walk[g.clusters]

(* Their sectors.                                                          *)
LbasOf(g, chain) ==
    [i \in 1..(Len(chain) * g.spc) |->
        ClusterLba(g, chain[(i - 1) \div g.spc + 1]) + ((i - 1) % g.spc)]
ChainLbas(d, g, c) == LbasOf(g, Chain(d, g, c))

SectorsAt(d, lbas) == [i \in DOMAIN lbas |-> d[lbas[i]]]
ChainSectors(d, g, c) == SectorsAt(d, ChainLbas(d, g, c))

-----------------------------------------------------------------------------
(* The root directory's entries in front of its end marker.                *)

SlotsIn(s) ==
    CASE s.kind = "root" -> s.slots
      [] s.kind = "zero" -> [i \in 1..SlotsPerSector |-> EndSlot]
      [] OTHER -> <<>>

SlotsOf(sectors) == FlattenSeq([i \in DOMAIN sectors |-> SlotsIn(sectors[i])])
RootSlots(d, g) == SlotsOf(ChainSectors(d, g, g.root))

UsedSlots(slots) ==
    LET ends == {i \in DOMAIN slots : slots[i] = EndSlot}
    IN  SubSeq(slots, 1, (CHOOSE i \in ends : \A j \in ends : i <= j) - 1)

OfType(slots, type) == SelectSeq(slots, LAMBDA s : s.type = type)

(* Every error of the scan is RootDirectoryCorrupt.                        *)
EntriesAmong(g, used) ==
    LET bitmaps == OfType(used, "bitmap")
        active == SelectSeq(bitmaps, LAMBDA s : s.id = g.active)
        tables == OfType(used, "upcase")
        labels == OfType(used, "label")
    IN  IF \/ \E i \in DOMAIN bitmaps : bitmaps[i].id >= g.fats
           \/ Len(active) # 1 \/ tables = <<>>
        THEN Failure("RootDirectoryCorrupt")
        ELSE [outcome |-> "ok", bitmap |-> active[1], upcase |-> tables[1],
              label |-> IF labels = <<>> THEN NoLabel ELSE Last(labels).text]

SystemEntries(g, slots) ==
    IF \A i \in DOMAIN slots : slots[i] # EndSlot THEN Failure("RootDirectoryCorrupt")
    ELSE EntriesAmong(g, UsedSlots(slots))

(* validate_upcase_table: the whole table read once and its checksum       *)
(* compared.                                                               *)
HasTable(sectors, table) ==
    LET length == CeilDiv(table.length, SectorBytes)
    IN  /\ table.length # 0
        /\ length <= Len(sectors)
        /\ SubSeq(sectors, 1, length) = table.sum
UpcaseValid(d, g, table) == HasTable(ChainSectors(d, g, table.first), table)

-----------------------------------------------------------------------------
MountRoot(d, g, s) ==
    IF ~Mounted(s) THEN s
    ELSE [outcome |-> "ok", geometry |-> g, bitmap |-> s.bitmap, upcase |-> s.upcase,
          upcaseValid |-> UpcaseValid(d, g, s.upcase), label |-> s.label]
MountGeometry(d, b) ==
    IF ~Mounted(b) THEN b
    ELSE MountRoot(d, b.geometry, SystemEntries(b.geometry, RootSlots(d, b.geometry)))
MountPartition(d, p) == IF ~Mounted(p) THEN p ELSE MountGeometry(d, BootGeometry(d, p))

MountResult(d, total) == MountPartition(d, Partition(d, total))
=============================================================================
