-------------------------------- MODULE Geometry --------------------------------
(***************************************************************************)
(* The arithmetic of a volume: how format divides a partition              *)
(* (src/format.rs), what mount accepts of a boot sector (parse_boot of     *)
(* src/mount/mod.rs) and where clusters, FAT entries and bits lie          *)
(* (src/core/geometry.rs).  Pure operators; the sizes of the format are    *)
(* constants, so that TLC can run with small ones.                         *)
(***************************************************************************)
EXTENDS Naturals

CONSTANTS
    SectorBytes,     \* 512
    RegionSectors,   \* 12: the sectors of a boot region, checksum included
    EntryBytes,      \* 4: a FAT entry
    BitsPerByte,     \* 8
    UpcaseBytes,     \* 131072: the table that format writes
    MinimumSectors,  \* 512: what format wants behind the boot regions
    MaxClusterBytes, \* 2^25
    MaxSectors,      \* 2^32 - 1: the longest partition that format makes
    MediumDevice, MediumCluster, \* partitions of 131072 sectors have clusters of 16,
    LargeDevice, LargeCluster,   \* those of 1048576 have 64
    Tries            \* 8: rounds of the layout

BootSectors == 2 * RegionSectors

ASSUME GeometryAssumption ==
    /\ {SectorBytes, RegionSectors, EntryBytes, BitsPerByte, MediumCluster, LargeCluster, Tries} \subseteq Nat \ {0}
    /\ {UpcaseBytes, MinimumSectors, MaxClusterBytes, MaxSectors, MediumDevice, LargeDevice} \subseteq Nat
    /\ RegionSectors > 1
    /\ SectorBytes % EntryBytes = 0
    /\ \A spc \in {1, MediumCluster, LargeCluster} : spc * SectorBytes <= MaxClusterBytes

CeilDiv(a, b) == (a + b - 1) \div b
EntriesPerSector == SectorBytes \div EntryBytes

-----------------------------------------------------------------------------
(* format: FAT length and cluster count depend on each other; a few rounds *)
(* look for a pair that fits.                                              *)

ClusterSectors(sectors) ==
    IF sectors >= LargeDevice THEN LargeCluster
    ELSE IF sectors >= MediumDevice THEN MediumCluster ELSE 1

ClustersBehind(sectors, spc, fat) == (sectors - (BootSectors + fat)) \div spc

FatNeeded(clusters) == CeilDiv((clusters + 2) * EntryBytes, SectorBytes)

(* The FAT length of each round; a length with no room behind it stays.    *)
FatRounds(sectors, spc) ==
    LET fat[n \in 0..Tries] ==
            IF n = 0 THEN 1
            ELSE IF sectors < BootSectors + fat[n - 1] THEN fat[n - 1]
            ELSE FatNeeded(ClustersBehind(sectors, spc, fat[n - 1]))
    IN  fat

(* The lengths it settles on: what the clusters behind them need.          *)
Settled(sectors, spc) ==
    {fat \in 1..(sectors - BootSectors) :
        /\ \E n \in 0..(Tries - 1) : FatRounds(sectors, spc)[n] = fat
        /\ FatNeeded(ClustersBehind(sectors, spc, fat)) = fat}

FatLength(sectors, spc) == CHOOSE fat \in Settled(sectors, spc) : TRUE

(* The geometry that format writes, for a device of so many sectors.       *)
FormatGeometry(total) ==
    LET sectors == total - 1
        spc == ClusterSectors(sectors)
        fat == FatLength(sectors, spc)
    IN  [first |-> 1, count |-> sectors, spc |-> spc, fatOffset |-> BootSectors,
         fatLength |-> fat, fats |-> 1, active |-> 0, heap |-> BootSectors + fat,
         clusters |-> ClustersBehind(sectors, spc, fat), root |-> 2]

(* The boot sector it writes.                                              *)
BootSector(g) ==
    [kind |-> "boot", sectorBytes |-> SectorBytes, spc |-> g.spc, volumeLength |-> g.count,
     fatOffset |-> BootSectors, fatLength |-> g.fatLength, heap |-> g.heap,
     clusters |-> g.clusters, root |-> 2, fats |-> 1, active |-> 0]

ClusterBytes(g) == SectorBytes * g.spc

(* The bitmap comes behind the root, the table behind the bitmap.          *)
BitmapBytes(g) == CeilDiv(g.clusters, BitsPerByte)
BitmapClusters(g) == CeilDiv(BitmapBytes(g), ClusterBytes(g))
UpcaseClusters(g) == CeilDiv(UpcaseBytes, ClusterBytes(g))
BitmapCluster == 3
UpcaseCluster(g) == BitmapCluster + BitmapClusters(g)

Formattable(total) ==
    LET sectors == total - 1
        spc == ClusterSectors(sectors)
        g == FormatGeometry(total)
    IN  /\ total > BootSectors + MinimumSectors /\ sectors <= MaxSectors
        /\ Settled(sectors, spc) # {}
        /\ UpcaseCluster(g) + UpcaseClusters(g) <= g.clusters + 2

-----------------------------------------------------------------------------
(* core/geometry.rs                                                        *)

HeapClusters(g) == 2..(g.clusters + 1)
ClusterLba(g, c) == g.first + g.heap + (c - 2) * g.spc

(* Seeded fault: the first FAT, whichever is active. *)
FatLbaFirst(g, c) == g.first + g.fatOffset + (c * EntryBytes) \div SectorBytes

FatLba(g, c) ==
    g.first + g.fatOffset + g.active * g.fatLength + (c * EntryBytes) \div SectorBytes

BitPosition(c) == [byte |-> (c - 2) \div BitsPerByte, bit |-> (c - 2) % BitsPerByte]

-----------------------------------------------------------------------------
(* parse_boot: what mount asks of a boot sector before it believes it.     *)

GeometryIn(partition, boot) ==
    [first |-> partition.first, count |-> partition.count, spc |-> boot.spc,
     fatOffset |-> boot.fatOffset, fatLength |-> boot.fatLength, fats |-> boot.fats,
     active |-> IF boot.fats = 2 THEN boot.active % 2 ELSE 0,
     heap |-> boot.heap, clusters |-> boot.clusters, root |-> boot.root]

BootAccepted(partition, boot) ==
    /\ boot.fats \in {1, 2}
    /\ boot.fatOffset # 0 /\ boot.fatLength # 0 /\ boot.clusters # 0
    /\ boot.root \in 2..(boot.clusters + 1)
    /\ boot.fatOffset >= BootSectors
    /\ boot.fatLength >= FatNeeded(boot.clusters)
    /\ boot.fatOffset + boot.fatLength * boot.fats <= boot.heap
    /\ boot.volumeLength # 0
    /\ boot.heap + boot.clusters * boot.spc <= boot.volumeLength
    /\ boot.volumeLength <= partition.count
=============================================================================
