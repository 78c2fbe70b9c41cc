----------------------------- MODULE Geometry_proofs -----------------------------
(***************************************************************************)
(* For every device and every size of sector, region and entry: what       *)
(* format writes is accepted by mount, and in a geometry that mount has    *)
(* accepted clusters, FAT entries and bits have places of their own.       *)
(***************************************************************************)
EXTENDS Geometry, Integers, TLAPS

(* The fields of a boot sector, and a partition, as mount reads them.      *)
BootFields ==
    [kind : {"boot"}, sectorBytes : Nat, spc : Nat \ {0}, volumeLength : Nat, fatOffset : Nat,
     fatLength : Nat, heap : Nat, clusters : Nat, root : Nat, fats : Nat, active : Nat]
Partitions == [first : Nat, count : Nat]

-----------------------------------------------------------------------------
(* Arithmetic.                                                             *)

(* A quotient and a remainder make up the number.                          *)
LEMMA Division ==
    ASSUME NEW a \in Nat, NEW b \in Nat \ {0}
    PROVE  /\ a \div b \in Nat /\ a % b \in 0..(b - 1)
           /\ a = b * (a \div b) + (a % b)
           /\ (a \div b) * b <= a
OBVIOUS

(* div_ceil is no less than the quotient, and enough.                      *)
LEMMA CeilDivEnough ==
    ASSUME NEW a \in Nat, NEW b \in Nat \ {0}
    PROVE  CeilDiv(a, b) \in Nat /\ a <= CeilDiv(a, b) * b
<1>1. a + b - 1 \in Nat
  OBVIOUS
<1>2. /\ (a + b - 1) \div b \in Nat
      /\ a + b - 1 = b * ((a + b - 1) \div b) + ((a + b - 1) % b)
      /\ (a + b - 1) % b \in 0..(b - 1)
  BY <1>1, Division
<1>3. a + b - 1 <= b * ((a + b - 1) \div b) + (b - 1)
  BY <1>2
<1>. QED
  BY <1>2, <1>3 DEF CeilDiv

(* A product grows with its factor.                                        *)
LEMMA ProductGrows ==
    ASSUME NEW m \in Nat, NEW n \in Nat, NEW s \in Nat, m < n
    PROVE  m * s + s <= n * s
OBVIOUS

(* Quotients of a number that is less than a multiple are less than the    *)
(* factor.                                                                 *)
LEMMA QuotientBelow ==
    ASSUME NEW a \in Nat, NEW b \in Nat \ {0}, NEW n \in Nat, a < n * b
    PROVE  a \div b < n
<1>1. (a \div b) * b <= a /\ a \div b \in Nat
  BY Division
<1>2. SUFFICES ASSUME n <= a \div b PROVE FALSE
  BY <1>1
<1>3. n * b <= (a \div b) * b
  BY <1>1, <1>2
<1>. QED
  BY <1>1, <1>3

-----------------------------------------------------------------------------
(* A geometry that mount accepted.                                         *)

(* The fields of the geometry, and what parse_boot asked of them.          *)
LEMMA AcceptedGeometry ==
    ASSUME NEW p \in Partitions, NEW boot \in BootFields, BootAccepted(p, boot)
    PROVE  LET g == GeometryIn(p, boot)
           IN  /\ g.first = p.first /\ g.count = p.count /\ g.first \in Nat /\ g.count \in Nat
               /\ g.spc \in Nat \ {0} /\ g.clusters \in Nat \ {0}
               /\ g.fatOffset \in Nat /\ BootSectors <= g.fatOffset
               /\ g.fatLength \in Nat \ {0} /\ FatNeeded(g.clusters) <= g.fatLength
               /\ g.fats \in {1, 2} /\ g.active \in 0..(g.fats - 1)
               /\ g.heap \in Nat /\ g.fatOffset + g.fatLength * g.fats <= g.heap
               /\ g.heap + g.clusters * g.spc <= g.count
               /\ g.root \in HeapClusters(g)
<1>1. boot.active % 2 \in 0..1
  BY DEF BootFields
<1>2. boot.heap + boot.clusters * boot.spc <= p.count
  BY DEF BootFields, Partitions, BootAccepted
<1>. QED
  BY <1>1, <1>2 DEF BootFields, Partitions, BootAccepted, GeometryIn, HeapClusters

(* Every sector of every cluster lies in the partition, behind the FATs.   *)
THEOREM ClustersInside ==
    ASSUME NEW p \in Partitions, NEW boot \in BootFields, BootAccepted(p, boot)
    PROVE  LET g == GeometryIn(p, boot)
           IN  \A c \in HeapClusters(g), i \in 0..(g.spc - 1) :
                   /\ g.first + g.fatOffset + g.fatLength * g.fats <= ClusterLba(g, c) + i
                   /\ ClusterLba(g, c) + i < p.first + p.count
<1>. DEFINE g == GeometryIn(p, boot)
<1>1. /\ g.first = p.first /\ g.count = p.count /\ g.first \in Nat /\ g.count \in Nat
      /\ g.spc \in Nat \ {0} /\ g.clusters \in Nat /\ g.heap \in Nat
      /\ g.fatOffset \in Nat /\ g.fatLength \in Nat /\ g.fats \in {1, 2}
      /\ g.fatOffset + g.fatLength * g.fats <= g.heap
      /\ g.heap + g.clusters * g.spc <= g.count
  BY AcceptedGeometry
<1>. HIDE DEF g
<1>2. ASSUME NEW c \in HeapClusters(g), NEW i \in 0..(g.spc - 1)
      PROVE  /\ g.first + g.fatOffset + g.fatLength * g.fats <= ClusterLba(g, c) + i
             /\ ClusterLba(g, c) + i < p.first + p.count
  <2>1. c - 2 \in Nat /\ c - 2 < g.clusters
    BY <1>1, <1>2 DEF HeapClusters
  <2>2. (c - 2) * g.spc \in Nat /\ (c - 2) * g.spc + g.spc <= g.clusters * g.spc
    BY <1>1, <2>1, ProductGrows
  <2>3. g.clusters * g.spc \in Nat /\ g.fatLength * g.fats \in Nat
    BY <1>1
  <2>. QED
    BY <1>1, <1>2, <2>2, <2>3 DEF ClusterLba
<1>. QED
  BY <1>2 DEF g

(* No two clusters share a sector.                                         *)
THEOREM ClustersApart ==
    ASSUME NEW p \in Partitions, NEW boot \in BootFields, BootAccepted(p, boot)
    PROVE  LET g == GeometryIn(p, boot)
           IN  \A c, d \in HeapClusters(g), i, j \in 0..(g.spc - 1) :
                   ClusterLba(g, c) + i = ClusterLba(g, d) + j => c = d /\ i = j
<1>. DEFINE g == GeometryIn(p, boot)
<1>1. g.first \in Nat /\ g.spc \in Nat \ {0} /\ g.clusters \in Nat /\ g.heap \in Nat
  BY AcceptedGeometry
<1>. HIDE DEF g
<1>2. ASSUME NEW c \in HeapClusters(g), NEW d \in HeapClusters(g), c < d,
             NEW i \in 0..(g.spc - 1), NEW j \in 0..(g.spc - 1)
      PROVE  ClusterLba(g, c) + i < ClusterLba(g, d) + j
  <2>1. c - 2 \in Nat /\ d - 2 \in Nat /\ c - 2 < d - 2
    BY <1>1, <1>2 DEF HeapClusters
  <2>2. /\ (c - 2) * g.spc \in Nat /\ (d - 2) * g.spc \in Nat
        /\ (c - 2) * g.spc + g.spc <= (d - 2) * g.spc
    BY <1>1, <2>1, ProductGrows
  <2>. QED
    BY <1>1, <1>2, <2>2 DEF ClusterLba
<1>3. ASSUME NEW c \in HeapClusters(g), NEW d \in HeapClusters(g),
             NEW i \in 0..(g.spc - 1), NEW j \in 0..(g.spc - 1),
             ClusterLba(g, c) + i = ClusterLba(g, d) + j
      PROVE  c = d /\ i = j
  <2>1. c \in Nat /\ d \in Nat
    BY <1>1 DEF HeapClusters
  <2>2. (c - 2) * g.spc \in Int /\ (d - 2) * g.spc \in Int
    BY <1>1, <2>1
  <2>3. ClusterLba(g, c) \in Int /\ ClusterLba(g, d) \in Int
    BY <1>1, <2>2 DEF ClusterLba
  <2>4. ~(c < d) /\ ~(d < c)
    BY <1>2, <1>3, <2>3
  <2>5. c = d
    BY <2>1, <2>4
  <2>. QED
    BY <1>1, <1>3, <2>3, <2>5
<1>. QED
  BY <1>3 DEF g

(* The FAT entry of every cluster lies in the active FAT, behind the boot  *)
(* regions and in front of the clusters.                                   *)
THEOREM FatEntriesInside ==
    ASSUME NEW p \in Partitions, NEW boot \in BootFields, BootAccepted(p, boot)
    PROVE  LET g == GeometryIn(p, boot)
           IN  \A c \in HeapClusters(g) :
                   /\ g.first + BootSectors + g.active * g.fatLength <= FatLba(g, c)
                   /\ FatLba(g, c) < g.first + g.fatOffset + (g.active + 1) * g.fatLength
                   /\ FatLba(g, c) < g.first + g.heap
<1>. DEFINE g == GeometryIn(p, boot)
<1>1. /\ g.first \in Nat /\ g.clusters \in Nat /\ g.heap \in Nat
      /\ g.fatOffset \in Nat /\ BootSectors <= g.fatOffset
      /\ g.fatLength \in Nat /\ FatNeeded(g.clusters) <= g.fatLength
      /\ g.fats \in {1, 2} /\ g.active \in 0..(g.fats - 1)
      /\ g.fatOffset + g.fatLength * g.fats <= g.heap
  BY AcceptedGeometry
<1>2. EntryBytes \in Nat \ {0} /\ SectorBytes \in Nat \ {0} /\ BootSectors \in Nat
  BY GeometryAssumption DEF BootSectors
<1>. HIDE DEF g
<1>3. ASSUME NEW c \in HeapClusters(g)
      PROVE  /\ g.first + BootSectors + g.active * g.fatLength <= FatLba(g, c)
             /\ FatLba(g, c) < g.first + g.fatOffset + (g.active + 1) * g.fatLength
             /\ FatLba(g, c) < g.first + g.heap
  <2>1. c \in Nat /\ c < g.clusters + 2
    BY <1>1 DEF HeapClusters
  <2>2. /\ c * EntryBytes \in Nat /\ (g.clusters + 2) * EntryBytes \in Nat
        /\ c * EntryBytes + EntryBytes <= (g.clusters + 2) * EntryBytes
    BY <1>1, <1>2, <2>1, ProductGrows
  <2>3. /\ FatNeeded(g.clusters) \in Nat
        /\ (g.clusters + 2) * EntryBytes <= FatNeeded(g.clusters) * SectorBytes
    BY <1>2, <2>2, CeilDivEnough DEF FatNeeded
  <2>4. c * EntryBytes < FatNeeded(g.clusters) * SectorBytes
    BY <1>2, <2>2, <2>3
  <2>5. /\ (c * EntryBytes) \div SectorBytes \in Nat
        /\ (c * EntryBytes) \div SectorBytes < g.fatLength
    <3>1. (c * EntryBytes) \div SectorBytes \in Nat
      BY <1>2, <2>2, Division
    <3>2. (c * EntryBytes) \div SectorBytes < FatNeeded(g.clusters)
      BY <1>2, <2>2, <2>3, <2>4, QuotientBelow
    <3>. QED
      BY <1>1, <2>3, <3>1, <3>2
  <2>6. /\ g.active * g.fatLength \in Nat
        /\ (g.active + 1) * g.fatLength = g.active * g.fatLength + g.fatLength
        /\ (g.active + 1) * g.fatLength <= g.fatLength * g.fats
    <3>1. CASE g.active = 0
      BY <1>1, <3>1
    <3>2. CASE g.active = 1
      BY <1>1, <3>2
    <3>. QED
      BY <1>1, <3>1, <3>2
  <2>7. g.fatLength * g.fats \in Nat
    BY <1>1
  <2>. QED
    BY <1>1, <1>2, <2>5, <2>6, <2>7 DEF FatLba
<1>. QED
  BY <1>3 DEF g

(* An entry of the FAT does not straddle sectors: its bytes are all in the *)
(* sector that has its first.                                              *)
THEOREM FatEntriesWhole ==
    ASSUME NEW c \in Nat
    PROVE  ((c * EntryBytes) % SectorBytes) + EntryBytes <= SectorBytes
<1>. DEFINE n == SectorBytes \div EntryBytes
            q == (c * EntryBytes) \div SectorBytes
            r == (c * EntryBytes) % SectorBytes
<1>1. EntryBytes \in Nat \ {0} /\ SectorBytes \in Nat \ {0} /\ SectorBytes % EntryBytes = 0
  BY GeometryAssumption
<1>2. n \in Nat /\ SectorBytes = EntryBytes * n
  BY <1>1, Division
<1>3. c * EntryBytes \in Nat
  BY <1>1
<1>4. q \in Nat /\ r \in 0..(SectorBytes - 1) /\ c * EntryBytes = SectorBytes * q + r
  BY <1>1, <1>3, Division
<1>. DEFINE k == c - n * q
<1>5. k \in Int /\ r = k * EntryBytes
  <2>. HIDE DEF n, q, r
  <2>1. n * q \in Nat
    BY <1>2, <1>4
  <2>2. SectorBytes * q = (n * q) * EntryBytes
    BY <1>1, <1>2, <1>4
  <2>3. (c - n * q) * EntryBytes = c * EntryBytes - (n * q) * EntryBytes
    BY <1>1, <2>1
  <2>4. (n * q) * EntryBytes \in Nat
    BY <1>1, <2>1
  <2>5. r = c * EntryBytes - (n * q) * EntryBytes
    BY <1>3, <1>4, <2>2, <2>4
  <2>. QED
    BY <2>1, <2>3, <2>5
<1>. HIDE DEF n, q, r, k
<1>6. k < n
  <2>1. SUFFICES ASSUME n <= k PROVE FALSE
    BY <1>2, <1>5
  <2>2. n * EntryBytes <= k * EntryBytes
    BY <1>1, <1>2, <1>5, <2>1
  <2>. QED
    BY <1>1, <1>2, <1>4, <1>5, <2>2
<1>7. 0 <= k
  <2>1. SUFFICES ASSUME k < 0 PROVE FALSE
    BY <1>5
  <2>2. k * EntryBytes < 0
    BY <1>1, <1>5, <2>1
  <2>. QED
    BY <1>4, <1>5, <2>2
<1>8. k * EntryBytes + EntryBytes <= n * EntryBytes
  BY <1>1, <1>2, <1>5, <1>6, <1>7, ProductGrows
<1>9. r + EntryBytes <= SectorBytes
  BY <1>1, <1>2, <1>5, <1>8
<1>. QED
  BY <1>9 DEF r

(* No two clusters share a bit of the bitmap.                              *)
THEOREM BitsApart ==
    ASSUME NEW c \in Nat, NEW d \in Nat, 2 <= c, 2 <= d, BitPosition(c) = BitPosition(d)
    PROVE  c = d
<1>1. BitsPerByte \in Nat \ {0} /\ c - 2 \in Nat /\ d - 2 \in Nat
  BY GeometryAssumption
<1>2. /\ (c - 2) \div BitsPerByte = (d - 2) \div BitsPerByte
      /\ (c - 2) % BitsPerByte = (d - 2) % BitsPerByte
  BY DEF BitPosition
<1>3. /\ c - 2 = BitsPerByte * ((c - 2) \div BitsPerByte) + ((c - 2) % BitsPerByte)
      /\ d - 2 = BitsPerByte * ((d - 2) \div BitsPerByte) + ((d - 2) % BitsPerByte)
  BY <1>1, Division
<1>4. c - 2 = d - 2
  BY <1>2, <1>3
<1>. QED
  BY <1>4

-----------------------------------------------------------------------------
(* format.                                                                 *)

(* The layout that the rounds settle on: a FAT that is as long as the      *)
(* clusters behind it need, with room behind it.                           *)
LEMMA SettledLayout ==
    ASSUME NEW sectors \in Nat, NEW spc, Settled(sectors, spc) # {}
    PROVE  LET fat == FatLength(sectors, spc)
           IN  /\ fat \in Nat \ {0} /\ BootSectors + fat <= sectors
               /\ fat = FatNeeded(ClustersBehind(sectors, spc, fat))
<1>1. BootSectors \in Nat
  BY GeometryAssumption DEF BootSectors
<1>2. FatLength(sectors, spc) \in Settled(sectors, spc)
  BY DEF FatLength
<1>. QED
  BY <1>1, <1>2 DEF Settled

(* The sizes of the clusters that format makes.                            *)
LEMMA ClusterSizes ==
    ASSUME NEW sectors \in Nat
    PROVE  /\ ClusterSectors(sectors) \in Nat \ {0}
           /\ ClusterSectors(sectors) * SectorBytes <= MaxClusterBytes
BY GeometryAssumption DEF ClusterSectors

(* The geometry that format writes on a device that it does not refuse.    *)
LEMMA FormattedGeometry ==
    ASSUME NEW total \in Nat, Formattable(total)
    PROVE  LET g == FormatGeometry(total)
           IN  /\ g.first = 1 /\ g.count = total - 1 /\ g.count \in Nat
               /\ g.spc \in Nat \ {0} /\ g.spc * SectorBytes <= MaxClusterBytes
               /\ g.fatLength \in Nat \ {0} /\ g.heap = BootSectors + g.fatLength
               /\ g.fatLength = FatNeeded(g.clusters)
               /\ g.clusters \in Nat \ {0}
               /\ g.heap + g.clusters * g.spc <= g.count
<1>. DEFINE sectors == total - 1
            spc == ClusterSectors(sectors)
            fat == FatLength(sectors, spc)
            clusters == ClustersBehind(sectors, spc, fat)
            g == FormatGeometry(total)
<1>1. BootSectors \in Nat /\ SectorBytes \in Nat \ {0} /\ BitsPerByte \in Nat \ {0} /\ UpcaseBytes \in Nat
  BY GeometryAssumption DEF BootSectors
<1>2. sectors \in Nat /\ Settled(sectors, spc) # {}
  <2>1. total > BootSectors + MinimumSectors /\ MinimumSectors \in Nat
    BY GeometryAssumption DEF Formattable
  <2>. QED
    BY <1>1, <2>1 DEF Formattable
<1>3. spc \in Nat \ {0} /\ spc * SectorBytes <= MaxClusterBytes
  BY <1>2, ClusterSizes
<1>4. fat \in Nat \ {0} /\ BootSectors + fat <= sectors /\ fat = FatNeeded(clusters)
  BY <1>2, SettledLayout
<1>. HIDE DEF sectors, spc, fat
<1>5. clusters \in Nat /\ clusters * spc <= sectors - (BootSectors + fat)
  <2>1. sectors - (BootSectors + fat) \in Nat
    BY <1>1, <1>2, <1>4
  <2>. QED
    BY <1>3, <2>1, Division DEF ClustersBehind
<1>. HIDE DEF clusters
<1>6. g = [first |-> 1, count |-> sectors, spc |-> spc, fatOffset |-> BootSectors,
           fatLength |-> fat, fats |-> 1, active |-> 0, heap |-> BootSectors + fat,
           clusters |-> clusters, root |-> 2]
  BY DEF FormatGeometry, sectors, spc, fat, clusters
<1>. HIDE DEF g
<1>7. UpcaseCluster(g) + UpcaseClusters(g) <= clusters + 2
  <2>1. UpcaseCluster(g) + UpcaseClusters(g) <= g.clusters + 2
    BY DEF Formattable, g
  <2>. QED
    BY <1>6, <2>1
<1>8. clusters # 0
  <2>1. ClusterBytes(g) \in Nat \ {0}
    BY <1>1, <1>3, <1>6 DEF ClusterBytes
  <2>2. BitmapBytes(g) \in Nat
    BY <1>1, <1>5, <1>6, CeilDivEnough DEF BitmapBytes
  <2>3. BitmapClusters(g) \in Nat /\ UpcaseClusters(g) \in Nat
    BY <1>1, <2>1, <2>2, CeilDivEnough DEF BitmapClusters, UpcaseClusters
  <2>. QED
    BY <1>5, <1>7, <2>3 DEF UpcaseCluster, BitmapCluster
<1>9. (BootSectors + fat) + clusters * spc <= sectors
  BY <1>1, <1>2, <1>3, <1>4, <1>5
<1>10. g.first = 1 /\ g.count = sectors /\ g.spc = spc /\ g.fatLength = fat
       /\ g.heap = BootSectors + fat /\ g.clusters = clusters
  BY <1>6
<1>. QED
  BY <1>2, <1>3, <1>4, <1>5, <1>8, <1>9, <1>10 DEF sectors, g

(* Mount accepts the boot sector that format writes, for every device that *)
(* format does not refuse, and reads the same geometry from it.            *)
THEOREM FormatAccepted ==
    ASSUME NEW total \in Nat, Formattable(total)
    PROVE  LET g == FormatGeometry(total)
               p == [first |-> 1, count |-> total - 1]
           IN  /\ p \in Partitions /\ BootSector(g) \in BootFields
               /\ BootSector(g).spc * SectorBytes <= MaxClusterBytes
               /\ BootAccepted(p, BootSector(g))
               /\ GeometryIn(p, BootSector(g)) = g
<1>. DEFINE g == FormatGeometry(total)
            p == [first |-> 1, count |-> total - 1]
            b == BootSector(g)
<1>1. /\ g.count = total - 1 /\ g.count \in Nat
      /\ g.spc \in Nat \ {0} /\ g.spc * SectorBytes <= MaxClusterBytes
      /\ g.fatLength \in Nat \ {0} /\ g.heap = BootSectors + g.fatLength
      /\ g.fatLength = FatNeeded(g.clusters) /\ g.clusters \in Nat \ {0}
      /\ g.heap + g.clusters * g.spc <= g.count
  BY FormattedGeometry
<1>2. BootSectors \in Nat \ {0} /\ SectorBytes \in Nat
  BY GeometryAssumption DEF BootSectors
<1>3. p \in Partitions
  BY <1>1 DEF Partitions
<1>4. b \in BootFields
  BY <1>1, <1>2 DEF BootSector, BootFields
<1>5. /\ b.spc = g.spc /\ b.volumeLength = g.count /\ b.fatOffset = BootSectors
      /\ b.fatLength = g.fatLength /\ b.heap = g.heap /\ b.clusters = g.clusters
      /\ b.root = 2 /\ b.fats = 1 /\ b.active = 0
  BY DEF BootSector
<1>6. BootAccepted(p, b)
  <2>1. g.clusters * g.spc \in Nat /\ g.clusters * g.spc # 0
    BY <1>1
  <2>2. g.count # 0
    BY <1>1, <1>2, <2>1
  <2>. QED
    BY <1>1, <1>2, <1>5, <2>2 DEF BootAccepted
<1>7. GeometryIn(p, b) = g
  BY <1>5 DEF GeometryIn, FormatGeometry
<1>. QED
  BY <1>1, <1>3, <1>4, <1>5, <1>6, <1>7
=============================================================================
