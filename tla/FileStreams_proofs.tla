--------------------------- MODULE FileStreams_proofs ---------------------------
(***************************************************************************)
(* What holds of FileStreams for every heap, cluster size, set of files    *)
(* and set of faults: the type invariant and the exact free-cluster count; *)
(* which operation is at which step, that handles agree with sealed        *)
(* records, and that lengths fit; and that no cluster has two owners, in   *)
(* spite of device errors, dropped futures and power cuts, as long as      *)
(* nobody truncates.                                                       *)
(***************************************************************************)
EXTENDS FileStreams, FiniteSetTheorems, Induction, TLAPS

-----------------------------------------------------------------------------
(* The constants, and division by the cluster size.                        *)

(* The constants as the proofs use them.                                   *)
LEMMA Parameters ==
    /\ ClusterCount \in Nat \ {0}
    /\ ClusterBytes \in Nat \ {0}
    /\ None \notin Files
    /\ None \notin Nat
    /\ Clusters \subseteq Nat \ {0, 1}
    /\ \A f \in Files : Payload[f] \subseteq Values
  BY ConstantsAssumption DEF Clusters

(* The cluster index, the offset in a cluster and the cluster count of a   *)
(* length are naturals.                                                    *)
LEMMA DivisionType ==
    \A n \in Nat : /\ n \div ClusterBytes \in Nat
                   /\ n % ClusterBytes \in 0..(ClusterBytes - 1)
                   /\ CeilDiv(n, ClusterBytes) \in Nat
  BY Parameters DEF CeilDiv

-----------------------------------------------------------------------------
(* Records: a handle edited as the operations edit it stays a handle.      *)

(* An empty file is a stream.                                              *)
LEMMA NoStreamType == NoStream \in Stream
  BY DEF NoStream, Stream

(* open makes a handle from what the record says.                          *)
LEMMA OpenOnType == \A s \in Stream : OpenOn(s) \in HandleType
  BY Zenon DEF Stream, OpenOn, HandleType

(* A closed handle is one too.                                             *)
LEMMA ClosedType == Closed \in HandleType
  BY NoStreamType, OpenOnType, Zenon DEF Closed, HandleType

(* What a handle writes back is a stream.                                  *)
LEMMA StreamOfType == \A h \in HandleType : StreamOf(h) \in Stream
  BY Zenon DEF Stream, StreamOf, HandleType

(* Dropping the cached cluster leaves a handle.                            *)
LEMMA UncachedType == \A h \in HandleType : Uncached(h) \in HandleType
  BY Zenon DEF Uncached, HandleType

(* So does shortening it to a length (truncate).                           *)
LEMMA ClipType == \A h \in HandleType, len \in Nat : Clip(h, len) \in HandleType
  BY Zenon DEF Clip, HandleType

(* So does the growth of a file by a cluster (append).                     *)
LEMMA AddClusterType == \A h \in HandleType : AddCluster(h) \in HandleType
  <1> SUFFICES ASSUME NEW h \in HandleType PROVE AddCluster(h) \in HandleType
    OBVIOUS
  <1>1. h.data + ClusterBytes \in Nat
    BY Parameters DEF HandleType
  <1> QED
    BY <1>1, Zenon DEF AddCluster, HandleType

(* The handle an operation works on is that of a file.                     *)
LEMMA MineType ==
    ASSUME TypeOK, ~At("idle")
    PROVE  op.file \in Files /\ mine \in HandleType
  BY DEF TypeOK, MemoryTypeOK, OpTypeOK, OpType, mine, At

(* Storing a handle back keeps every handle one.                           *)
LEMMA SetMineType ==
    ASSUME TypeOK, ~At("idle"), NEW h \in HandleType, SetMine(h)
    PROVE  handle' \in [Files -> HandleType]
  BY MineType DEF TypeOK, MemoryTypeOK, SetMine

(* The end of an operation, and its moves to program points that ask       *)
(* nothing of its cursors.                                                 *)
LEMMA IdleType == Idle \in OpType /\ Idle.pc = "idle" /\ Idle.file = None
  <1>1. Idle.pc = "idle" /\ Idle.file = None
    BY DEF Idle
  <1>2. 0 \in Nat
    OBVIOUS
  <1> QED
    BY <1>1, <1>2, ClosedType, Zenon DEF Idle, OpType, PcLabels, Kinds

(* The end of an operation leaves no cursor behind.                        *)
LEMMA BecomesIdle == ASSUME op' = Idle PROVE OpTypeOK'
  BY IdleType DEF OpTypeOK

PlainLabels == {"grow", "claim", "seek", "transfer", "stream", "seal", "cut", "free"}

(* A move to a program point without cursors of its own.                   *)
LEMMA MovesOn ==
    ASSUME TypeOK, ~At("idle"), op' \in OpType, op'.file = op.file, op'.pc \in PlainLabels
    PROVE  OpTypeOK'
  BY Parameters, MineType DEF OpTypeOK, PlainLabels

(* An error return; append restores the handle as it found it.             *)
LEMMA FailType == ASSUME TypeOK, ~At("idle"), Fail PROVE TypeOK'
  <1>1. op.saved \in HandleType
    BY DEF TypeOK, OpTypeOK, OpType
  <1>2. handle' \in [Files -> HandleType]
    BY <1>1, MineType, ClosedType, SetMineType DEF Fail
  <1> QED
    BY <1>2, BecomesIdle DEF Fail, TypeOK, VolumeTypeOK, MemoryTypeOK, device

(* A power cut and mount forget the memory and keep the device.            *)
LEMMA RestartType == ASSUME TypeOK, Restart PROVE TypeOK'
  BY BecomesIdle, ClosedType DEF Restart, TypeOK, VolumeTypeOK, MemoryTypeOK, device

(* What every step of the operation in progress may rely on.               *)
LEMMA InProgress ==
    ASSUME TypeOK, ~At("idle")
    PROVE  /\ op \in OpType
           /\ op.file \in Files
           /\ mine \in HandleType
           /\ op.idx + 1 \in Nat
           /\ mine.first \in Nat
  <1>1. op \in OpType
    BY DEF TypeOK, OpTypeOK
  <1>2. op.idx + 1 \in Nat
    BY <1>1 DEF OpType
  <1>3. mine.first \in {0} \cup Clusters
    BY MineType DEF HandleType
  <1>4. mine.first \in Nat
    BY <1>3 DEF Clusters
  <1> QED
    BY <1>1, <1>2, <1>4, MineType

(* An operation that changes nothing but its own locals.                   *)
LEMMA LocalStep ==
    ASSUME TypeOK, UNCHANGED <<device, freeClusters, handle>>, OpTypeOK'
    PROVE  TypeOK'
  BY DEF TypeOK, VolumeTypeOK, MemoryTypeOK, device

(* The next program point, with the locals as they are.                    *)
LEMMA GotoType ==
    ASSUME TypeOK, ~At("idle"), NEW pc \in PlainLabels, Goto(pc)
    PROVE  OpTypeOK'
  <1>1. op' \in OpType
    BY InProgress DEF Goto, PlainLabels, PcLabels, OpType
  <1>2. op'.file = op.file /\ op'.pc = pc
    BY InProgress DEF Goto, OpType
  <1> QED
    BY <1>1, <1>2, MovesOn

-----------------------------------------------------------------------------
(* The growth loop of append.                                              *)

(* append to an empty file goes to claim its first cluster.                *)
LEMMA GrowEmptyType == ASSUME TypeOK, GrowEmpty PROVE TypeOK'
  <1>1. ~At("idle")
    BY DEF GrowEmpty, Growing, At
  <1> QED
    BY <1>1, GotoType, LocalStep DEF GrowEmpty, PlainLabels

(* A contiguous file's tail is computed from its length.                   *)
LEMMA GrowContiguousType == ASSUME TypeOK, GrowContiguous PROVE TypeOK'
  <1>1. ~At("idle")
    BY DEF GrowContiguous, Growing, At
  <1>2. mine.first + mine.data \div ClusterBytes - 1 \in Nat
    BY <1>1, InProgress, DivisionType DEF GrowContiguous, HandleType
  <1>3. op' \in OpType
    BY <1>1, <1>2, InProgress, Zenon DEF GrowContiguous, OpType, PcLabels
  <1>4. op'.file = op.file /\ op'.pc = "claim"
    BY <1>1, InProgress DEF GrowContiguous, OpType
  <1>5. OpTypeOK'
    BY <1>1, <1>3, <1>4, MovesOn DEF PlainLabels
  <1> QED
    BY <1>5, LocalStep DEF GrowContiguous

(* A FAT chain's tail is looked for from its first cluster.                *)
LEMMA GrowChainedType == ASSUME TypeOK, GrowChained PROVE TypeOK'
  <1>1. ~At("idle")
    BY DEF GrowChained, Growing, At
  <1>2. op' \in OpType
    BY <1>1, InProgress, Zenon DEF GrowChained, OpType, PcLabels
  <1>3. op'.file = op.file /\ op'.pc = "tail" /\ op'.cl = mine.first
    BY <1>1, InProgress DEF GrowChained, OpType
  <1>4. mine.first \in {0} \cup Clusters
    BY <1>1, InProgress DEF HandleType
  <1>5. OpTypeOK'
    BY <1>1, <1>2, <1>3, <1>4, InProgress, Parameters DEF OpTypeOK
  <1> QED
    BY <1>5, LocalStep DEF GrowChained

(* The walk to the tail follows one FAT entry.                             *)
LEMMA FollowTailType == ASSUME TypeOK, FollowTail PROVE TypeOK'
  <1>1. ~At("idle") /\ op.pc = "tail"
    BY DEF FollowTail, At
  <1>2. fat[op.cl] \in Nat
    BY Parameters DEF FollowTail
  <1>3. op' \in OpType
    BY <1>1, <1>2, InProgress, Zenon DEF FollowTail, OpType
  <1>4. op'.file = op.file /\ op'.pc = "tail" /\ op'.cl = fat[op.cl]
    BY <1>1, InProgress DEF FollowTail, OpType
  <1>5. OpTypeOK'
    BY <1>1, <1>3, <1>4, InProgress, Parameters DEF OpTypeOK, FollowTail
  <1> QED
    BY <1>5, LocalStep DEF FollowTail

(* The walk ends at the last cluster of the chain.                         *)
LEMMA FoundTailType == ASSUME TypeOK, FoundTail PROVE TypeOK'
  <1>1. ~At("idle")
    BY DEF FoundTail, At
  <1>2. op.cl \in Nat /\ 0 \in Nat
    BY <1>1, InProgress DEF OpType
  <1>3. op' \in OpType
    BY <1>1, <1>2, InProgress, Zenon DEF FoundTail, OpType, PcLabels
  <1>4. op'.file = op.file /\ op'.pc = "claim"
    BY <1>1, InProgress DEF FoundTail, OpType
  <1>5. OpTypeOK'
    BY <1>1, <1>3, <1>4, MovesOn DEF PlainLabels
  <1> QED
    BY <1>5, LocalStep DEF FoundTail

-----------------------------------------------------------------------------
(* Allocation: the bitmap, the free count and the FAT.                     *)

(* set_bitmap keeps the bitmap in the heap and the count a count.          *)
LEMMA SetBitmapType ==
    ASSUME TypeOK, NEW c \in Clusters, NEW inUse \in BOOLEAN,
           SetBitmap(c, inUse), ~FreeCountRefuses(c, inUse)
    PROVE  /\ used' \subseteq Clusters
           /\ freeClusters' \in 0..ClusterCount \cup {None}
  <1>1. used' \subseteq Clusters
    BY DEF TypeOK, VolumeTypeOK, SetBitmap
  <1>2. freeClusters' \in 0..ClusterCount \cup {None}
    BY Parameters DEF TypeOK, MemoryTypeOK, SetBitmap, FreeCountRefuses
  <1> QED
    BY <1>1, <1>2

(* write_fat keeps every FAT entry a number.                               *)
LEMMA SetFatType ==
    ASSUME TypeOK, NEW c, NEW value \in Nat, SetFat(c, value)
    PROVE  fat' \in [FatSlots -> Nat]
  BY DEF TypeOK, VolumeTypeOK, SetFat

(* allocate_cluster finds a free cluster of the heap and zeroes it.        *)
LEMMA ClaimType == ASSUME TypeOK, Claim PROVE TypeOK'
  <1>1. ~At("idle")
    BY DEF Claim, At
  <1>2. PICK c \in FreeBits :
            /\ data' = [data EXCEPT ![c] = [b \in DOMAIN @ |-> Zero]]
            /\ op' = [op EXCEPT !.pc = "mark", !.new = c]
    BY DEF Claim
  <1>3. c \in Clusters
    BY DEF FreeBits
  <1>4. op' \in OpType
    BY <1>1, <1>2, <1>3, InProgress, Zenon DEF OpType, PcLabels
  <1>5. op'.file = op.file /\ op'.pc = "mark" /\ op'.new = c
    BY <1>1, <1>2, InProgress DEF OpType
  <1>6. OpTypeOK'
    BY <1>3, <1>4, <1>5, <1>1, InProgress, Parameters DEF OpTypeOK
  <1>7. data' \in [Clusters -> [0..(ClusterBytes - 1) -> Values \cup {Zero}]]
    BY <1>2, <1>3 DEF TypeOK, VolumeTypeOK
  <1> QED
    BY <1>6, <1>7 DEF Claim, TypeOK, VolumeTypeOK, MemoryTypeOK

(* The allocation bit of the claimed cluster is set.                       *)
LEMMA MarkUsedType == ASSUME TypeOK, MarkUsed PROVE TypeOK'
  <1>1. ~At("idle") /\ op.new \in Clusters
    BY DEF MarkUsed, At, TypeOK, OpTypeOK
  <1>2. /\ used' \subseteq Clusters
        /\ freeClusters' \in 0..ClusterCount \cup {None}
    BY <1>1, SetBitmapType DEF MarkUsed
  <1>3. op' \in OpType
    BY <1>1, InProgress, Zenon DEF MarkUsed, Goto, OpType, PcLabels
  <1>4. op'.file = op.file /\ op'.pc = "terminate" /\ op'.new = op.new
    BY <1>1, InProgress DEF MarkUsed, Goto, OpType
  <1>5. OpTypeOK'
    BY <1>1, <1>3, <1>4, InProgress, Parameters DEF OpTypeOK
  <1> QED
    BY <1>2, <1>5 DEF MarkUsed, TypeOK, VolumeTypeOK, MemoryTypeOK

(* The claimed cluster's FAT entry ends its chain.                         *)
LEMMA TerminateType ==
    ASSUME TypeOK, Terminate
    PROVE  ~At("idle") /\ op.new \in Clusters /\ fat' \in [FatSlots -> Nat]
  <1>1. EndOfChain \in Nat
    BY Parameters DEF EndOfChain
  <1> QED
    BY <1>1, SetFatType DEF Terminate, At, TypeOK, OpTypeOK

(* The growth loop starts over with the new length.                        *)
LEMMA GrowAgainType ==
    ASSUME TypeOK, ~At("idle"), GrowAgain
    PROVE  OpTypeOK'
  <1>1. 0 \in Nat
    OBVIOUS
  <1>2. op' \in OpType
    BY <1>1, InProgress, Zenon DEF GrowAgain, OpType, PcLabels
  <1>3. op'.file = op.file /\ op'.pc = "grow"
    BY InProgress DEF GrowAgain, OpType
  <1> QED
    BY <1>2, <1>3, MovesOn DEF PlainLabels

(* The first cluster of an empty file.                                     *)
LEMMA TerminateFirstType == ASSUME TypeOK, TerminateFirst PROVE TypeOK'
  <1>1. ~At("idle") /\ op.new \in Clusters /\ fat' \in [FatSlots -> Nat]
    BY TerminateType DEF TerminateFirst
  <1>2. [mine EXCEPT !.first = op.new] \in HandleType
    BY <1>1, InProgress, Zenon DEF HandleType
  <1>3. handle' \in [Files -> HandleType]
    BY <1>1, <1>2, AddClusterType, SetMineType DEF TerminateFirst
  <1> QED
    BY <1>1, <1>3, GrowAgainType DEF TerminateFirst, TypeOK, VolumeTypeOK, MemoryTypeOK

(* A contiguous file grows into the next cluster.                          *)
LEMMA TerminateAdjacentType == ASSUME TypeOK, TerminateAdjacent PROVE TypeOK'
  <1>1. ~At("idle") /\ fat' \in [FatSlots -> Nat]
    BY TerminateType DEF TerminateAdjacent
  <1>2. handle' \in [Files -> HandleType]
    BY <1>1, InProgress, AddClusterType, SetMineType DEF TerminateAdjacent
  <1> QED
    BY <1>1, <1>2, GrowAgainType DEF TerminateAdjacent, TypeOK, VolumeTypeOK, MemoryTypeOK

(* A contiguous file that cannot becomes a chain.                          *)
LEMMA TerminateDetachedType == ASSUME TypeOK, TerminateDetached PROVE TypeOK'
  <1>1. ~At("idle") /\ op.new \in Clusters /\ fat' \in [FatSlots -> Nat]
    BY TerminateType DEF TerminateDetached
  <1> DEFINE pc == IF mine.nofat THEN "materialize" ELSE "link"
  <1>2. op' \in OpType
    BY <1>1, InProgress, Zenon DEF TerminateDetached, Goto, OpType, PcLabels
  <1>3. op'.file = op.file /\ op'.new = op.new /\ op'.pc = pc
    BY <1>1, InProgress DEF TerminateDetached, Goto, OpType
  <1>4. OpTypeOK'
    BY <1>1, <1>2, <1>3, InProgress, Parameters DEF OpTypeOK
  <1> QED
    BY <1>1, <1>4 DEF TerminateDetached, TypeOK, VolumeTypeOK, MemoryTypeOK

(* The FAT entries of a contiguous file are written one by one.            *)
LEMMA MaterializeType == ASSUME TypeOK, Materialize PROVE TypeOK'
  <1>1. ~At("idle") /\ op.pc = "materialize" /\ op.new \in Clusters
    BY DEF Materialize, At, TypeOK, OpTypeOK
  <1>2. op.idx \in Nat /\ op.idx + 1 \in Nat /\ mine.first \in Nat
    BY <1>1, InProgress DEF OpType
  <1>3. mine.first + op.idx + 1 \in Nat
    BY <1>2
  <1>4. fat' \in [FatSlots -> Nat]
    BY <1>3, SetFatType DEF Materialize
  <1>5. op' \in OpType
    BY <1>1, <1>2, InProgress, Zenon DEF Materialize, OpType
  <1>6. op'.file = op.file /\ op'.new = op.new /\ op'.pc = "materialize"
    BY <1>1, InProgress DEF Materialize, OpType
  <1>7. OpTypeOK'
    BY <1>1, <1>5, <1>6, InProgress, Parameters DEF OpTypeOK
  <1> QED
    BY <1>4, <1>7 DEF Materialize, TypeOK, VolumeTypeOK, MemoryTypeOK

(* When all are, the handle is that of a chain.                            *)
LEMMA MaterializedType == ASSUME TypeOK, Materialized PROVE TypeOK'
  <1>1. ~At("idle") /\ op.new \in Clusters
    BY DEF Materialized, At, TypeOK, OpTypeOK
  <1>2. [mine EXCEPT !.nofat = FALSE] \in HandleType
    BY <1>1, InProgress, Zenon DEF HandleType
  <1>3. handle' \in [Files -> HandleType]
    BY <1>1, <1>2, UncachedType, SetMineType DEF Materialized
  <1>4. op' \in OpType
    BY <1>1, InProgress, Zenon DEF Materialized, Goto, OpType, PcLabels
  <1>5. op'.file = op.file /\ op'.new = op.new /\ op'.pc = "link"
    BY <1>1, InProgress DEF Materialized, Goto, OpType
  <1>6. OpTypeOK'
    BY <1>1, <1>4, <1>5, InProgress, Parameters DEF OpTypeOK
  <1> QED
    BY <1>3, <1>6 DEF Materialized, device, TypeOK, VolumeTypeOK, MemoryTypeOK

(* The old tail is linked to the new cluster.                              *)
LEMMA LinkType == ASSUME TypeOK, Link PROVE TypeOK'
  <1>1. ~At("idle") /\ op.new \in Clusters
    BY DEF Link, At, TypeOK, OpTypeOK
  <1>2. fat' \in [FatSlots -> Nat]
    BY <1>1, Parameters, SetFatType DEF Link
  <1>3. handle' \in [Files -> HandleType]
    BY <1>1, InProgress, AddClusterType, SetMineType DEF Link
  <1> QED
    BY <1>1, <1>2, <1>3, GrowAgainType DEF Link, TypeOK, VolumeTypeOK, MemoryTypeOK

(* The growth loop ends and the transfer of the bytes begins.              *)
LEMMA GrownType == ASSUME TypeOK, Grown PROVE TypeOK'
  <1>1. ~At("idle")
    BY DEF Grown, At
  <1>2. op.saved \in HandleType /\ op.n \in Nat
    BY <1>1, InProgress DEF OpType
  <1>3. NewEnd \in Nat /\ mine.valid \in Nat
    BY <1>1, <1>2, InProgress DEF NewEnd, HandleType
  <1>4. [mine EXCEPT !.pos = mine.valid, !.valid = NewEnd] \in HandleType
    BY <1>1, <1>3, InProgress, Zenon DEF HandleType
  <1>5. handle' \in [Files -> HandleType]
    BY <1>1, <1>4, SetMineType DEF Grown
  <1>6. op' \in OpType
    BY <1>1, <1>2, InProgress, Zenon DEF Grown, OpType, PcLabels
  <1>7. op'.file = op.file /\ op'.pc = "seek"
    BY <1>1, InProgress DEF Grown, OpType
  <1>8. OpTypeOK'
    BY <1>1, <1>6, <1>7, MovesOn DEF PlainLabels
  <1> QED
    BY <1>5, <1>8 DEF Grown, device, TypeOK, VolumeTypeOK, MemoryTypeOK

-----------------------------------------------------------------------------
(* Reads and writes.                                                       *)

(* The chunk of a transfer stays in one cluster and in the request.        *)
LEMMA WantedType ==
    ASSUME TypeOK, ~At("idle")
    PROVE  /\ Wanted \in Nat
           /\ Within \in 0..(ClusterBytes - 1)
           /\ Chunk \in Nat
           /\ Chunk <= op.rem
           /\ WalkFrom \in {0} \cup Clusters
  <1>1. mine.pos \in Nat /\ op.rem \in Nat
    BY InProgress DEF HandleType, OpType
  <1>2. Wanted \in Nat /\ Within \in 0..(ClusterBytes - 1)
    BY <1>1, DivisionType DEF Wanted, Within
  <1>3. Chunk \in Nat /\ Chunk <= op.rem
    BY <1>1, <1>2, Parameters DEF Chunk
  <1>4. WalkFrom \in {0} \cup Clusters
    BY InProgress DEF WalkFrom, HandleType
  <1> QED
    BY <1>2, <1>3, <1>4

(* In a contiguous file the cluster is computed.                           *)
LEMMA SeekContiguousType == ASSUME TypeOK, SeekContiguous PROVE TypeOK'
  <1>1. ~At("idle")
    BY DEF SeekContiguous, At
  <1>2. mine.first + Wanted \in Nat
    BY <1>1, InProgress, WantedType
  <1>3. op' \in OpType
    BY <1>1, <1>2, InProgress, Zenon DEF SeekContiguous, OpType, PcLabels
  <1>4. op'.file = op.file /\ op'.pc = "transfer"
    BY <1>1, InProgress DEF SeekContiguous, OpType
  <1>5. OpTypeOK'
    BY <1>1, <1>3, <1>4, MovesOn DEF PlainLabels
  <1> QED
    BY <1>5, LocalStep DEF SeekContiguous

(* In a FAT chain the walk starts at the cached cluster or the first.      *)
LEMMA SeekChainedType == ASSUME TypeOK, SeekChained PROVE TypeOK'
  <1>1. ~At("idle")
    BY DEF SeekChained, At
  <1> DEFINE idx == IF UseCache THEN mine.cachedIndex ELSE 0
  <1>2. idx \in Nat
    BY <1>1, InProgress DEF UseCache, HandleType
  <1>3. WalkFrom \in Clusters /\ WalkFrom \in Nat
    BY Parameters DEF SeekChained
  <1>4. op' \in OpType
    BY <1>1, <1>2, <1>3, InProgress, Zenon DEF SeekChained, OpType, PcLabels
  <1>5. op'.file = op.file /\ op'.pc = "walk" /\ op'.cl = WalkFrom
    BY <1>1, InProgress DEF SeekChained, OpType
  <1>6. OpTypeOK'
    BY <1>1, <1>3, <1>4, <1>5, InProgress, Parameters DEF OpTypeOK
  <1> QED
    BY <1>6, LocalStep DEF SeekChained

(* The walk follows one FAT entry.                                         *)
LEMMA WalkType == ASSUME TypeOK, Walk PROVE TypeOK'
  <1>1. ~At("idle") /\ op.pc = "walk"
    BY DEF Walk, At
  <1>2. fat[op.cl] \in Clusters /\ fat[op.cl] \in Nat
    BY Parameters DEF Walk
  <1>3. op' \in OpType
    BY <1>1, <1>2, InProgress, Zenon DEF Walk, OpType
  <1>4. op'.file = op.file /\ op'.pc = "walk" /\ op'.cl = fat[op.cl]
    BY <1>1, InProgress DEF Walk, OpType
  <1>5. OpTypeOK'
    BY <1>1, <1>2, <1>3, <1>4, InProgress, Parameters DEF OpTypeOK
  <1> QED
    BY <1>5, LocalStep DEF Walk

(* The walk ends at the wanted cluster, which is cached.                   *)
LEMMA ArriveType == ASSUME TypeOK, Arrive PROVE TypeOK'
  <1>1. ~At("idle") /\ op.cl \in {0} \cup Clusters /\ 0 \in Nat
    BY DEF Arrive, At, TypeOK, OpTypeOK
  <1>2. [mine EXCEPT !.cachedIndex = Wanted, !.cachedCluster = op.cl] \in HandleType
    BY <1>1, InProgress, WantedType, Zenon DEF HandleType
  <1>3. handle' \in [Files -> HandleType]
    BY <1>1, <1>2, SetMineType DEF Arrive
  <1>4. op' \in OpType
    BY <1>1, InProgress, Zenon DEF Arrive, OpType, PcLabels
  <1>5. op'.file = op.file /\ op'.pc = "transfer"
    BY <1>1, InProgress DEF Arrive, OpType
  <1>6. OpTypeOK'
    BY <1>1, <1>4, <1>5, MovesOn DEF PlainLabels
  <1> QED
    BY <1>3, <1>6 DEF Arrive, device, TypeOK, VolumeTypeOK, MemoryTypeOK

(* A chunk is read or written and the position advances.                   *)
LEMMA TransferChunkType == ASSUME TypeOK, TransferChunk PROVE TypeOK'
  <1>1. ~At("idle") /\ op.value \in Values \cup {Zero}
    BY InProgress DEF TransferChunk, At, OpType
  <1>2. /\ mine.pos + Chunk \in Nat
        /\ op.rem - Chunk \in Nat
        /\ 0 \in Nat
    BY <1>1, InProgress, WantedType DEF HandleType, OpType
  <1>3. [mine EXCEPT !.pos = mine.pos + Chunk] \in HandleType
    BY <1>1, <1>2, InProgress, Zenon DEF HandleType
  <1>4. handle' \in [Files -> HandleType]
    BY <1>1, <1>3, SetMineType DEF TransferChunk
  <1>5. data' \in [Clusters -> [0..(ClusterBytes - 1) -> Values \cup {Zero}]]
    BY <1>1 DEF TransferChunk, TypeOK, VolumeTypeOK
  <1> DEFINE again == [op EXCEPT !.pc = "seek", !.rem = op.rem - Chunk, !.cl = 0]
             done  == [op EXCEPT !.pc = "stream", !.rem = 0, !.cl = 0]
  <1>6. again \in OpType /\ done \in OpType
    BY <1>1, <1>2, InProgress, Zenon DEF OpType, PcLabels
  <1>7. /\ again.file = op.file /\ again.pc = "seek"
        /\ done.file = op.file /\ done.pc = "stream"
    BY <1>1, InProgress DEF OpType
  <1>8. op' \in {again, done, Idle}
    BY DEF TransferChunk, AfterTransfer
  <1>9. OpTypeOK'
    BY <1>1, <1>6, <1>7, <1>8, MovesOn, BecomesIdle DEF PlainLabels
  <1> QED
    BY <1>4, <1>5, <1>9 DEF TransferChunk, TypeOK, VolumeTypeOK, MemoryTypeOK

(* The stream extension is rewritten.                                      *)
LEMMA UpdateStreamType == ASSUME TypeOK, UpdateStream PROVE TypeOK'
  <1>1. ~At("idle")
    BY DEF UpdateStream, At
  <1>2. StreamOf(mine) \in Stream
    BY <1>1, InProgress, StreamOfType
  <1>3. stream' \in [Files -> Stream]
    BY <1>2 DEF UpdateStream, TypeOK, VolumeTypeOK
  <1>4. OpTypeOK'
    BY <1>1, GotoType DEF UpdateStream, PlainLabels
  <1> QED
    BY <1>3, <1>4 DEF UpdateStream, TypeOK, VolumeTypeOK, MemoryTypeOK

(* The set checksum is rewritten and the operation ends.                   *)
LEMMA SealType == ASSUME TypeOK, Seal PROVE TypeOK'
  <1>1. op.file \in Files
    BY InProgress DEF Seal, At
  <1>2. sealed' \in [Files -> Stream]
    BY <1>1 DEF Seal, TypeOK, VolumeTypeOK
  <1> QED
    BY <1>2, BecomesIdle DEF Seal, TypeOK, VolumeTypeOK, MemoryTypeOK

-----------------------------------------------------------------------------
(* truncate and remove.                                                    *)

(* The number of clusters truncate keeps.                                  *)
LEMMA KeptType == ASSUME TypeOK, ~At("idle") PROVE Kept \in Nat
  BY InProgress, DivisionType DEF Kept, OpType

(* In a contiguous file the kept part ends where it is computed to.        *)
LEMMA KeepContiguousType == ASSUME TypeOK, KeepContiguous PROVE TypeOK'
  <1>1. ~At("idle") /\ Kept # 0
    BY DEF KeepContiguous, At, TypeOK, OpTypeOK, Kept
  <1>2. mine.first + Kept - 1 \in Nat /\ mine.first + Kept \in Nat
    BY <1>1, InProgress, KeptType
  <1>3. op' \in OpType
    BY <1>1, <1>2, InProgress, Zenon DEF KeepContiguous, OpType, PcLabels
  <1>4. op'.file = op.file /\ op'.pc = "cut"
    BY <1>1, InProgress DEF KeepContiguous, OpType
  <1>5. OpTypeOK'
    BY <1>1, <1>3, <1>4, MovesOn DEF PlainLabels
  <1> QED
    BY <1>5, LocalStep DEF KeepContiguous

(* In a FAT chain the walk to the last kept cluster follows one entry.     *)
LEMMA KeepFollowType == ASSUME TypeOK, KeepFollow PROVE TypeOK'
  <1>1. ~At("idle") /\ op.pc = "keep" /\ Kept # 0
    BY DEF KeepFollow, At, TypeOK, OpTypeOK, Kept
  <1>2. fat[op.cl] \in Clusters /\ fat[op.cl] \in Nat
    BY Parameters DEF KeepFollow
  <1>3. op' \in OpType
    BY <1>1, <1>2, InProgress, Zenon DEF KeepFollow, OpType
  <1>4. op'.file = op.file /\ op'.pc = "keep" /\ op'.cl = fat[op.cl] /\ op'.n = op.n
    BY <1>1, InProgress DEF KeepFollow, OpType
  <1>5. OpTypeOK'
    BY <1>1, <1>2, <1>3, <1>4, InProgress, Parameters DEF OpTypeOK, Kept
  <1> QED
    BY <1>5, LocalStep DEF KeepFollow

(* The walk ends at the last kept cluster.                                 *)
LEMMA KeepFoundType == ASSUME TypeOK, KeepFound PROVE TypeOK'
  <1>1. /\ ~At("idle") /\ 0 \in Nat
        /\ op.cl \in {0} \cup Clusters
    BY DEF KeepFound, At, TypeOK, OpTypeOK
  <1>2. op.cl \in FatSlots
    BY <1>1, Parameters DEF Clusters, FatSlots
  <1>3. op.cl \in Nat /\ fat[op.cl] \in Nat
    BY <1>1, <1>2, InProgress DEF TypeOK, VolumeTypeOK, OpType
  <1>4. op' \in OpType
    BY <1>1, <1>3, InProgress, Zenon DEF KeepFound, OpType, PcLabels
  <1>5. op'.file = op.file /\ op'.pc = "cut"
    BY <1>1, InProgress DEF KeepFound, OpType
  <1>6. OpTypeOK'
    BY <1>1, <1>4, <1>5, MovesOn DEF PlainLabels
  <1> QED
    BY <1>6, LocalStep DEF KeepFound

(* The chain is cut behind it.                                             *)
LEMMA CutType == ASSUME TypeOK, Cut PROVE TypeOK'
  <1>1. ~At("idle") /\ 0 \in Nat
    BY DEF Cut, At
  <1>2. EndOfChain \in Nat
    BY Parameters DEF EndOfChain
  <1>3. fat' \in [FatSlots -> Nat]
    BY <1>2, SetFatType DEF Cut
  <1>4. op' \in OpType
    BY <1>1, InProgress, Zenon DEF Cut, OpType, PcLabels
  <1>5. op'.file = op.file /\ op'.pc = "free"
    BY <1>1, InProgress DEF Cut, OpType
  <1>6. OpTypeOK'
    BY <1>1, <1>4, <1>5, MovesOn DEF PlainLabels
  <1> QED
    BY <1>3, <1>6 DEF Cut, TypeOK, VolumeTypeOK, MemoryTypeOK

(* The FAT entry of a cluster to release is read, then cleared.            *)
LEMMA FreeLinkType == ASSUME TypeOK, FreeLink PROVE TypeOK'
  <1>1. ~At("idle") /\ 0 \in Nat /\ op.left > 0 /\ op.left # 0
    BY DEF FreeLink, At
  <1>2. op.cl \in Nat /\ fat[op.cl] \in Nat
    BY <1>1, InProgress DEF FreeLink, TypeOK, VolumeTypeOK, OpType
  <1>3. NextToFree \in Nat
    BY <1>2 DEF NextToFree
  <1>4. fat' \in [FatSlots -> Nat]
    BY <1>1, SetFatType DEF FreeLink
  <1>5. op' \in OpType
    BY <1>1, <1>3, InProgress, Zenon DEF FreeLink, OpType, PcLabels
  <1>6. op'.file = op.file /\ op'.pc = "unmark" /\ op'.left = op.left
    BY <1>1, InProgress DEF FreeLink, OpType
  <1>7. OpTypeOK'
    BY <1>1, <1>5, <1>6, InProgress, Parameters DEF OpTypeOK
  <1> QED
    BY <1>4, <1>7 DEF FreeLink, TypeOK, VolumeTypeOK, MemoryTypeOK

(* The allocation bit of the released cluster is cleared.                  *)
LEMMA UnmarkType == ASSUME TypeOK, Unmark PROVE TypeOK'
  <1>1. ~At("idle") /\ 0 \in Nat /\ op.cl \in Clusters /\ op.left # 0
    BY DEF Unmark, At, TypeOK, OpTypeOK
  <1>2. /\ used' \subseteq Clusters
        /\ freeClusters' \in 0..ClusterCount \cup {None}
    BY <1>1, SetBitmapType DEF Unmark
  <1>3. op.next \in Nat /\ op.left - 1 \in Nat
    BY <1>1, InProgress DEF OpType
  <1> DEFINE again == [op EXCEPT !.pc = "free", !.cl = op.next, !.next = 0, !.left = op.left - 1]
  <1>4. again \in OpType
    BY <1>1, <1>3, InProgress, Zenon DEF OpType, PcLabels
  <1>5. again.file = op.file /\ again.pc = "free"
    BY <1>1, InProgress DEF OpType
  <1>6. op' \in {again, Idle}
    BY DEF Unmark
  <1>7. OpTypeOK'
    BY <1>1, <1>4, <1>5, <1>6, MovesOn, BecomesIdle DEF PlainLabels
  <1> QED
    BY <1>2, <1>7 DEF Unmark, TypeOK, VolumeTypeOK, MemoryTypeOK

(* The release is over, and truncate goes on to the record.                *)
LEMMA FreedType == ASSUME TypeOK, Freed PROVE TypeOK'
  <1>1. ~At("idle") /\ 0 \in Nat
    BY DEF Freed, At
  <1>2. Kept * ClusterBytes \in Nat /\ op.n \in Nat
    BY <1>1, KeptType, Parameters, InProgress DEF OpType
  <1> DEFINE first == IF Kept = 0 THEN 0 ELSE mine.first
  <1>3. first \in {0} \cup Clusters
    BY <1>1, InProgress DEF HandleType
  <1>4. [mine EXCEPT !.first = first, !.data = Kept * ClusterBytes] \in HandleType
    BY <1>1, <1>2, <1>3, InProgress, Zenon DEF HandleType
  <1>5. handle' \in [Files -> HandleType]
    BY <1>1, <1>2, <1>4, UncachedType, ClipType, SetMineType DEF Freed
  <1>6. op' \in OpType
    BY <1>1, InProgress, Zenon DEF Freed, OpType, PcLabels
  <1>7. op'.file = op.file /\ op'.pc = "stream"
    BY <1>1, InProgress DEF Freed, OpType
  <1>8. OpTypeOK'
    BY <1>1, <1>6, <1>7, MovesOn DEF PlainLabels
  <1> QED
    BY <1>5, <1>8 DEF Freed, device, TypeOK, VolumeTypeOK, MemoryTypeOK

-----------------------------------------------------------------------------
(* The calls.                                                              *)

(* open of a file that is not open.                                        *)
LEMMA OpenType == ASSUME TypeOK, NEW f \in Files, Open(f) PROVE TypeOK'
  <1>1. OpenOn(stream[f]) \in HandleType
    BY OpenOnType DEF TypeOK, VolumeTypeOK
  <1>2. handle' \in [Files -> HandleType]
    BY <1>1 DEF Open, TypeOK, MemoryTypeOK
  <1> QED
    BY <1>2 DEF Open, device, TypeOK, VolumeTypeOK, MemoryTypeOK, OpTypeOK

(* close of an open file.                                                  *)
LEMMA CloseType == ASSUME TypeOK, NEW f \in Files, Close(f) PROVE TypeOK'
  <1>1. handle' \in [Files -> HandleType]
    BY ClosedType DEF Close, TypeOK, MemoryTypeOK
  <1> QED
    BY <1>1 DEF Close, device, TypeOK, VolumeTypeOK, MemoryTypeOK, OpTypeOK

(* create of a file that is not there.                                     *)
LEMMA CreateAbsentType == ASSUME TypeOK, NEW f \in Files, CreateAbsent(f) PROVE TypeOK'
  <1>1. handle' \in [Files -> HandleType]
    BY NoStreamType, OpenOnType DEF CreateAbsent, TypeOK, MemoryTypeOK
  <1>2. stream' \in [Files -> Stream] /\ sealed' \in [Files -> Stream]
    BY NoStreamType DEF CreateAbsent, TypeOK, VolumeTypeOK
  <1> QED
    BY <1>1, <1>2 DEF CreateAbsent, TypeOK, VolumeTypeOK, MemoryTypeOK, OpTypeOK

(* Both branches of BeginTruncate, for truncate and for create.            *)
LEMMA BeginTruncateType ==
    ASSUME TypeOK, NEW f \in Files, NEW h \in HandleType, NEW len \in Nat,
           NEW kind \in {"create", "truncate"}, BeginTruncate(f, h, len, kind),
           UNCHANGED <<device, freeClusters>>
    PROVE  TypeOK'
  <1> DEFINE keep      == CeilDiv(len, ClusterBytes)
             allocated == CeilDiv(h.data, ClusterBytes)
             start     == [Idle EXCEPT !.kind = kind, !.file = f, !.n = len]
             commit    == [start EXCEPT !.pc = "stream"]
             release   == [start EXCEPT !.pc = IF keep = 0 THEN "free" ELSE "keep",
                                        !.cl = h.first, !.left = allocated - keep]
  <1>1. keep \in Nat /\ allocated \in Nat /\ h.first \in {0} \cup Clusters /\ h.first \in Nat
    <2>1. h.data \in Nat /\ h.first \in {0} \cup Clusters
      BY DEF HandleType
    <2>2. h.first \in Nat
      BY <2>1 DEF Clusters
    <2> QED
      BY <2>1, <2>2, DivisionType
  <1>2. \/ keep >= allocated /\ op' = commit /\ handle' = [handle EXCEPT ![f] = Clip(h, len)]
        \/ keep < allocated /\ op' = release /\ handle' = [handle EXCEPT ![f] = h]
    BY <1>1 DEF BeginTruncate
  <1>3. handle' \in [Files -> HandleType]
    BY <1>2, ClipType DEF TypeOK, MemoryTypeOK
  <1>4. start \in OpType
    BY IdleType, Zenon DEF OpType, Kinds
  <1>5. start.file = f /\ start.n = len
    BY IdleType DEF OpType
  <1>6. OpTypeOK'
    <2>1. CASE keep >= allocated /\ op' = commit
      <3>1. commit \in OpType
        BY <1>4, Zenon DEF OpType, PcLabels
      <3>2. commit.file = f /\ commit.pc = "stream"
        BY <1>4, <1>5 DEF OpType
      <3> QED
        BY <2>1, <3>1, <3>2, Parameters DEF OpTypeOK
    <2>2. CASE keep < allocated /\ op' = release
      <3>1. allocated - keep \in Nat
        BY <1>1, <2>2
      <3> DEFINE pc == IF keep = 0 THEN "free" ELSE "keep"
      <3>2. pc \in PcLabels
        BY DEF PcLabels
      <3>3. release \in OpType
        BY <1>1, <1>4, <3>1, <3>2, Zenon DEF OpType
      <3>4. /\ release.file = f /\ release.pc = pc
            /\ release.cl = h.first /\ release.n = len
        BY <1>4, <1>5 DEF OpType
      <3> QED
        BY <1>1, <2>2, <3>3, <3>4, Parameters DEF OpTypeOK
    <2> QED
      BY <1>2, <2>1, <2>2
  <1> QED
    BY <1>3, <1>6 DEF device, TypeOK, VolumeTypeOK, MemoryTypeOK

(* create of a file that is there truncates it.                            *)
LEMMA CreateExistingType == ASSUME TypeOK, NEW f \in Files, CreateExisting(f) PROVE TypeOK'
  <1>1. OpenOn(stream[f]) \in HandleType
    BY OpenOnType DEF TypeOK, VolumeTypeOK
  <1> QED
    BY <1>1, BeginTruncateType DEF CreateExisting

(* truncate to any length.                                                 *)
LEMMA TruncateType ==
    ASSUME TypeOK, NEW f \in Files, NEW len \in 0..MaxLength, Truncate(f, len)
    PROVE  TypeOK'
  <1>1. handle[f] \in HandleType
    BY DEF TypeOK, MemoryTypeOK
  <1> QED
    BY <1>1, BeginTruncateType DEF Truncate

(* append of any number of bytes.                                          *)
LEMMA AppendType ==
    ASSUME TypeOK, NEW f \in Files, NEW n \in 1..MaxLength, NEW v \in Payload[f], Append(f, n, v)
    PROVE  TypeOK'
  <1>1. handle[f] \in HandleType /\ v \in Values /\ n \in Nat
    BY Parameters DEF TypeOK, MemoryTypeOK
  <1>2. handle' \in [Files -> HandleType]
    BY <1>1, UncachedType DEF Append, TypeOK, MemoryTypeOK
  <1>3. op' \in OpType
    BY <1>1, IdleType, Zenon DEF Append, OpType, PcLabels, Kinds
  <1>4. op'.file = f /\ op'.pc = "grow"
    BY IdleType DEF Append, OpType
  <1>5. OpTypeOK'
    BY <1>3, <1>4, Parameters DEF OpTypeOK
  <1> QED
    BY <1>2, <1>5 DEF Append, device, TypeOK, VolumeTypeOK, MemoryTypeOK

(* read and write clip the request to the valid length.                    *)
LEMMA StartTransferType ==
    ASSUME TypeOK, NEW f \in Files, NEW n \in Nat, NEW v \in Values \cup {Zero},
           NEW kind \in {"read", "write"}, StartTransfer(f, n, v, kind)
    PROVE  TypeOK'
  <1> DEFINE rest == handle[f].valid - handle[f].pos
             rem  == IF n < rest THEN n ELSE rest
  <1>1. rem \in Nat
    BY DEF StartTransfer, TypeOK, MemoryTypeOK, HandleType
  <1>2. op' = [Idle EXCEPT !.pc = "seek", !.kind = kind, !.file = f, !.value = v, !.rem = rem]
    BY DEF StartTransfer
  <1>3. op' \in OpType
    BY <1>1, <1>2, IdleType, Zenon DEF OpType, PcLabels, Kinds
  <1>4. op'.file = f /\ op'.pc = "seek"
    BY <1>2, IdleType DEF OpType
  <1>5. OpTypeOK'
    BY <1>3, <1>4, Parameters DEF OpTypeOK
  <1> QED
    BY <1>5, LocalStep DEF StartTransfer

(* remove retires the record before it releases the clusters.              *)
LEMMA RemoveType == ASSUME TypeOK, NEW f \in Files, Remove(f) PROVE TypeOK'
  <1> DEFINE s == stream[f]
             left == CeilDiv(s.data, ClusterBytes)
             release == [Idle EXCEPT !.pc = "free", !.kind = "remove", !.file = f,
                                     !.saved = OpenOn(s), !.cl = s.first, !.left = left]
  <1>1. s \in Stream
    BY DEF TypeOK, VolumeTypeOK
  <1>2. s.first \in {0} \cup Clusters /\ s.data \in Nat
    BY <1>1 DEF Stream
  <1>3. s.first \in Nat /\ left \in Nat
    BY <1>2, DivisionType DEF Clusters
  <1>4. release \in OpType
    BY <1>1, <1>2, <1>3, IdleType, OpenOnType, Zenon DEF OpType, PcLabels, Kinds
  <1>5. release.file = f /\ release.pc = "free"
    BY IdleType DEF OpType
  <1>6. op' \in {release, Idle}
    BY DEF Remove
  <1>7. OpTypeOK'
    <2>1. CASE op' = release
      BY <1>4, <1>5, <2>1, Parameters DEF OpTypeOK
    <2> QED
      BY <1>6, <2>1, BecomesIdle
  <1> QED
    BY <1>7 DEF Remove, TypeOK, VolumeTypeOK, MemoryTypeOK

(* The bitmap never has more bits set than the heap has clusters.          *)
LEMMA UsedFinite ==
    ASSUME used \subseteq Clusters
    PROVE  /\ IsFiniteSet(used)
           /\ ClusterCount - Cardinality(used) \in 0..ClusterCount
  <1>1. /\ IsFiniteSet(Clusters)
        /\ Cardinality(Clusters) = ClusterCount
    BY FS_Interval, Parameters DEF Clusters
  <1>2. /\ IsFiniteSet(used)
        /\ Cardinality(used) <= ClusterCount
    BY <1>1, FS_Subset
  <1>3. Cardinality(used) \in Nat
    BY <1>2, FS_CardinalityType
  <1> QED
    BY <1>2, <1>3, Parameters

(* refresh_free_clusters counts the bitmap.                                *)
LEMMA RefreshType == ASSUME TypeOK, RefreshFreeClusters PROVE TypeOK'
  <1>1. freeClusters' \in 0..ClusterCount \cup {None}
    BY UsedFinite DEF RefreshFreeClusters, TypeOK, VolumeTypeOK
  <1> QED
    BY <1>1 DEF RefreshFreeClusters, device, TypeOK, VolumeTypeOK, MemoryTypeOK, OpTypeOK

(* A dropped future leaves the handle as the operation left it.            *)
LEMMA CancelType == ASSUME TypeOK, Cancel PROVE TypeOK'
  <1>1. ~At("idle")
    BY DEF Cancel, IoLabels, At
  <1>2. handle' \in [Files -> HandleType]
    BY <1>1, InProgress, ClosedType, SetMineType DEF Cancel
  <1> QED
    BY <1>2, BecomesIdle DEF Cancel, device, TypeOK, VolumeTypeOK, MemoryTypeOK

(* A volume as mount finds it.                                             *)
LEMMA InitType == ASSUME Init PROVE TypeOK
  <1>1. \A f \in live : Preexisting[f] \in Stream /\ PreexistingExtent(f) \subseteq Clusters
    <2> SUFFICES ASSUME NEW f \in live
                 PROVE  Preexisting[f] \in Stream /\ PreexistingExtent(f) \subseteq Clusters
      OBVIOUS
    <2> DEFINE n == CeilDiv(Preexisting[f].data, ClusterBytes)
    <2>1. /\ Preexisting[f] \in Stream
          /\ \A i \in 0..(n - 1) : Preexisting[f].first + i \in Clusters
      BY PreexistingAssumption DEF Init
    <2>2. /\ Preexisting[f].first \in {0} \cup Clusters
          /\ Preexisting[f].data \in Nat
      BY <2>1 DEF Stream
    <2>3. Preexisting[f].first \in Nat /\ n \in Nat
      BY <2>2, DivisionType DEF Clusters
    <2>4. ASSUME NEW c \in PreexistingExtent(f) PROVE c \in Clusters
      <3> DEFINE i == c - Preexisting[f].first
      <3>1. i \in 0..(n - 1) /\ c = Preexisting[f].first + i
        BY <2>3, <2>4 DEF PreexistingExtent, PreexistingLast
      <3> QED
        BY <2>1, <3>1
    <2> QED
      BY <2>1, <2>4
  <1>2. live \subseteq Files
    BY PreexistingAssumption DEF Init
  <1>3. stream \in [Files -> Stream] /\ sealed \in [Files -> Stream]
    BY <1>1, NoStreamType DEF Init
  <1>4. used \subseteq Clusters
    BY <1>1, ConstantsAssumption DEF Init
  <1>5. fat \in [FatSlots -> Nat]
    <2>1. EndOfChain \in Nat /\ \A c \in FatSlots : c + 1 \in Nat
      BY Parameters DEF EndOfChain, FatSlots
    <2> QED
      BY <2>1 DEF Init
  <1>6. data \in [Clusters -> [0..(ClusterBytes - 1) -> Values \cup {Zero}]]
    <2> DEFINE owners(c, b) == {f \in live : /\ c \in PreexistingExtent(f)
                                             /\ (c - Preexisting[f].first) * ClusterBytes + b
                                                  < Preexisting[f].valid}
               written(c, b) == UNION {Payload[f] : f \in owners(c, b)}
               byte(c, b) == IF written(c, b) = {} THEN Zero ELSE CHOOSE v \in written(c, b) : TRUE
    <2>1. \A c, b : written(c, b) \subseteq Values
      BY <1>2, Parameters
    <2>2. \A c, b : byte(c, b) \in Values \cup {Zero}
      <3> SUFFICES ASSUME NEW c, NEW b, written(c, b) # {} PROVE byte(c, b) \in Values
        OBVIOUS
      <3> HIDE DEF written
      <3> QED
        BY <2>1
    <2>3. data = [c \in Clusters |-> [b \in 0..(ClusterBytes - 1) |-> byte(c, b)]]
      BY DEF Init
    <2> HIDE DEF byte
    <2> QED
      BY <2>2, <2>3
  <1>7. freeClusters \in 0..ClusterCount \cup {None} /\ handle \in [Files -> HandleType]
    BY ClosedType DEF Init
  <1>8. OpTypeOK
    BY IdleType DEF Init, OpTypeOK
  <1> QED
    BY <1>2, <1>3, <1>4, <1>5, <1>6, <1>7, <1>8 DEF TypeOK, VolumeTypeOK, MemoryTypeOK

(* Every step of the operation in progress.                                *)
LEMMA StepType == ASSUME TypeOK, Step PROVE TypeOK'
  <1>1. ReturnError => TypeOK'
    BY FailType DEF ReturnError, CheckFails, Growing, At
  <1> QED
    BY <1>1, GrowEmptyType, GrowContiguousType, GrowChainedType, FollowTailType, FoundTailType,
       ClaimType, MarkUsedType, TerminateFirstType, TerminateAdjacentType, TerminateDetachedType,
       MaterializeType, MaterializedType, LinkType, GrownType, SeekContiguousType,
       SeekChainedType, WalkType, ArriveType, TransferChunkType, UpdateStreamType, SealType,
       KeepContiguousType, KeepFollowType, KeepFoundType, CutType, FreeLinkType, UnmarkType,
       FreedType DEF Step

(* Every call.                                                             *)
LEMMA CallType == ASSUME TypeOK, NEW f \in Files, Calls(f) PROVE TypeOK'
  <1>1. ASSUME NEW n \in 1..MaxLength, Read(f, n) PROVE TypeOK'
    BY <1>1, StartTransferType DEF Read
  <1>2. ASSUME NEW n \in 1..MaxLength, NEW v \in Payload[f], Write(f, n, v) PROVE TypeOK'
    BY <1>2, StartTransferType, Parameters DEF Write
  <1> QED
    BY <1>1, <1>2, OpenType, CloseType, CreateAbsentType, CreateExistingType, RemoveType,
       AppendType, TruncateType DEF Calls

(* The induction step of TypeCorrect.                                      *)
LEMMA NextType == ASSUME TypeOK, [Next]_vars PROVE TypeOK'
  <1>1. CASE IoError
    BY <1>1, FailType DEF IoError, IoLabels, At
  <1>2. CASE Remount \/ Crash
    BY <1>2, RestartType DEF Remount, Crash
  <1>3. CASE UNCHANGED vars
    BY <1>3 DEF vars, TypeOK, VolumeTypeOK, MemoryTypeOK, OpTypeOK
  <1> QED
    BY <1>1, <1>2, <1>3, CallType, StepType, RefreshType, CancelType DEF Next

(* Every variable keeps the kind of value the program keeps there: no      *)
(* sequence of operations, errors, dropped futures and power cuts makes    *)
(* set_bitmap, the allocation scan or a FAT walk leave the heap, even on a *)
(* volume whose chains a failed truncate has damaged.                      *)
THEOREM TypeCorrect == Spec => []TypeOK
  BY InitType, NextType, PTL DEF Spec

-----------------------------------------------------------------------------
(* The free-cluster count.                                                 *)

(* set_bitmap keeps the count exact whether or not the bit changes, on the *)
(* first request for a cluster and on a repeated one.                      *)
LEMMA SetBitmapCounts ==
    ASSUME TypeOK, FreeCountExact, NEW c \in Clusters, NEW inUse \in BOOLEAN, SetBitmap(c, inUse)
    PROVE  FreeCountExact'
  <1>1. IsFiniteSet(used) /\ Cardinality(used) \in Nat
    BY UsedFinite, FS_CardinalityType DEF TypeOK, VolumeTypeOK
  <1>2. CASE freeClusters = None
    BY <1>2 DEF SetBitmap, FreeCountExact
  <1>3. CASE (c \in used) = inUse
    <2>1. used' = used /\ freeClusters' = freeClusters
      BY <1>3 DEF SetBitmap
    <2> QED
      BY <2>1 DEF FreeCountExact
  <1>4. CASE freeClusters # None /\ inUse /\ c \notin used
    <2>1. used' = used \cup {c} /\ freeClusters' = freeClusters - 1
      BY <1>4 DEF SetBitmap
    <2>2. Cardinality(used') = Cardinality(used) + 1
      BY <1>1, <1>4, <2>1, FS_AddElement
    <2> QED
      BY <1>1, <1>4, <2>1, <2>2, Parameters DEF FreeCountExact
  <1>5. CASE freeClusters # None /\ ~inUse /\ c \in used
    <2>1. used' = used \ {c} /\ freeClusters' = freeClusters + 1
      BY <1>5 DEF SetBitmap
    <2>2. Cardinality(used') = Cardinality(used) - 1
      BY <1>1, <1>5, <2>1, FS_RemoveElement
    <2> QED
      BY <1>1, <1>5, <2>1, <2>2, Parameters DEF FreeCountExact
  <1> QED
    BY <1>2, <1>3, <1>4, <1>5

(* A step that touches neither bitmap nor count keeps the count exact.     *)
LEMMA CountKept ==
    ASSUME FreeCountExact, UNCHANGED <<used, freeClusters>>
    PROVE  FreeCountExact'
  BY DEF FreeCountExact

(* Only claims and releases touch the bitmap, both through set_bitmap; only *)
(* a mount and a refresh set the count otherwise.                          *)
LEMMA FreeCountStep ==
    ASSUME TypeOK, FreeCountExact, [Next]_vars
    PROVE  FreeCountExact'
  <1>1. CASE MarkUsed
    BY <1>1, SetBitmapCounts DEF MarkUsed, At, TypeOK, OpTypeOK
  <1>2. CASE Unmark
    BY <1>2, SetBitmapCounts DEF Unmark
  <1>3. CASE RefreshFreeClusters
    BY <1>3 DEF RefreshFreeClusters, device, FreeCountExact
  <1>4. CASE Remount \/ Crash
    BY <1>4 DEF Remount, Crash, Restart, FreeCountExact
  <1>5. CASE Step /\ ~MarkUsed /\ ~Unmark
    BY <1>5, CountKept
       DEF Step, device, Fail, GrowEmpty, GrowContiguous, GrowChained, FollowTail, FoundTail,
           Claim, TerminateFirst, TerminateAdjacent, TerminateDetached, Materialize,
           Materialized, Link, Grown, SeekContiguous, SeekChained, Walk, Arrive, TransferChunk,
           UpdateStream, Seal, KeepContiguous, KeepFollow, KeepFound, Cut, FreeLink, Freed,
           ReturnError
  <1>6. ASSUME NEW f \in Files, Calls(f) PROVE FreeCountExact'
    BY <1>6, CountKept
       DEF Calls, device, Open, Close, CreateAbsent, CreateExisting, Remove, Read, Write,
           StartTransfer, Append, Truncate
  <1>7. CASE IoError \/ Cancel \/ UNCHANGED vars
    BY <1>7, CountKept DEF IoError, Fail, Cancel, device, vars
  <1> QED
    BY <1>1, <1>2, <1>3, <1>4, <1>5, <1>6, <1>7 DEF Next

(* The cached free_clusters, once known, is exact after every step of every *)
(* operation: through claims, releases, retries of half-done operations on *)
(* damaged chains, errors, dropped futures and power cuts.                 *)
THEOREM FreeCountCorrect == Spec => []FreeCountExact
  <1>1. Init => FreeCountExact
    BY DEF Init, FreeCountExact
  <1> QED
    BY <1>1, FreeCountStep, TypeCorrect, PTL DEF Spec

-----------------------------------------------------------------------------
(* Which operation is at which program point.                              *)

(* An operation is where its own steps lead.                               *)
KindOK ==
    /\ At("idle") => op = Idle
    /\ ~At("idle") => op.kind # "none"
    /\ op.pc \in {"grow", "tail", "claim", "mark", "terminate", "materialize", "link"} =>
         op.kind = "append"
    /\ op.pc \in {"seek", "walk", "transfer"} => op.kind \in {"append", "read", "write"}
    /\ op.pc \in {"stream", "seal"} => op.kind \in {"append", "truncate", "create"}
    /\ op.pc \in {"keep", "cut"} => op.kind \in {"truncate", "create"}
    /\ op.pc \in {"free", "unmark"} => op.kind \in {"truncate", "create", "remove"}
    /\ op.kind = "remove" /\ At("free") => op.left # 0
    /\ op.kind \in {"truncate", "create"} => "truncate" \in Ops

(* A step that goes on keeps the operation, its file and what it saved.    *)
Continues ==
    /\ op'.kind = op.kind /\ op'.file = op.file /\ op'.saved = op.saved
    /\ op'.n = op.n /\ op'.value = op.value

(* The locals of an operation once it has gone on.                         *)
LEMMA IdleFields ==
    /\ Idle \in OpType /\ Idle.pc = "idle" /\ Idle.kind = "none" /\ Idle.file = None
    /\ Idle.saved = Closed
BY IdleType DEF Idle

(* A step ends the operation or keeps what it was asked.                   *)
LEMMA StepContinues ==
    ASSUME TypeOK, Step
    PROVE  op' = Idle \/ Continues
<1>1. ~At("idle")
  BY DEF Step, At, Growing, GrowEmpty, GrowContiguous, GrowChained, FollowTail, FoundTail, Claim,
     MarkUsed, Terminate, TerminateFirst, TerminateAdjacent, TerminateDetached, Materialize, Materialized,
     Link, Grown, SeekContiguous, SeekChained, Walk, Arrive, TransferChunk, UpdateStream, Seal,
     KeepContiguous, KeepFollow, KeepFound, Cut, FreeLink, Unmark, Freed, ReturnError, CheckFails
<1>2. op \in OpType
  BY <1>1, InProgress
<1>3. CASE GrowEmpty \/ GrowContiguous \/ GrowChained \/ FollowTail \/ FoundTail \/ Claim \/ MarkUsed
  BY <1>2, <1>3 DEF GrowEmpty, GrowContiguous, GrowChained, FollowTail, FoundTail, Claim, MarkUsed,
     Goto, OpType, Continues
<1>4. CASE TerminateFirst \/ TerminateAdjacent \/ TerminateDetached \/ Materialize \/ Materialized
           \/ Link \/ Grown
  BY <1>2, <1>4 DEF TerminateFirst, TerminateAdjacent, TerminateDetached, Materialize, Materialized,
     Link, Grown, Goto, GrowAgain, OpType, Continues
<1>5. CASE SeekContiguous \/ SeekChained \/ Walk \/ Arrive \/ TransferChunk \/ UpdateStream \/ Seal
  BY <1>2, <1>5 DEF SeekContiguous, SeekChained, Walk, Arrive, TransferChunk, AfterTransfer,
     UpdateStream, Seal, Goto, OpType, Continues
<1>6. CASE KeepContiguous \/ KeepFollow \/ KeepFound \/ Cut \/ FreeLink \/ Unmark \/ Freed
  BY <1>2, <1>6 DEF KeepContiguous, KeepFollow, KeepFound, Cut, FreeLink, Unmark, Freed, OpType, Continues
<1>7. CASE ReturnError
  BY <1>7 DEF ReturnError, Fail
<1>. QED
  BY <1>3, <1>4, <1>5, <1>6, <1>7 DEF Step

(* Each step leads where its operation may be.                             *)
LEMMA StepKind == ASSUME TypeOK, KindOK, Step PROVE KindOK'
<1>1. op' = Idle => KindOK'
  BY IdleFields, Zenon DEF KindOK, At
<1>2. SUFFICES ASSUME Continues PROVE KindOK'
  BY <1>1, StepContinues
<1>3. op \in OpType /\ op' \in OpType
  BY StepType DEF TypeOK, OpTypeOK
<1>4. CASE GrowEmpty \/ GrowContiguous \/ GrowChained \/ FollowTail \/ FoundTail \/ Claim \/ MarkUsed
  BY <1>2, <1>3, <1>4 DEF GrowEmpty, GrowContiguous, GrowChained, Growing, FollowTail, FoundTail, Claim,
     MarkUsed, Goto, OpType, Continues, KindOK, At
<1>5. CASE TerminateFirst \/ TerminateAdjacent \/ TerminateDetached \/ Materialize \/ Materialized
           \/ Link \/ Grown
  BY <1>2, <1>3, <1>5 DEF Terminate, TerminateFirst, TerminateAdjacent, TerminateDetached, Materialize,
     Materialized, Link, Grown, Goto, GrowAgain, OpType, Continues, KindOK, At
<1>6. CASE SeekContiguous \/ SeekChained \/ Walk
  BY <1>2, <1>3, <1>6 DEF SeekContiguous, SeekChained, Walk, OpType, Continues, KindOK, At
<1>7. CASE TransferChunk
  BY <1>1, <1>2, <1>3, <1>7 DEF TransferChunk, AfterTransfer, OpType, Continues, KindOK, At
<1>8. CASE KeepContiguous \/ KeepFollow \/ KeepFound \/ Cut
  <2>1. op.pc \in {"keep", "cut"} /\ op'.pc \in {"keep", "cut", "free"}
    BY <1>3, <1>8 DEF KeepContiguous, KeepFollow, KeepFound, Cut, OpType, At
  <2>2. op.kind \in {"truncate", "create"}
    BY <2>1 DEF KindOK
  <2>. QED
    BY <1>2, <2>1, <2>2 DEF Continues, KindOK, At
<1>9. CASE FreeLink
  BY <1>2, <1>3, <1>9 DEF FreeLink, OpType, Continues, KindOK, At
<1>10. CASE Unmark
  <2>1. CASE op' = [op EXCEPT !.pc = "free", !.cl = op.next, !.next = 0, !.left = op.left - 1]
             /\ (op.kind = "remove" => op.left # 1)
    <3>1. op'.pc = "free" /\ op'.left = op.left - 1 /\ op.left \in Nat
      BY <1>3, <2>1 DEF OpType
    <3>2. op.pc = "unmark"
      BY <1>10 DEF Unmark, At
    <3>. QED
      BY <1>2, <1>3, <2>1, <3>1, <3>2 DEF Continues, KindOK, At
  <2>. QED
    BY <1>1, <1>10, <2>1 DEF Unmark
<1>11. CASE Freed
  <2>1. op.kind \in {"truncate", "create"} /\ op'.pc = "stream"
    BY <1>3, <1>11 DEF Freed, KindOK, At, OpType
  <2>. QED
    BY <1>2, <2>1 DEF Continues, KindOK, At
<1>12. CASE ReturnError \/ Seal
  BY <1>1, <1>12 DEF ReturnError, Fail, Seal
<1>13. CASE Arrive
  BY <1>2, <1>3, <1>13 DEF Arrive, OpType, Continues, KindOK, At
<1>14. CASE UpdateStream
  BY <1>2, <1>3, <1>14 DEF UpdateStream, Goto, OpType, Continues, KindOK, At
<1>. QED
  BY <1>4, <1>5, <1>6, <1>7, <1>8, <1>9, <1>10, <1>11, <1>12, <1>13, <1>14 DEF Step

(* A length that is not zero takes a cluster.                              *)
LEMMA CeilPositive == \A n \in Nat : n # 0 => CeilDiv(n, ClusterBytes) # 0
BY Parameters DEF CeilDiv

(* A call starts its operation where it begins.                            *)
LEMMA CallKind == ASSUME TypeOK, KindOK, NEW f \in Files, Calls(f) PROVE KindOK'
<1>0. At("idle")
  BY DEF Calls, Open, Close, CreateAbsent, CreateExisting, Remove, Read, Write, StartTransfer,
     Append, Truncate
<1>1. CASE op' = op
  BY <1>1 DEF KindOK, At
<1>2. ASSUME op' # op PROVE KindOK'
  <2>1. CASE \E n \in 1..MaxLength : \/ Read(f, n)
                                   \/ \E v \in Payload[f] : Append(f, n, v) \/ Write(f, n, v)
    <3>1. \/ op'.kind = "append" /\ op'.pc = "grow"
          \/ op'.kind \in {"read", "write"} /\ op'.pc = "seek"
      BY <2>1, IdleFields DEF Read, Write, StartTransfer, Append, OpType
    <3>. QED
      BY <3>1 DEF KindOK, At
  <2>2. CASE Remove(f)
    <3>. DEFINE s == stream[f]
    <3>1. s.data \in Nat /\ (s.data # 0 => CeilDiv(s.data, ClusterBytes) # 0)
      BY CeilPositive DEF TypeOK, VolumeTypeOK, Stream
    <3>2. op' = Idle \/ (op'.kind = "remove" /\ op'.pc = "free" /\ op'.left # 0)
      BY <2>2, <3>1, IdleFields DEF Remove, OpType
    <3>. QED
      BY <3>2, IdleFields DEF KindOK, At
  <2>3. CASE CreateExisting(f) \/ \E len \in 0..MaxLength : Truncate(f, len)
    <3>1. /\ "truncate" \in Ops
          /\ \E h, len, kind : /\ kind \in {"create", "truncate"}
                               /\ BeginTruncate(f, h, len, kind)
      BY <2>3 DEF CreateExisting, Truncate
    <3>2. op'.kind \in {"create", "truncate"} /\ op'.pc \in {"stream", "free", "keep"}
      BY <3>1, IdleFields DEF BeginTruncate, OpType
    <3>. QED
      BY <3>1, <3>2 DEF KindOK, At
  <2>. QED
    BY <1>2, <2>1, <2>2, <2>3 DEF Calls, Open, Close, CreateAbsent
<1>. QED
  BY <1>1, <1>2

(* So operations are always where their own steps lead.                    *)
LEMMA KindInvariant == Spec => []KindOK
<1>1. Init => KindOK
  BY IdleFields DEF Init, KindOK, At
<1>2. ASSUME TypeOK, KindOK, [Next]_vars PROVE KindOK'
  <2>1. CASE RefreshFreeClusters \/ UNCHANGED vars
    <3>1. op' = op
      BY <2>1 DEF RefreshFreeClusters, vars
    <3>. QED
      BY <1>2, <3>1 DEF KindOK, At
  <2>2. CASE Remount \/ Crash \/ IoError \/ Cancel
    BY <2>2, IdleFields DEF Remount, Crash, Restart, IoError, Fail, Cancel, KindOK, At
  <2>. QED
    BY <1>2, <2>1, <2>2, StepKind, CallKind DEF Next
<1>. QED
  BY <1>1, <1>2, TypeCorrect, PTL DEF Spec

-----------------------------------------------------------------------------
(* Handles and records.                                                    *)

(* What the caller holds is what the volume has sealed, unless an operation *)
(* is changing it; append has put a good handle aside, truncate changes    *)
(* its own only when nothing can fail any more.                            *)
HandleMatches(f) == f \in live /\ handle[f].open /\ StreamOf(handle[f]) = sealed[f]

HandlesMatch == \A f \in Files : handle[f].open /\ op.file # f => HandleMatches(f)

CallMatches ==
    /\ op.kind = "append" =>
         mine.open /\ op.saved.open /\ op.file \in live /\ StreamOf(op.saved) = sealed[op.file]
    /\ op.kind \in {"read", "write"} => HandleMatches(op.file)
    /\ op.kind = "remove" => ~mine.open
    /\ op.kind \in {"truncate", "create"} => mine.open /\ op.file \in live
    /\ op.kind = "truncate" /\ op.pc \in {"keep", "cut", "free", "unmark"} => HandleMatches(op.file)
    /\ At("seal") => stream[op.file] = StreamOf(mine)

HandleInv == HandlesMatch /\ CallMatches

(* Where handles can be trusted: no device error strikes a truncate, which *)
(* does not put its handle back, and a caller that drops a future drops    *)
(* the handle with it.                                                     *)
HandlesTrusted ==
    /\ "truncate" \in Ops => "io" \notin Faults
    /\ "cancel" \in Faults => "abandon" \in Faults

(* A handle fresh from a record writes that record back.                   *)
LEMMA StreamOfOpenOn == \A s \in Stream : StreamOf(OpenOn(s)) = s /\ OpenOn(s).open
<1>1. ASSUME NEW s \in Stream PROVE StreamOf(OpenOn(s)) = s
  BY <1>1 DEF Stream, StreamOf, OpenOn
<1>. QED
  BY <1>1 DEF OpenOn

(* A dropped handle is not open.                                           *)
LEMMA ClosedIsNot == ~Closed.open
BY DEF Closed, OpenOn

(* The operation in progress and its file.                                 *)
LEMMA MatchCall ==
    ASSUME TypeOK, KindOK, HandleInv, ~At("idle")
    PROVE  /\ op \in OpType /\ op.file \in Files /\ op.file # None
           /\ mine = handle[op.file] /\ mine \in HandleType /\ handle \in [Files -> HandleType]
           /\ op.kind \in {"append", "read", "write", "remove", "truncate", "create"}
           /\ op.kind # "remove" => mine.open /\ op.file \in live
<1>1. /\ op \in OpType /\ op.file \in Files /\ mine = handle[op.file] /\ mine \in HandleType
  BY InProgress DEF mine
<1>2. op.kind \in {"append", "read", "write", "remove", "truncate", "create"}
  BY <1>1 DEF KindOK, OpType, Kinds
<1>3. op.kind # "remove" => mine.open /\ op.file \in live
  BY <1>1, <1>2 DEF HandleInv, CallMatches, HandleMatches
<1>. QED
  BY <1>1, <1>2, <1>3, Parameters DEF TypeOK, MemoryTypeOK

(* While an operation goes on, the other files' handles and records stay.  *)
LEMMA OthersMatch ==
    ASSUME TypeOK, KindOK, HandleInv, ~At("idle"), Continues, NEW h, SetMine(h),
           UNCHANGED <<live, sealed>>
    PROVE  HandlesMatch' /\ mine' = h
<1>1. /\ op.file \in Files /\ op'.file = op.file
      /\ handle' = [handle EXCEPT ![op.file] = h] /\ handle \in [Files -> HandleType]
  BY MatchCall DEF Continues, SetMine
<1>2. mine' = h /\ \A f \in Files : f # op.file => handle'[f] = handle[f]
  BY <1>1 DEF mine
<1>. QED
  BY <1>1, <1>2 DEF HandleInv, HandlesMatch, HandleMatches

(* When it ends, its own handle has to match, too.                         *)
LEMMA EndMatches ==
    ASSUME TypeOK, KindOK, HandleInv, ~At("idle"), op' = Idle, NEW h, SetMine(h),
           \A f \in Files : f # op.file => sealed'[f] = sealed[f], live' = live,
           h.open => op.file \in live /\ StreamOf(h) = sealed'[op.file]
    PROVE  HandleInv'
<1>1. /\ op.file \in Files
      /\ handle' = [handle EXCEPT ![op.file] = h] /\ handle \in [Files -> HandleType]
  BY MatchCall DEF SetMine
<1>2. ASSUME NEW f \in Files, handle'[f].open PROVE HandleMatches(f)'
  <2>1. CASE f = op.file
    BY <1>1, <1>2, <2>1 DEF HandleMatches
  <2>2. CASE f # op.file
    BY <1>1, <1>2, <2>2 DEF HandleInv, HandlesMatch, HandleMatches
  <2>. QED
    BY <2>1, <2>2
<1>3. HandlesMatch'
  BY <1>2 DEF HandlesMatch
<1>4. CallMatches'
  BY IdleFields DEF CallMatches, At
<1>. QED
  BY <1>3, <1>4 DEF HandleInv

(* Steps that leave every handle alone.                                    *)
LEMMA LocalMatches ==
    ASSUME TypeOK, KindOK, HandleInv, ~At("idle"), Continues,
           UNCHANGED <<live, sealed, handle>>, op'.pc # "seal",
           op'.pc \in {"keep", "cut", "free", "unmark"} =>
              op.pc \in {"keep", "cut", "free", "unmark"}
    PROVE  HandleInv'
<1>1. mine' = mine
  BY DEF mine, Continues
<1>. QED
  BY <1>1 DEF HandleInv, HandlesMatch, CallMatches, HandleMatches, Continues, At

(* The growth loop changes no record, and its own handle alone.            *)
LEMMA GrowMatches ==
    ASSUME TypeOK, KindOK, HandleInv,
           \/ GrowEmpty \/ GrowContiguous \/ GrowChained \/ FollowTail \/ FoundTail \/ Claim \/ MarkUsed
           \/ TerminateDetached \/ Materialize
    PROVE  HandleInv'
<1>1. ~At("idle") /\ op \in OpType
  BY MatchCall DEF GrowEmpty, GrowContiguous, GrowChained, Growing, FollowTail, FoundTail, Claim, MarkUsed,
     TerminateDetached, Terminate, Materialize, At
<1>2. CASE GrowEmpty \/ GrowContiguous \/ GrowChained \/ FollowTail \/ FoundTail
  <2>1. Continues /\ op'.pc \in {"claim", "tail"}
    BY <1>1, <1>2 DEF GrowEmpty, GrowContiguous, GrowChained, FollowTail, FoundTail, Goto, OpType,
       Continues, At
  <2>. QED
    BY <1>1, <1>2, <2>1, LocalMatches DEF GrowEmpty, GrowContiguous, GrowChained, FollowTail,
       FoundTail, device
<1>3. CASE Claim \/ MarkUsed \/ TerminateDetached \/ Materialize
  <2>1. Continues /\ op'.pc \in {"mark", "terminate", "materialize", "link"}
    BY <1>1, <1>3 DEF Claim, MarkUsed, TerminateDetached, Materialize, Goto, OpType, Continues, At
  <2>. QED
    BY <1>1, <1>3, <2>1, LocalMatches DEF Claim, MarkUsed, TerminateDetached, Materialize
<1>. QED
  BY <1>2, <1>3

(* The steps that give append's handle another cluster or its new length.  *)
LEMMA GrownMatches ==
    ASSUME TypeOK, KindOK, HandleInv,
           TerminateFirst \/ TerminateAdjacent \/ Materialized \/ Link \/ Grown
    PROVE  HandleInv'
<1>1. /\ ~At("idle") /\ op \in OpType /\ op.kind = "append" /\ mine \in HandleType /\ mine.open
      /\ UNCHANGED <<live, sealed>>
  BY MatchCall DEF TerminateFirst, TerminateAdjacent, Terminate, Materialized, Link, Grown, At, KindOK,
     device
<1>2. Continues /\ op'.pc \in {"grow", "link", "seek"}
  BY <1>1 DEF TerminateFirst, TerminateAdjacent, Materialized, Link, Grown, GrowAgain, Goto, OpType,
     Continues
<1>3. \E h : h.open /\ SetMine(h)
  <2>1. [mine EXCEPT !.first = op.new].open
    BY <1>1 DEF HandleType
  <2>2. \A h : h \in HandleType /\ h.open => AddCluster(h).open /\ Uncached(h).open
    BY DEF AddCluster, Uncached, HandleType
  <2>3. [mine EXCEPT !.first = op.new] \in HandleType
    BY <1>1, Zenon DEF HandleType, OpType
  <2>4. [mine EXCEPT !.nofat = FALSE] \in HandleType /\ [mine EXCEPT !.nofat = FALSE].open
    BY <1>1, Zenon DEF HandleType
  <2>5. [mine EXCEPT !.pos = mine.valid, !.valid = NewEnd].open
    BY <1>1 DEF HandleType
  <2>. QED
    BY <1>1, <2>1, <2>2, <2>3, <2>4, <2>5 DEF TerminateFirst, TerminateAdjacent, Materialized, Link, Grown
<1>4. PICK h : h.open /\ SetMine(h)
  BY <1>3
<1>5. HandlesMatch' /\ mine' = h
  BY <1>1, <1>2, <1>4, OthersMatch
<1>6. CallMatches'
  BY <1>1, <1>2, <1>4, <1>5 DEF HandleInv, CallMatches, Continues, At
<1>. QED
  BY <1>5, <1>6 DEF HandleInv

(* Reads, writes and their seeks change no more than the position and the  *)
(* cached cluster.                                                         *)
LEMMA SeekMatches ==
    ASSUME TypeOK, KindOK, HandleInv, SeekContiguous \/ SeekChained \/ Walk
    PROVE  HandleInv'
<1>1. ~At("idle") /\ op \in OpType
  BY MatchCall DEF SeekContiguous, SeekChained, Walk, At
<1>2. Continues /\ op'.pc \in {"transfer", "walk"}
  BY <1>1 DEF SeekContiguous, SeekChained, Walk, OpType, Continues, At
<1>. QED
  BY <1>1, <1>2, LocalMatches DEF SeekContiguous, SeekChained, Walk, device

(* Moving bytes leaves the length and the place a handle says.             *)
LEMMA MovedMatches ==
    ASSUME TypeOK, KindOK, HandleInv, ~At("idle"), op.kind \in {"append", "read", "write"},
           NEW h, SetMine(h), h.open, StreamOf(h) = StreamOf(mine), UNCHANGED <<live, sealed>>,
           op' = Idle => op.kind # "append",
           op' = Idle \/ (Continues /\ op'.pc \in {"seek", "transfer", "stream"})
    PROVE  HandleInv'
<1>1. CASE op' = Idle
  <2>1. op.file \in live /\ StreamOf(h) = sealed'[op.file]
    BY <1>1 DEF HandleInv, CallMatches, HandleMatches, mine
  <2>. QED
    BY <1>1, <2>1, EndMatches
<1>2. CASE Continues /\ op'.pc \in {"seek", "transfer", "stream"}
  <2>1. HandlesMatch' /\ mine' = h /\ op'.file = op.file /\ op'.kind = op.kind
    BY <1>2, OthersMatch DEF Continues
  <2>2. op.kind \in {"read", "write"} => HandleMatches(op.file)'
    BY <2>1 DEF HandleInv, CallMatches, HandleMatches, mine
  <2>3. CallMatches'
    BY <1>2, <2>1, <2>2 DEF HandleInv, CallMatches, Continues, At
  <2>. QED
    BY <2>1, <2>3 DEF HandleInv
<1>. QED
  BY <1>1, <1>2

(* Remembering a cluster does, too.                                        *)
LEMMA ArriveMatches == ASSUME TypeOK, KindOK, HandleInv, Arrive PROVE HandleInv'
<1>1. /\ ~At("idle") /\ op \in OpType /\ mine \in HandleType /\ mine.open
      /\ op.kind \in {"append", "read", "write"} /\ UNCHANGED <<live, sealed>>
  BY MatchCall DEF Arrive, At, KindOK, device
<1>. DEFINE h == [mine EXCEPT !.cachedIndex = Wanted, !.cachedCluster = op.cl]
<1>2. SetMine(h) /\ h.open /\ StreamOf(h) = StreamOf(mine)
  BY <1>1 DEF Arrive, HandleType, StreamOf
<1>3. Continues /\ op'.pc = "transfer"
  BY <1>1 DEF Arrive, Continues, OpType
<1>. HIDE DEF h
<1>4. op' # Idle
  BY <1>3, IdleFields
<1>. QED
  BY <1>1, <1>2, <1>3, <1>4, MovedMatches

(* The last chunk ends a read or a write; append goes on.                  *)
LEMMA TransferChunkMatches == ASSUME TypeOK, KindOK, HandleInv, TransferChunk PROVE HandleInv'
<1>1. /\ ~At("idle") /\ op \in OpType /\ mine \in HandleType /\ mine.open
      /\ op.kind \in {"append", "read", "write"} /\ UNCHANGED <<live, sealed>>
  BY MatchCall DEF TransferChunk, At, KindOK
<1>. DEFINE h == [mine EXCEPT !.pos = @ + Chunk]
<1>2. SetMine(h) /\ h.open /\ StreamOf(h) = StreamOf(mine)
  BY <1>1 DEF TransferChunk, HandleType, StreamOf
<1>3. op' = Idle \/ (Continues /\ op'.pc \in {"stream", "seek"})
  BY <1>1 DEF TransferChunk, AfterTransfer, Continues, OpType
<1>4. op.kind = "append" => op'.kind = "append"
  BY <1>1 DEF TransferChunk, AfterTransfer, OpType
<1>. HIDE DEF h
<1>5. op' = Idle => op.kind # "append"
  BY <1>4, IdleFields
<1>. QED
  BY <1>1, <1>2, <1>3, <1>5, MovedMatches

(* The record takes what the handle says, and the checksum covers it.      *)
LEMMA UpdateStreamMatches == ASSUME TypeOK, KindOK, HandleInv, UpdateStream PROVE HandleInv'
<1>1. /\ ~At("idle") /\ op \in OpType /\ op.file \in Files
      /\ UNCHANGED <<live, sealed, handle>>
      /\ stream' = [stream EXCEPT ![op.file] = StreamOf(mine)] /\ stream \in [Files -> Stream]
      /\ op.kind \in {"append", "truncate", "create"}
  BY MatchCall DEF UpdateStream, At, KindOK, TypeOK, VolumeTypeOK
<1>2. Continues /\ op'.pc = "seal" /\ mine' = mine
  BY <1>1 DEF UpdateStream, Goto, Continues, OpType, mine
<1>3. stream'[op'.file] = StreamOf(mine)'
  BY <1>1, <1>2 DEF Continues, StreamOf
<1>. QED
  BY <1>1, <1>2, <1>3 DEF HandleInv, HandlesMatch, CallMatches, HandleMatches, Continues, At

(* Sealing makes the handle of the file good.                              *)
LEMMA SealMatches == ASSUME TypeOK, KindOK, HandleInv, Seal PROVE HandleInv'
<1>1. /\ ~At("idle") /\ op.file \in Files /\ op.file \in live /\ mine = handle[op.file]
      /\ sealed' = [sealed EXCEPT ![op.file] = stream[op.file]] /\ sealed \in [Files -> Stream]
      /\ handle \in [Files -> HandleType]
  BY MatchCall DEF Seal, At, KindOK, TypeOK, VolumeTypeOK
<1>2. StreamOf(mine) = sealed'[op.file]
  BY <1>1 DEF HandleInv, CallMatches, Seal
<1>3. SetMine(mine)
  BY <1>1 DEF Seal, SetMine
<1>4. \A f \in Files : f # op.file => sealed'[f] = sealed[f]
  BY <1>1
<1>. QED
  BY <1>1, <1>2, <1>3, <1>4, EndMatches DEF Seal

-----------------------------------------------------------------------------
(* The steps of truncate and remove.                                       *)

(* The walk to the last cluster kept, and the release of the rest.         *)
LEMMA ReleaseMatches ==
    ASSUME TypeOK, KindOK, HandleInv, KeepContiguous \/ KeepFollow \/ KeepFound \/ Cut \/ FreeLink
    PROVE  HandleInv'
<1>1. ~At("idle") /\ op \in OpType
  BY MatchCall DEF KeepContiguous, KeepFollow, KeepFound, Cut, FreeLink, At
<1>2. CASE KeepContiguous \/ KeepFollow \/ KeepFound
  <2>1. Continues /\ op.pc = "keep" /\ op'.pc \in {"keep", "cut"}
    BY <1>1, <1>2 DEF KeepContiguous, KeepFollow, KeepFound, OpType, Continues, At
  <2>. QED
    BY <1>1, <1>2, <2>1, LocalMatches DEF KeepContiguous, KeepFollow, KeepFound, device
<1>3. CASE Cut \/ FreeLink
  <2>1. Continues /\ op.pc \in {"cut", "free"} /\ op'.pc \in {"free", "unmark"}
    BY <1>1, <1>3 DEF Cut, FreeLink, OpType, Continues, At
  <2>. QED
    BY <1>1, <1>3, <2>1, LocalMatches DEF Cut, FreeLink
<1>. QED
  BY <1>2, <1>3

(* The last bit that remove clears ends it.                                *)
LEMMA UnmarkMatches == ASSUME TypeOK, KindOK, HandleInv, Unmark PROVE HandleInv'
<1>1. /\ ~At("idle") /\ op \in OpType /\ op.pc = "unmark" /\ UNCHANGED <<live, sealed, handle>>
      /\ mine = handle[op.file] /\ op.file \in Files /\ handle \in [Files -> HandleType]
  BY MatchCall DEF Unmark, At
<1>2. CASE op' = Idle /\ op.kind = "remove"
  <2>1. ~mine.open /\ SetMine(mine)
    BY <1>1, <1>2 DEF HandleInv, CallMatches, SetMine
  <2>. QED
    BY <1>1, <1>2, <2>1, EndMatches
<1>3. CASE op' = [op EXCEPT !.pc = "free", !.cl = op.next, !.next = 0, !.left = op.left - 1]
  <2>1. Continues /\ op'.pc = "free"
    BY <1>1, <1>3 DEF OpType, Continues
  <2>. QED
    BY <1>1, <2>1, LocalMatches
<1>. QED
  BY <1>2, <1>3 DEF Unmark

(* Only when all is released does truncate change its handle.              *)
LEMMA FreedMatches == ASSUME TypeOK, KindOK, HandleInv, Freed PROVE HandleInv'
<1>1. /\ ~At("idle") /\ op \in OpType /\ op.kind \in {"truncate", "create"} /\ mine \in HandleType
      /\ mine.open /\ UNCHANGED <<live, sealed>>
  <2>1. ~At("idle") /\ op.kind # "remove" /\ op.pc = "free"
    BY MatchCall DEF Freed, At, KindOK
  <2>. QED
    BY <2>1, MatchCall DEF Freed, At, KindOK, device
<1>2. Continues /\ op'.pc = "stream"
  BY <1>1 DEF Freed, OpType, Continues
<1>3. \E h : h.open /\ SetMine(h)
  <2>1. \A first \in {0} \cup Clusters, n \in Nat :
          /\ [mine EXCEPT !.first = first, !.data = n] \in HandleType
          /\ [mine EXCEPT !.first = first, !.data = n].open
    BY <1>1, Zenon DEF HandleType
  <2>2. Kept * ClusterBytes \in Nat /\ (IF Kept = 0 THEN 0 ELSE mine.first) \in {0} \cup Clusters
    BY <1>1, KeptType, Parameters DEF HandleType
  <2>3. \A h \in HandleType : h.open => Uncached(h) \in HandleType /\ Uncached(h).open
    BY UncachedType DEF Uncached, HandleType
  <2>4. \A h \in HandleType : \A n : h.open => Clip(h, n).open
    BY DEF Clip, HandleType
  <2>. QED
    BY <2>1, <2>2, <2>3, <2>4 DEF Freed
<1>4. PICK h : h.open /\ SetMine(h)
  BY <1>3
<1>5. HandlesMatch' /\ mine' = h
  BY <1>1, <1>2, <1>4, OthersMatch
<1>6. CallMatches'
  BY <1>1, <1>2, <1>4, <1>5 DEF HandleInv, CallMatches, Continues, At
<1>. QED
  BY <1>5, <1>6 DEF HandleInv

-----------------------------------------------------------------------------
(* How operations stop.                                                    *)

(* An error return puts a matching handle back: append the one it set      *)
(* aside, create none, the others the one they did not change.             *)
LEMMA FailMatches ==
    ASSUME TypeOK, KindOK, HandleInv, ~At("idle"), Fail,
           op.kind = "truncate" => op.pc \in {"keep", "cut", "free", "unmark"}
    PROVE  HandleInv'
<1>1. /\ op.file \in Files /\ mine = handle[op.file] /\ UNCHANGED <<live, sealed>>
      /\ op.kind \in {"append", "read", "write", "remove", "truncate", "create"}
  BY MatchCall DEF Fail, device
<1>2. CASE op.kind = "append"
  <2>1. SetMine(op.saved) /\ op.file \in live /\ StreamOf(op.saved) = sealed'[op.file]
    BY <1>1, <1>2 DEF Fail, HandleInv, CallMatches
  <2>. QED
    BY <1>1, <2>1, EndMatches DEF Fail
<1>3. CASE op.kind = "create"
  <2>1. SetMine(Closed) /\ ~Closed.open
    BY <1>3, ClosedIsNot DEF Fail
  <2>. QED
    BY <1>1, <2>1, EndMatches DEF Fail
<1>4. CASE op.kind \in {"read", "write", "remove", "truncate"}
  <2>1. SetMine(mine)
    BY <1>4 DEF Fail
  <2>2. mine.open => op.file \in live /\ StreamOf(mine) = sealed'[op.file]
    BY <1>1, <1>4 DEF HandleInv, CallMatches, HandleMatches
  <2>. QED
    BY <1>1, <2>1, <2>2, EndMatches DEF Fail
<1>. QED
  BY <1>1, <1>2, <1>3, <1>4

(* A check that fails inside truncate fails before its handle changes.     *)
LEMMA ReturnErrorMatches == ASSUME TypeOK, KindOK, HandleInv, ReturnError PROVE HandleInv'
<1>1. op.pc \in {"grow", "tail", "claim", "mark", "link", "seek", "walk", "keep", "cut", "free", "unmark"}
  BY DEF ReturnError, CheckFails, Growing, At
<1>2. op.kind = "truncate" => op.pc \in {"keep", "cut", "free", "unmark"}
  BY <1>1 DEF KindOK
<1>3. ~At("idle")
  BY <1>1 DEF At
<1>. QED
  BY <1>2, <1>3, FailMatches DEF ReturnError

(* A device error, where handles can be trusted.                           *)
LEMMA IoErrorMatches == ASSUME TypeOK, KindOK, HandlesTrusted, HandleInv, IoError PROVE HandleInv'
<1>1. op.kind # "truncate" /\ ~At("idle")
  BY DEF IoError, IoLabels, HandlesTrusted, KindOK, At
<1>. QED
  BY <1>1, FailMatches DEF IoError

(* A dropped future, where its handle goes with it.                        *)
LEMMA CancelMatches == ASSUME TypeOK, KindOK, HandlesTrusted, HandleInv, Cancel PROVE HandleInv'
<1>1. ~At("idle") /\ SetMine(Closed) /\ ~Closed.open /\ UNCHANGED <<live, sealed>> /\ op' = Idle
  BY ClosedIsNot DEF Cancel, IoLabels, At, HandlesTrusted, device
<1>. QED
  BY <1>1, EndMatches

(* After a mount nobody holds a handle.                                    *)
LEMMA RestartMatches == ASSUME TypeOK, KindOK, HandleInv, Restart PROVE HandleInv'
<1>1. \A f \in Files : ~handle'[f].open
  BY ClosedIsNot DEF Restart
<1>. QED
  BY <1>1, IdleFields DEF Restart, HandleInv, HandlesMatch, CallMatches, At

-----------------------------------------------------------------------------
(* Calls.                                                                  *)

(* Between operations every open handle matches.                           *)
LEMMA IdleMatches ==
    ASSUME TypeOK, KindOK, HandleInv, At("idle")
    PROVE  /\ op = Idle /\ handle \in [Files -> HandleType] /\ live \subseteq Files
           /\ stream \in [Files -> Stream] /\ sealed \in [Files -> Stream]
           /\ \A f \in Files : handle[f].open => HandleMatches(f)
BY IdleFields, Parameters DEF KindOK, HandleInv, HandlesMatch, TypeOK, MemoryTypeOK, VolumeTypeOK

(* A call that only gives or takes a handle.                               *)
LEMMA HandleCallMatches ==
    ASSUME TypeOK, KindOK, HandleInv, At("idle"), NEW f \in Files, NEW h,
           h.open => f \in live' /\ StreamOf(h) = sealed'[f],
           handle' = [handle EXCEPT ![f] = h], op' = op,
           \A g \in Files : g # f => sealed'[g] = sealed[g], live \subseteq live'
    PROVE  HandleInv'
<1>1. \A g \in Files : handle'[g].open => HandleMatches(g)'
  BY IdleMatches DEF HandleMatches
<1>2. op' = Idle
  BY IdleMatches
<1>. QED
  BY <1>1, <1>2, IdleFields DEF HandleInv, HandlesMatch, CallMatches, At

(* Opening, creating and dropping.                                         *)
LEMMA OpenCloseMatches ==
    ASSUME TypeOK, KindOK, HandleInv, NEW f \in Files, Open(f) \/ Close(f) \/ CreateAbsent(f)
    PROVE  HandleInv'
<1>1. At("idle") /\ op' = op
  BY DEF Open, Close, CreateAbsent
<1>2. CASE Close(f)
  BY <1>1, <1>2, ClosedIsNot, HandleCallMatches DEF Close, device
<1>3. CASE Open(f)
  <2>1. StreamOf(OpenOn(stream[f])) = sealed[f] /\ f \in live
    BY <1>1, <1>3, IdleMatches, StreamOfOpenOn DEF Open, Intact
  <2>. QED
    BY <1>1, <1>3, <2>1, HandleCallMatches DEF Open, device
<1>4. CASE CreateAbsent(f)
  <2>1. StreamOf(OpenOn(NoStream)) = NoStream
    BY NoStreamType, StreamOfOpenOn
  <2>2. sealed'[f] = NoStream /\ \A g \in Files : g # f => sealed'[g] = sealed[g]
    BY <1>1, <1>4, IdleMatches DEF CreateAbsent
  <2>. QED
    BY <1>1, <1>4, <2>1, <2>2, HandleCallMatches DEF CreateAbsent
<1>. QED
  BY <1>2, <1>3, <1>4

(* append puts the good handle aside.                                      *)
LEMMA AppendMatches ==
    ASSUME TypeOK, KindOK, HandleInv, NEW f \in Files, NEW n, NEW v, Append(f, n, v)
    PROVE  HandleInv'
<1>1. /\ At("idle") /\ handle[f].open /\ handle' = [handle EXCEPT ![f] = Uncached(handle[f])]
      /\ UNCHANGED <<live, sealed>> /\ handle[f] \in HandleType
  BY IdleMatches DEF Append, device
<1>2. HandleMatches(f) /\ Uncached(handle[f]).open
  BY <1>1, IdleMatches DEF Uncached, HandleType
<1>3. /\ op'.kind = "append" /\ op'.file = f /\ op'.saved = handle[f] /\ op'.pc = "grow"
  BY IdleFields DEF Append, OpType
<1>4. mine'.open
  BY <1>1, <1>2, <1>3, IdleMatches DEF mine
<1>5. CallMatches'
  BY <1>1, <1>2, <1>3, <1>4 DEF CallMatches, HandleMatches, At
<1>6. HandlesMatch'
  BY <1>1, <1>3, IdleMatches DEF HandlesMatch, HandleMatches
<1>. QED
  BY <1>5, <1>6 DEF HandleInv

(* read and write start from a good handle.                                *)
LEMMA StartTransferMatches ==
    ASSUME TypeOK, KindOK, HandleInv, NEW f \in Files, NEW n \in Nat, NEW v,
           NEW kind \in {"read", "write"}, StartTransfer(f, n, v, kind)
    PROVE  HandleInv'
<1>1. At("idle") /\ HandleMatches(f) /\ UNCHANGED <<live, sealed, handle>>
  BY IdleMatches DEF StartTransfer, device
<1>2. op'.kind = kind /\ op'.file = f /\ op'.pc = "seek"
  BY IdleFields DEF StartTransfer, OpType
<1>3. CallMatches'
  BY <1>1, <1>2 DEF CallMatches, HandleMatches, At
<1>. QED
  BY <1>1, <1>2, <1>3, IdleMatches DEF HandleInv, HandlesMatch, HandleMatches

(* remove needs the file to have no handle.                                *)
LEMMA RemoveMatches ==
    ASSUME TypeOK, KindOK, HandleInv, NEW f \in Files, Remove(f)
    PROVE  HandleInv'
<1>1. /\ At("idle") /\ ~handle[f].open /\ live' = live \ {f} /\ UNCHANGED <<sealed, handle>>
  BY DEF Remove
<1>2. \A g \in Files : handle'[g].open => HandleMatches(g)'
  BY <1>1, IdleMatches DEF HandleMatches
<1>3. \/ op' = Idle
      \/ op'.kind = "remove" /\ op'.file = f /\ op'.pc = "free"
  BY IdleFields DEF Remove, OpType
<1>4. CallMatches'
  BY <1>1, <1>3, IdleFields DEF CallMatches, At, mine
<1>. QED
  BY <1>2, <1>4 DEF HandleInv, HandlesMatch

(* truncate, and create of a file that is there, begin with the handle as  *)
(* it is; when no cluster goes they have already clipped it.               *)
LEMMA BeginTruncateMatches ==
    ASSUME TypeOK, KindOK, HandleInv, At("idle"), NEW f \in Files, NEW h \in HandleType, NEW len,
           NEW kind \in {"create", "truncate"}, BeginTruncate(f, h, len, kind),
           UNCHANGED device, h.open, f \in live, StreamOf(h) = sealed[f]
    PROVE  HandleInv'
<1>1. op'.kind = kind /\ op'.file = f /\ op'.pc \in {"stream", "free", "keep"}
  BY IdleFields DEF BeginTruncate, OpType
<1>2. \/ handle' = [handle EXCEPT ![f] = Clip(h, len)] /\ op'.pc = "stream"
      \/ handle' = [handle EXCEPT ![f] = h]
  BY IdleFields DEF BeginTruncate, OpType
<1>3. Clip(h, len).open
  BY DEF Clip, HandleType
<1>4. \A g \in Files : g # f /\ handle'[g].open => HandleMatches(g)'
  BY <1>2, IdleMatches DEF HandleMatches, device
<1>5. mine'.open /\ (op'.pc # "stream" => HandleMatches(f)')
  BY <1>1, <1>2, <1>3, IdleMatches DEF mine, HandleMatches, device
<1>6. CallMatches'
  BY <1>1, <1>5 DEF CallMatches, HandleMatches, At, mine, device
<1>. QED
  BY <1>1, <1>4, <1>6 DEF HandleInv, HandlesMatch

(* truncate, and create of a file that is there.                           *)
LEMMA TruncateMatches ==
    ASSUME TypeOK, KindOK, HandleInv, NEW f \in Files,
           CreateExisting(f) \/ \E len \in 0..MaxLength : Truncate(f, len)
    PROVE  HandleInv'
<1>1. CASE CreateExisting(f)
  <2>1. /\ OpenOn(stream[f]) \in HandleType /\ OpenOn(stream[f]).open /\ f \in live
        /\ StreamOf(OpenOn(stream[f])) = sealed[f]
    BY <1>1, IdleMatches, OpenOnType, StreamOfOpenOn DEF CreateExisting, Intact
  <2>. QED
    BY <1>1, <2>1, BeginTruncateMatches DEF CreateExisting
<1>2. ASSUME NEW len, Truncate(f, len) PROVE HandleInv'
  <2>1. handle[f] \in HandleType /\ HandleMatches(f)
    BY <1>2, IdleMatches DEF Truncate
  <2>. QED
    BY <1>2, <2>1, BeginTruncateMatches DEF Truncate, HandleMatches
<1>. QED
  BY <1>1, <1>2

(* Every step keeps handles and records together.                          *)
LEMMA NextMatches ==
    ASSUME TypeOK, KindOK, HandlesTrusted, HandleInv, [Next]_vars
    PROVE  HandleInv'
<1>1. CASE RefreshFreeClusters \/ UNCHANGED vars
  <2>1. UNCHANGED <<live, stream, sealed, handle, op>>
    BY <1>1 DEF RefreshFreeClusters, vars, device
  <2>. QED
    BY <2>1 DEF HandleInv, HandlesMatch, CallMatches, HandleMatches, At, mine
<1>2. CASE Step
  BY <1>2, GrowMatches, GrownMatches, SeekMatches, ArriveMatches, TransferChunkMatches,
     UpdateStreamMatches, SealMatches, ReleaseMatches, UnmarkMatches, FreedMatches,
     ReturnErrorMatches DEF Step
<1>3. ASSUME NEW f \in Files, Calls(f) PROVE HandleInv'
  <2>1. CASE Open(f) \/ Close(f) \/ CreateAbsent(f) \/ Remove(f)
    BY <2>1, OpenCloseMatches, RemoveMatches
  <2>2. CASE CreateExisting(f) \/ \E len \in 0..MaxLength : Truncate(f, len)
    BY <2>2, TruncateMatches
  <2>3. ASSUME NEW n \in 1..MaxLength, Read(f, n) PROVE HandleInv'
    BY <2>3, StartTransferMatches DEF Read
  <2>4. ASSUME NEW n \in 1..MaxLength, NEW v, Append(f, n, v) \/ Write(f, n, v) PROVE HandleInv'
    BY <2>4, AppendMatches, StartTransferMatches DEF Write
  <2>. QED
    BY <1>3, <2>1, <2>2, <2>3, <2>4 DEF Calls
<1>4. CASE Remount \/ Crash
  BY <1>4, RestartMatches DEF Remount, Crash
<1>. QED
  BY <1>1, <1>2, <1>3, <1>4, IoErrorMatches, CancelMatches DEF Next

(* So they always are, where handles can be trusted.                       *)
LEMMA HandleInvariant == ASSUME HandlesTrusted PROVE Spec => []HandleInv
<1>1. Init => HandleInv
  BY ClosedIsNot, IdleFields DEF Init, HandleInv, HandlesMatch, CallMatches, At
<1>2. TypeOK /\ KindOK /\ HandleInv /\ [Next]_vars => HandleInv'
  BY NextMatches
<1>. QED
  BY <1>1, <1>2, TypeCorrect, KindInvariant, PTL DEF Spec

(* After any error, power cut or abandoned future, an open handle says of  *)
(* its file what an intact record says (restore_on_err, create's own       *)
(* handle), as long as no device error strikes a truncate and no caller    *)
(* keeps the handle of a future it has dropped.                            *)
THEOREM HandlesCoherent == ASSUME HandlesTrusted PROVE Spec => []HandleCoherent
<1>1. TypeOK /\ HandleInv => HandleCoherent
  BY DEF HandleInv, HandlesMatch, HandleMatches, HandleCoherent, Intact
<1>. QED
  BY <1>1, TypeCorrect, HandleInvariant, PTL

-----------------------------------------------------------------------------
(* Lengths.                                                                *)

(* The files that were there have whole clusters, as append makes them.    *)
WholeClusters == \A f \in DOMAIN Preexisting : Preexisting[f].data % ClusterBytes = 0

(* valid_length does not exceed data_length.                               *)
Fits(s) == s.valid <= s.data /\ (WholeClusters => s.data % ClusterBytes = 0)

Moving == op.pc \in {"seek", "walk", "transfer"}

CallFits ==
    /\ op.kind = "append" =>
         /\ op.n \in Nat \ {0}
         /\ mine.valid = IF Moving \/ op.pc \in {"stream", "seal"} THEN NewEnd ELSE op.saved.valid
    /\ Moving =>
         /\ op.rem \in Nat \ {0} /\ mine.pos + op.rem <= mine.valid
         /\ op.kind = "append" => mine.pos + op.rem = mine.valid

LengthsOK ==
    /\ \A f \in Files : Fits(stream[f]) /\ Fits(sealed[f]) /\ Fits(handle[f])
    /\ Fits(op.saved)
    /\ CallFits

(* Whole clusters stay whole when one is added, and the clusters kept of a *)
(* length hold it.                                                         *)
LEMMA WholeLengths ==
    ASSUME NEW d \in Nat
    PROVE  /\ d + ClusterBytes \in Nat /\ (d + ClusterBytes) % ClusterBytes = d % ClusterBytes
           /\ 0 % ClusterBytes = 0
           /\ (CeilDiv(d, ClusterBytes) * ClusterBytes) % ClusterBytes = 0
           /\ d <= CeilDiv(d, ClusterBytes) * ClusterBytes
<1>. DEFINE b == ClusterBytes
            q == d \div b
            r == d % b
            k == CeilDiv(d, b)
<1>1. b \in Nat \ {0} /\ q \in Nat /\ r \in 0..(b - 1) /\ d = b * q + r
  BY Parameters
<1>2. d + b \in Nat /\ d + b = b * (q + 1) + r /\ q + 1 \in Nat
  BY <1>1
<1>3. (d + b) % b = r
  <2>1. (d + b) \div b = q + 1
    BY <1>1, <1>2
  <2>2. d + b = b * ((d + b) \div b) + ((d + b) % b) /\ (d + b) % b \in 0..(b - 1)
    BY <1>1, <1>2
  <2>. HIDE DEF q, r
  <2>. QED
    BY <1>1, <1>2, <2>1, <2>2
<1>4. k \in Nat /\ k * b \in Nat
  BY <1>1, DivisionType
<1>5. (k * b) % b = 0
  <2>1. k * b = b * k + 0 /\ 0 \in 0..(b - 1)
    BY <1>1, <1>4
  <2>. HIDE DEF k
  <2>. QED
    BY <1>1, <1>4, <2>1
<1>6. 0 % b = 0
  BY <1>1
<1>7. d <= k * b
  <2>1. k = (d + b - 1) \div b /\ d + b - 1 \in Nat
    BY <1>1 DEF CeilDiv
  <2>2. d + b - 1 = b * k + ((d + b - 1) % b) /\ (d + b - 1) % b <= b - 1
    BY <1>1, <2>1
  <2>3. b * k = k * b
    BY <1>1, <1>4
  <2>. HIDE DEF k
  <2>. QED
    BY <1>1, <1>4, <2>2, <2>3
<1>. QED
  BY <1>2, <1>3, <1>4, <1>5, <1>6, <1>7

(* Nothing fits into nothing.                                              *)
LEMMA EmptyFits == Fits(NoStream) /\ Fits(Closed) /\ Fits(OpenOn(NoStream))
<1>1. /\ NoStream.valid = 0 /\ NoStream.data = 0 /\ Closed.valid = 0 /\ Closed.data = 0
      /\ OpenOn(NoStream).valid = 0 /\ OpenOn(NoStream).data = 0
  BY DEF NoStream, OpenOn, Closed
<1>. QED
  BY <1>1, WholeLengths DEF Fits

(* A record of the same lengths fits as well.                              *)
LEMMA SameFits ==
    ASSUME NEW s, NEW t, Fits(s), t.valid = s.valid, t.data = s.data
    PROVE  Fits(t)
BY DEF Fits

(* A step that leaves the lengths alone, and the locals that bound them.   *)
LEMMA LocalFits ==
    ASSUME TypeOK, LengthsOK, ~At("idle"), op \in OpType, Continues,
           UNCHANGED <<stream, sealed, handle>>,
           Moving' => Moving /\ op'.rem = op.rem,
           op.kind = "append" => (Moving' \/ op'.pc \in {"stream", "seal"} <=>
                                  Moving \/ op.pc \in {"stream", "seal"})
    PROVE  LengthsOK'
<1>1. mine' = mine
  BY DEF mine, Continues
<1>2. NewEnd' = NewEnd
  BY DEF NewEnd, Continues
<1>. QED
  BY <1>1, <1>2 DEF LengthsOK, CallFits, Continues, Fits

(* A step that changes its own handle, too.                                *)
LEMMA MineFits ==
    ASSUME TypeOK, LengthsOK, ~At("idle"), Continues, NEW h, SetMine(h), Fits(h),
           UNCHANGED <<stream, sealed>>,
           op.kind = "append" =>
               h.valid = IF Moving' \/ op'.pc \in {"stream", "seal"} THEN NewEnd ELSE op.saved.valid,
           Moving' => /\ op'.rem \in Nat \ {0} /\ h.pos + op'.rem <= h.valid
                      /\ op.kind = "append" => h.pos + op'.rem = h.valid
    PROVE  LengthsOK'
<1>1. op.file \in Files /\ handle \in [Files -> HandleType] /\ handle' = [handle EXCEPT ![op.file] = h]
  BY InProgress DEF SetMine, TypeOK, MemoryTypeOK
<1>2. mine' = h /\ \A f \in Files : f # op.file => handle'[f] = handle[f]
  BY <1>1 DEF mine, Continues
<1>3. handle'[op.file] = h
  BY <1>1
<1>4. NewEnd' = NewEnd
  BY DEF NewEnd, Continues
<1>5. CallFits'
  BY <1>2, <1>4 DEF LengthsOK, CallFits, Continues
<1>6. Fits(op.saved)'
  BY DEF LengthsOK, Continues, Fits
<1>7. \A f \in Files : (Fits(stream[f]) /\ Fits(sealed[f]) /\ Fits(handle[f]))'
  BY <1>2, <1>3 DEF LengthsOK, Fits
<1>. QED
  BY <1>5, <1>6, <1>7 DEF LengthsOK

(* The end of an operation, or a power cut.                                *)
LEMMA EndFits ==
    ASSUME LengthsOK, op' = Idle, UNCHANGED stream,
           \A f \in Files : Fits(handle'[f]) /\ Fits(sealed'[f])
    PROVE  LengthsOK'
<1>1. Fits(op.saved)'
  BY IdleFields, EmptyFits
<1>2. CallFits'
  BY IdleFields DEF CallFits, Moving
<1>3. \A f \in Files : Fits(stream[f])'
  BY DEF LengthsOK, Fits
<1>. QED
  BY <1>1, <1>2, <1>3 DEF LengthsOK, Fits

(* The steps of append that look for a cluster and claim it.               *)
LEMMA GrowFits ==
    ASSUME TypeOK, KindOK, LengthsOK,
           \/ GrowEmpty \/ GrowContiguous \/ GrowChained \/ FollowTail \/ FoundTail \/ Claim \/ MarkUsed
           \/ TerminateDetached \/ Materialize
    PROVE  LengthsOK'
<1>1. ~At("idle")
  BY DEF GrowEmpty, GrowContiguous, GrowChained, Growing, FollowTail, FoundTail, Claim, MarkUsed,
     TerminateDetached, Terminate, Materialize, At
<1>2. op \in OpType
  BY <1>1, InProgress
<1>3. op.pc \in {"grow", "tail", "claim", "mark", "terminate", "materialize"}
  BY DEF GrowEmpty, GrowContiguous, GrowChained, Growing, FollowTail, FoundTail, Claim, MarkUsed,
     TerminateDetached, Terminate, Materialize, At
<1>4. CASE GrowEmpty \/ GrowContiguous \/ GrowChained \/ FollowTail \/ FoundTail
  <2>1. Continues /\ op'.pc \in {"claim", "tail"} /\ UNCHANGED <<stream, sealed, handle>>
    BY <1>2, <1>4 DEF GrowEmpty, GrowContiguous, GrowChained, FollowTail, FoundTail, Goto, OpType,
       Continues, At, device
  <2>. QED
    BY <1>1, <1>2, <1>3, <2>1, LocalFits DEF Moving
<1>5. CASE Claim \/ MarkUsed \/ TerminateDetached \/ Materialize
  <2>1. /\ Continues /\ op'.pc \in {"mark", "terminate", "materialize", "link"}
        /\ UNCHANGED <<stream, sealed, handle>>
    BY <1>2, <1>5 DEF Claim, MarkUsed, TerminateDetached, Materialize, Goto, OpType, Continues, At
  <2>. QED
    BY <1>1, <1>2, <1>3, <2>1, LocalFits DEF Moving
<1>. QED
  BY <1>4, <1>5

(* A cluster more is room, not length.                                     *)
LEMMA AddClusterFits ==
    ASSUME NEW h \in HandleType, Fits(h)
    PROVE  /\ AddCluster(h) \in HandleType /\ Fits(AddCluster(h))
           /\ AddCluster(h).valid = h.valid /\ AddCluster(h).data = h.data + ClusterBytes
           /\ AddCluster(h).open = h.open
<1>1. h.data \in Nat /\ h.valid \in Nat
  BY DEF HandleType
<1>2. /\ AddCluster(h) \in HandleType /\ AddCluster(h).data = h.data + ClusterBytes
      /\ AddCluster(h).valid = h.valid /\ AddCluster(h).open = h.open
  BY AddClusterType DEF AddCluster, HandleType
<1>3. (h.data + ClusterBytes) % ClusterBytes = h.data % ClusterBytes
  BY <1>1, WholeLengths
<1>4. h.valid <= h.data + ClusterBytes
  BY <1>1, Parameters DEF Fits
<1>5. Fits(AddCluster(h))
  BY <1>2, <1>3, <1>4 DEF Fits
<1>. QED
  BY <1>2, <1>5

(* The steps that give its handle a cluster, or make it a chain.           *)
LEMMA GrownFits ==
    ASSUME TypeOK, KindOK, LengthsOK, TerminateFirst \/ TerminateAdjacent \/ Materialized \/ Link
    PROVE  LengthsOK'
<1>1. /\ ~At("idle") /\ op.kind = "append" /\ ~Moving /\ op.pc \notin {"stream", "seal"}
      /\ UNCHANGED <<stream, sealed>>
  BY DEF TerminateFirst, TerminateAdjacent, Terminate, Materialized, Link, At, KindOK, Moving, device
<1>2. op \in OpType /\ mine \in HandleType /\ Fits(mine) /\ mine.valid = op.saved.valid
  BY <1>1, InProgress DEF LengthsOK, CallFits, mine
<1>3. Continues /\ op'.pc \in {"grow", "link"}
  BY <1>2 DEF TerminateFirst, TerminateAdjacent, Materialized, Link, GrowAgain, Goto, OpType, Continues
<1>4. \E h : SetMine(h) /\ Fits(h) /\ h.valid = op.saved.valid
  <2>1. CASE TerminateAdjacent \/ Link
    BY <1>2, <2>1, AddClusterFits DEF TerminateAdjacent, Link
  <2>2. CASE TerminateFirst
    <3>. DEFINE h == [mine EXCEPT !.first = op.new]
    <3>1. h \in HandleType
      BY <1>2, Zenon DEF HandleType, OpType
    <3>2. h.valid = mine.valid /\ h.data = mine.data
      BY <1>2 DEF HandleType
    <3>3. Fits(h)
      BY <1>2, <3>2, SameFits
    <3>. HIDE DEF h
    <3>4. Fits(AddCluster(h)) /\ AddCluster(h).valid = op.saved.valid
      BY <1>2, <3>1, <3>2, <3>3, AddClusterFits
    <3>. QED
      BY <2>2, <3>4 DEF TerminateFirst, h
  <2>3. CASE Materialized
    <3>. DEFINE h == [mine EXCEPT !.nofat = FALSE]
    <3>1. h \in HandleType
      BY <1>2, Zenon DEF HandleType
    <3>2. Uncached(h).valid = mine.valid /\ Uncached(h).data = mine.data
      BY <1>2, <3>1 DEF HandleType, Uncached
    <3>. HIDE DEF h
    <3>3. Fits(Uncached(h)) /\ Uncached(h).valid = op.saved.valid
      BY <1>2, <3>2, SameFits
    <3>. QED
      BY <2>3, <3>3 DEF Materialized, h
  <2>. QED
    BY <2>1, <2>2, <2>3
<1>5. PICK h : SetMine(h) /\ Fits(h) /\ h.valid = op.saved.valid
  BY <1>4
<1>6. ~Moving' /\ op'.pc \notin {"stream", "seal"}
  BY <1>3 DEF Moving
<1>. QED
  BY <1>1, <1>3, <1>5, <1>6, MineFits

(* The handle takes the new length when the clusters suffice.              *)
LEMMA GrownLength == ASSUME TypeOK, KindOK, LengthsOK, Grown PROVE LengthsOK'
<1>1. /\ ~At("idle") /\ op.kind = "append" /\ ~Moving /\ op.pc \notin {"stream", "seal"}
      /\ UNCHANGED <<stream, sealed>> /\ mine.data >= NewEnd
  BY DEF Grown, At, KindOK, Moving, device
<1>2. /\ op \in OpType /\ mine \in HandleType /\ Fits(mine) /\ mine.valid = op.saved.valid
      /\ op.n \in Nat \ {0}
  BY <1>1, InProgress DEF LengthsOK, CallFits, mine
<1>3. NewEnd \in Nat /\ NewEnd = mine.valid + op.n /\ mine.valid \in Nat /\ mine.data \in Nat
  BY <1>2 DEF NewEnd, HandleType
<1>. DEFINE h == [mine EXCEPT !.pos = mine.valid, !.valid = NewEnd]
<1>4. h.pos = mine.valid /\ h.valid = NewEnd /\ h.data = mine.data
  BY <1>2 DEF HandleType
<1>5. SetMine(h)
  BY DEF Grown
<1>. HIDE DEF h
<1>6. Fits(h)
  BY <1>1, <1>2, <1>3, <1>4 DEF Fits
<1>7. Continues /\ op'.pc = "seek" /\ op'.rem = op.n
  BY <1>2 DEF Grown, OpType, Continues
<1>8. h.pos + op'.rem = h.valid /\ h.pos + op'.rem <= h.valid
  BY <1>2, <1>3, <1>4, <1>7
<1>. QED
  BY <1>1, <1>2, <1>4, <1>5, <1>6, <1>7, <1>8, MineFits DEF Moving

(* Looking for the cluster of a position.                                  *)
LEMMA SeekFits ==
    ASSUME TypeOK, KindOK, LengthsOK, SeekContiguous \/ SeekChained \/ Walk
    PROVE  LengthsOK'
<1>1. ~At("idle") /\ Moving
  BY DEF SeekContiguous, SeekChained, Walk, At, Moving
<1>2. op \in OpType
  BY <1>1, InProgress
<1>3. /\ Continues /\ op'.pc \in {"transfer", "walk"} /\ op'.rem = op.rem
      /\ UNCHANGED <<stream, sealed, handle>>
  BY <1>2 DEF SeekContiguous, SeekChained, Walk, OpType, Continues, At, device
<1>. QED
  BY <1>1, <1>2, <1>3, LocalFits DEF Moving

(* Remembering it.                                                         *)
LEMMA ArriveFits == ASSUME TypeOK, KindOK, LengthsOK, Arrive PROVE LengthsOK'
<1>1. ~At("idle") /\ Moving /\ UNCHANGED <<stream, sealed>>
  BY DEF Arrive, At, Moving, device
<1>2. op \in OpType /\ mine \in HandleType /\ Fits(mine)
  BY <1>1, InProgress DEF LengthsOK, mine
<1>3. Continues /\ op'.pc = "transfer" /\ op'.rem = op.rem
  BY <1>2 DEF Arrive, OpType, Continues
<1>. DEFINE h == [mine EXCEPT !.cachedIndex = Wanted, !.cachedCluster = op.cl]
<1>4. h.pos = mine.pos /\ h.valid = mine.valid /\ h.data = mine.data
  BY <1>2 DEF HandleType
<1>5. SetMine(h)
  BY DEF Arrive
<1>. HIDE DEF h
<1>6. Fits(h)
  BY <1>2, <1>4, SameFits
<1>7. Moving'
  BY <1>3 DEF Moving
<1>. QED
  BY <1>1, <1>3, <1>4, <1>5, <1>6, <1>7, MineFits DEF LengthsOK, CallFits

(* A chunk moves the position by as much as it takes off the rest.         *)
LEMMA TransferChunkFits == ASSUME TypeOK, KindOK, LengthsOK, TransferChunk PROVE LengthsOK'
<1>1. ~At("idle") /\ Moving /\ UNCHANGED <<stream, sealed>>
  BY DEF TransferChunk, At, Moving
<1>2. op \in OpType /\ mine \in HandleType /\ Fits(mine) /\ op.file \in Files
  BY <1>1, InProgress DEF LengthsOK, mine
<1>3. /\ op.rem \in Nat \ {0} /\ mine.pos + op.rem <= mine.valid
      /\ op.kind = "append" => mine.pos + op.rem = mine.valid
      /\ op.kind = "append" => mine.valid = NewEnd
  BY <1>1 DEF LengthsOK, CallFits
<1>4. Chunk \in Nat /\ Chunk <= op.rem /\ mine.pos \in Nat /\ mine.valid \in Nat
  BY <1>1, <1>2, WantedType DEF HandleType
<1>. DEFINE h == [mine EXCEPT !.pos = @ + Chunk]
<1>5. h.pos = mine.pos + Chunk /\ h.valid = mine.valid /\ h.data = mine.data
  BY <1>2 DEF HandleType
<1>6. SetMine(h)
  BY DEF TransferChunk
<1>. HIDE DEF h
<1>7. Fits(h)
  BY <1>2, <1>5, SameFits
<1>8. CASE op' = Idle
  <2>1. \A f \in Files : Fits(handle'[f]) /\ Fits(sealed'[f])
    BY <1>1, <1>2, <1>6, <1>7 DEF SetMine, LengthsOK, TypeOK, MemoryTypeOK
  <2>. QED
    BY <1>1, <1>8, <2>1, EndFits
<1>9. CASE Continues /\ op'.pc = "stream"
  <2>1. ~Moving'
    BY <1>9 DEF Moving
  <2>. QED
    BY <1>1, <1>3, <1>5, <1>6, <1>7, <1>9, <2>1, MineFits
<1>10. CASE Continues /\ op'.pc = "seek" /\ op'.rem = op.rem - Chunk /\ op.rem # Chunk
  <2>1. Moving'
    BY <1>10 DEF Moving
  <2>2. /\ op'.rem \in Nat \ {0} /\ h.pos + op'.rem <= h.valid
        /\ op.kind = "append" => h.pos + op'.rem = h.valid
    BY <1>3, <1>4, <1>5, <1>10
  <2>. QED
    BY <1>1, <1>3, <1>5, <1>6, <1>7, <1>10, <2>1, <2>2, MineFits
<1>11. \/ op' = Idle
       \/ Continues /\ op'.pc = "stream"
       \/ Continues /\ op'.pc = "seek" /\ op'.rem = op.rem - Chunk /\ op.rem # Chunk
  BY <1>2 DEF TransferChunk, AfterTransfer, OpType, Continues
<1>. QED
  BY <1>8, <1>9, <1>10, <1>11

(* Writing the stream extension from the handle.                           *)
LEMMA UpdateStreamFits == ASSUME TypeOK, KindOK, LengthsOK, UpdateStream PROVE LengthsOK'
<1>1. ~At("idle") /\ op.pc = "stream" /\ ~Moving
  BY DEF UpdateStream, At, Moving
<1>2. op \in OpType /\ op.file \in Files /\ mine = handle[op.file]
  BY <1>1, InProgress DEF mine
<1>3. Continues /\ op'.pc = "seal" /\ mine' = mine /\ NewEnd' = NewEnd
  BY <1>2 DEF UpdateStream, Goto, OpType, Continues, mine, NewEnd
<1>4. /\ stream' = [stream EXCEPT ![op.file] = StreamOf(mine)] /\ stream \in [Files -> Stream]
      /\ UNCHANGED <<sealed, handle>>
  BY DEF UpdateStream, TypeOK, VolumeTypeOK
<1>5. Fits(StreamOf(mine))
  BY <1>2, SameFits DEF LengthsOK, StreamOf
<1>6. \A f \in Files : (Fits(stream[f]) /\ Fits(sealed[f]) /\ Fits(handle[f]))'
  BY <1>2, <1>4, <1>5 DEF LengthsOK, Fits
<1>7. CallFits' /\ Fits(op.saved)'
  BY <1>1, <1>3 DEF LengthsOK, CallFits, Continues, Moving, Fits
<1>. QED
  BY <1>6, <1>7 DEF LengthsOK

(* Sealing it.                                                             *)
LEMMA SealFits == ASSUME TypeOK, KindOK, LengthsOK, Seal PROVE LengthsOK'
<1>1. ~At("idle")
  BY DEF Seal, At
<1>2. op.file \in Files
  BY <1>1, InProgress
<1>3. \A f \in Files : Fits(handle'[f]) /\ Fits(sealed'[f])
  BY <1>2 DEF Seal, LengthsOK, TypeOK, VolumeTypeOK
<1>. QED
  BY <1>3, EndFits DEF Seal

(* The walk to the last cluster kept, and the release of the rest.         *)
LEMMA ReleaseFits ==
    ASSUME TypeOK, KindOK, LengthsOK,
           KeepContiguous \/ KeepFollow \/ KeepFound \/ Cut \/ FreeLink \/ Unmark
    PROVE  LengthsOK'
<1>1. ~At("idle") /\ op.pc \in {"keep", "cut", "free", "unmark"} /\ ~Moving
  BY DEF KeepContiguous, KeepFollow, KeepFound, Cut, FreeLink, Unmark, At, Moving
<1>2. op \in OpType /\ op.kind # "append"
  BY <1>1, InProgress DEF KindOK
<1>3. UNCHANGED <<stream, sealed, handle>>
  BY DEF KeepContiguous, KeepFollow, KeepFound, Cut, FreeLink, Unmark, device
<1>4. CASE op' = Idle
  BY <1>3, <1>4, EndFits DEF LengthsOK
<1>5. CASE KeepContiguous \/ KeepFollow \/ KeepFound \/ Cut \/ FreeLink
  <2>1. Continues /\ op'.pc \in {"keep", "cut", "free", "unmark"}
    BY <1>2, <1>5 DEF KeepContiguous, KeepFollow, KeepFound, Cut, FreeLink, OpType, Continues, At
  <2>. QED
    BY <1>1, <1>2, <1>3, <2>1, LocalFits DEF Moving
<1>6. CASE op' = [op EXCEPT !.pc = "free", !.cl = op.next, !.next = 0, !.left = op.left - 1]
  <2>1. Continues /\ op'.pc = "free"
    BY <1>2, <1>6 DEF OpType, Continues
  <2>. QED
    BY <1>1, <1>2, <1>3, <2>1, LocalFits DEF Moving
<1>. QED
  BY <1>4, <1>5, <1>6 DEF Unmark

(* Shortening a handle to a length within its clusters.                    *)
LEMMA ClipFits ==
    ASSUME NEW h \in HandleType, NEW len \in Nat, len <= h.data, WholeClusters => h.data % ClusterBytes = 0
    PROVE  Fits(Clip(h, len))
<1>1. Clip(h, len).valid = len /\ Clip(h, len).data = h.data
  BY DEF Clip, HandleType
<1>. QED
  BY <1>1 DEF Fits

(* truncate keeps whole clusters, and as much as fits into them.           *)
LEMMA FreedFits == ASSUME TypeOK, KindOK, LengthsOK, Freed PROVE LengthsOK'
<1>1. ~At("idle") /\ op.pc = "free" /\ UNCHANGED <<stream, sealed>>
  BY DEF Freed, At, device
<1>2. op \in OpType /\ op.kind # "append" /\ mine \in HandleType /\ op.n \in Nat
  BY <1>1, InProgress DEF KindOK, OpType
<1>3. Continues /\ op'.pc = "stream"
  BY <1>2 DEF Freed, OpType, Continues
<1>. DEFINE cut == [mine EXCEPT !.first = IF Kept = 0 THEN 0 ELSE @, !.data = Kept * ClusterBytes]
            h == Uncached(cut)
<1>4. Kept * ClusterBytes \in Nat
  BY <1>1, KeptType, Parameters
<1>5. cut \in HandleType
  <2>1. \A first \in {0} \cup Clusters, n \in Nat : [mine EXCEPT !.first = first, !.data = n] \in HandleType
    BY <1>2, Zenon DEF HandleType
  <2>2. (IF Kept = 0 THEN 0 ELSE mine.first) \in {0} \cup Clusters
    BY <1>2 DEF HandleType
  <2>. QED
    BY <1>4, <2>1, <2>2
<1>6. cut.data = Kept * ClusterBytes
  BY <1>2 DEF HandleType
<1>. HIDE DEF cut
<1>7. h \in HandleType /\ h.data = Kept * ClusterBytes
  BY <1>5, <1>6, UncachedType DEF Uncached, HandleType
<1>8. op.n <= h.data /\ h.data % ClusterBytes = 0
  BY <1>2, <1>7, WholeLengths DEF Kept
<1>9. SetMine(Clip(h, op.n))
  BY DEF Freed, cut
<1>. HIDE DEF h
<1>10. Fits(Clip(h, op.n))
  BY <1>2, <1>7, <1>8, ClipFits
<1>11. ~Moving'
  BY <1>3 DEF Moving
<1>. QED
  BY <1>1, <1>2, <1>3, <1>9, <1>10, <1>11, MineFits

(* An operation stops with a handle that fits.                             *)
LEMMA StopFits ==
    ASSUME TypeOK, KindOK, LengthsOK, ~At("idle"), op' = Idle, UNCHANGED device,
           NEW h, SetMine(h), Fits(h)
    PROVE  LengthsOK'
<1>1. op.file \in Files /\ handle \in [Files -> HandleType] /\ handle' = [handle EXCEPT ![op.file] = h]
  BY InProgress DEF SetMine, TypeOK, MemoryTypeOK
<1>2. \A f \in Files : Fits(handle'[f]) /\ Fits(sealed'[f])
  BY <1>1 DEF LengthsOK, device
<1>. QED
  BY <1>2, EndFits DEF device

(* Device errors, dropped futures and power cuts.                          *)
LEMMA FaultFits ==
    ASSUME TypeOK, KindOK, LengthsOK, ReturnError \/ IoError \/ Cancel \/ Remount \/ Crash
    PROVE  LengthsOK'
<1>1. CASE Remount \/ Crash
  <2>1. Restart
    BY <1>1 DEF Remount, Crash
  <2>2. \A f \in Files : Fits(handle'[f]) /\ Fits(sealed'[f])
    BY <2>1, EmptyFits DEF Restart, LengthsOK, device
  <2>. QED
    BY <2>1, <2>2, EndFits DEF Restart, device
<1>2. CASE ReturnError \/ IoError \/ Cancel
  <2>1. ~At("idle")
    BY <1>2 DEF ReturnError, CheckFails, Growing, IoError, IoLabels, Cancel, At
  <2>2. Fits(op.saved) /\ Fits(mine) /\ Fits(Closed)
    BY <2>1, InProgress, EmptyFits DEF LengthsOK, mine
  <2>3. \E h : SetMine(h) /\ Fits(h)
    BY <1>2, <2>2 DEF ReturnError, IoError, Fail, Cancel
  <2>4. op' = Idle /\ UNCHANGED device
    BY <1>2 DEF ReturnError, IoError, Fail, Cancel
  <2>. QED
    BY <2>1, <2>3, <2>4, StopFits
<1>. QED
  BY <1>1, <1>2

-----------------------------------------------------------------------------
(* Calls and their lengths.                                                *)

(* A call that starts no operation.                                        *)
LEMMA InstantFits ==
    ASSUME TypeOK, KindOK, LengthsOK, NEW f \in Files, Open(f) \/ Close(f) \/ CreateAbsent(f)
    PROVE  LengthsOK'
<1>1. op' = op /\ op = Idle
  BY DEF Open, Close, CreateAbsent, KindOK
<1>2. CallFits' /\ Fits(op.saved)'
  BY <1>1, IdleFields, EmptyFits DEF CallFits, Moving
<1>3. Fits(OpenOn(stream[f]))
  BY SameFits DEF LengthsOK, OpenOn
<1>4. \A g \in Files : (Fits(stream[g]) /\ Fits(sealed[g]) /\ Fits(handle[g]))'
  BY <1>3, EmptyFits DEF Open, Close, CreateAbsent, LengthsOK, TypeOK, VolumeTypeOK, MemoryTypeOK,
     device, Fits
<1>. QED
  BY <1>2, <1>4 DEF LengthsOK

(* append, as it starts.                                                   *)
LEMMA AppendFits ==
    ASSUME TypeOK, KindOK, LengthsOK, NEW f \in Files, NEW n \in 1..MaxLength, NEW v, Append(f, n, v)
    PROVE  LengthsOK'
<1>1. /\ handle \in [Files -> HandleType] /\ handle[f] \in HandleType
      /\ handle' = [handle EXCEPT ![f] = Uncached(handle[f])] /\ UNCHANGED device
  BY DEF Append, TypeOK, MemoryTypeOK
<1>2. Uncached(handle[f]).valid = handle[f].valid /\ Uncached(handle[f]).data = handle[f].data
  BY <1>1 DEF Uncached, HandleType
<1>3. Fits(Uncached(handle[f]))
  BY <1>2, SameFits DEF LengthsOK
<1>4. /\ op'.kind = "append" /\ op'.pc = "grow" /\ op'.file = f /\ op'.saved = handle[f] /\ op'.n = n
  BY IdleFields DEF Append, OpType
<1>5. mine'.valid = op'.saved.valid
  BY <1>1, <1>2, <1>4 DEF mine
<1>6. n \in Nat \ {0}
  BY ConstantsAssumption
<1>7. CallFits'
  BY <1>4, <1>5, <1>6 DEF CallFits, Moving
<1>8. Fits(op.saved)'
  BY <1>4 DEF LengthsOK
<1>9. \A g \in Files : (Fits(stream[g]) /\ Fits(sealed[g]) /\ Fits(handle[g]))'
  BY <1>1, <1>3 DEF LengthsOK, device, Fits
<1>. QED
  BY <1>7, <1>8, <1>9 DEF LengthsOK

(* A transfer is clipped to what the file has.                             *)
LEMMA StartTransferFits ==
    ASSUME TypeOK, KindOK, LengthsOK, NEW f \in Files, NEW n \in 1..MaxLength, NEW v,
           NEW kind \in {"read", "write"}, StartTransfer(f, n, v, kind)
    PROVE  LengthsOK'
<1>1. /\ UNCHANGED <<stream, sealed, handle>> /\ handle[f] \in HandleType /\ handle[f].pos < handle[f].valid
  BY DEF StartTransfer, TypeOK, MemoryTypeOK, device
<1>2. n \in Nat \ {0}
  BY ConstantsAssumption
<1>. DEFINE rest == handle[f].valid - handle[f].pos
<1>3. handle[f].pos \in Nat /\ handle[f].valid \in Nat
  BY <1>1 DEF HandleType
<1>4. /\ op'.kind = kind /\ op'.pc = "seek" /\ op'.file = f /\ op'.saved = Closed
      /\ op'.rem = IF n < rest THEN n ELSE rest
  BY IdleFields DEF StartTransfer, OpType
<1>5. op'.rem \in Nat \ {0} /\ handle[f].pos + op'.rem <= handle[f].valid
  BY <1>1, <1>2, <1>3, <1>4
<1>6. CallFits' /\ Fits(op.saved)'
  BY <1>1, <1>4, <1>5, EmptyFits DEF CallFits, mine
<1>7. \A g \in Files : (Fits(stream[g]) /\ Fits(sealed[g]) /\ Fits(handle[g]))'
  BY <1>1 DEF LengthsOK, Fits
<1>. QED
  BY <1>6, <1>7 DEF LengthsOK

(* remove, as it starts.                                                   *)
LEMMA RemoveFits ==
    ASSUME TypeOK, KindOK, LengthsOK, NEW f \in Files, Remove(f)
    PROVE  LengthsOK'
<1>1. UNCHANGED <<stream, sealed, handle>> /\ Fits(OpenOn(stream[f]))
  BY SameFits DEF Remove, LengthsOK, OpenOn
<1>2. CASE op' = Idle
  BY <1>1, <1>2, EndFits DEF LengthsOK
<1>3. CASE op' # Idle
  <2>1. op'.kind = "remove" /\ op'.pc = "free" /\ op'.saved = OpenOn(stream[f])
    BY <1>3, IdleFields DEF Remove, OpType
  <2>2. CallFits' /\ Fits(op.saved)'
    BY <1>1, <2>1 DEF CallFits, Moving
  <2>3. \A g \in Files : (Fits(stream[g]) /\ Fits(sealed[g]) /\ Fits(handle[g]))'
    BY <1>1 DEF LengthsOK, Fits
  <2>. QED
    BY <2>2, <2>3 DEF LengthsOK
<1>. QED
  BY <1>2, <1>3

(* truncate, as it starts, whether clusters go or stay.                    *)
LEMMA BeginTruncateFits ==
    ASSUME TypeOK, KindOK, LengthsOK, NEW f \in Files, NEW h \in HandleType, Fits(h), NEW len \in Nat,
           len <= h.valid, NEW kind \in {"create", "truncate"}, BeginTruncate(f, h, len, kind),
           UNCHANGED device
    PROVE  LengthsOK'
<1>1. op'.kind = kind /\ op'.pc \in {"stream", "free", "keep"} /\ op'.saved = Closed
  BY IdleFields DEF BeginTruncate, OpType
<1>2. CallFits' /\ Fits(op.saved)'
  BY <1>1, EmptyFits DEF CallFits, Moving
<1>3. len <= h.data
  BY DEF HandleType, Fits
<1>4. Fits(Clip(h, len))
  BY <1>3, ClipFits DEF Fits
<1>5. \E g : Fits(g) /\ handle' = [handle EXCEPT ![f] = g]
  BY <1>4 DEF BeginTruncate
<1>6. \A g \in Files : (Fits(stream[g]) /\ Fits(sealed[g]) /\ Fits(handle[g]))'
  BY <1>5 DEF LengthsOK, device, Fits, TypeOK, MemoryTypeOK
<1>. QED
  BY <1>2, <1>6 DEF LengthsOK

(* truncate, and create of a file that is there.                           *)
LEMMA TruncateFits ==
    ASSUME TypeOK, KindOK, LengthsOK, NEW f \in Files,
           CreateExisting(f) \/ \E len \in 0..MaxLength : Truncate(f, len)
    PROVE  LengthsOK'
<1>1. CASE CreateExisting(f)
  <2>1. OpenOn(stream[f]) \in HandleType /\ Fits(OpenOn(stream[f]))
    BY OpenOnType, SameFits DEF LengthsOK, OpenOn, TypeOK, VolumeTypeOK
  <2>2. 0 <= OpenOn(stream[f]).valid
    BY <2>1 DEF HandleType
  <2>. QED
    BY <1>1, <2>1, <2>2, BeginTruncateFits DEF CreateExisting
<1>2. ASSUME NEW len \in 0..MaxLength, Truncate(f, len) PROVE LengthsOK'
  <2>1. handle[f] \in HandleType /\ Fits(handle[f]) /\ len \in Nat /\ len <= handle[f].valid
    BY <1>2 DEF Truncate, LengthsOK, TypeOK, MemoryTypeOK
  <2>. QED
    BY <1>2, <2>1, BeginTruncateFits DEF Truncate
<1>. QED
  BY <1>1, <1>2

(* So lengths fit at all times.                                            *)
LEMMA LengthInvariant == Spec => []LengthsOK
<1>1. Init => LengthsOK
  <2>. SUFFICES ASSUME Init PROVE LengthsOK
    OBVIOUS
  <2>1. \A f \in DOMAIN Preexisting : Fits(Preexisting[f])
    BY PreexistingAssumption DEF Fits, WholeClusters
  <2>2. \A f \in Files : Fits(stream[f]) /\ Fits(sealed[f]) /\ Fits(handle[f])
    BY <2>1, EmptyFits DEF Init
  <2>3. CallFits /\ Fits(op.saved)
    BY IdleFields, EmptyFits DEF Init, CallFits, Moving
  <2>. QED
    BY <2>2, <2>3 DEF LengthsOK
<1>2. ASSUME TypeOK, KindOK, LengthsOK, [Next]_vars PROVE LengthsOK'
  <2>1. CASE RefreshFreeClusters \/ UNCHANGED vars
    BY <1>2, <2>1 DEF RefreshFreeClusters, vars, device, LengthsOK, CallFits, Moving, NewEnd, mine, Fits
  <2>2. CASE Step
    BY <1>2, <2>2, GrowFits, GrownFits, GrownLength, SeekFits, ArriveFits, TransferChunkFits,
       UpdateStreamFits, SealFits, ReleaseFits, FreedFits, FaultFits DEF Step
  <2>3. ASSUME NEW f \in Files, Calls(f) PROVE LengthsOK'
    <3>1. CASE Open(f) \/ Close(f) \/ CreateAbsent(f) \/ Remove(f)
      BY <1>2, <3>1, InstantFits, RemoveFits
    <3>2. CASE CreateExisting(f) \/ \E len \in 0..MaxLength : Truncate(f, len)
      BY <1>2, <3>2, TruncateFits
    <3>3. ASSUME NEW n \in 1..MaxLength, Read(f, n) PROVE LengthsOK'
      BY <1>2, <3>3, StartTransferFits DEF Read
    <3>4. ASSUME NEW n \in 1..MaxLength, NEW v, Append(f, n, v) \/ Write(f, n, v) PROVE LengthsOK'
      BY <1>2, <3>4, AppendFits, StartTransferFits DEF Write
    <3>. QED
      BY <2>3, <3>1, <3>2, <3>3, <3>4 DEF Calls
  <2>. QED
    BY <1>2, <2>1, <2>2, <2>3, FaultFits DEF Next
<1>. QED
  BY <1>1, <1>2, TypeCorrect, KindInvariant, PTL DEF Spec


-----------------------------------------------------------------------------
(* Who owns which cluster.  No variable says it; that a map exists is the  *)
(* invariant.  A cluster a record names, or that hangs on one by the FAT,  *)
(* belongs to that file, from the moment its FAT entry is terminated until *)
(* the file is removed; what a failed append leaves behind stays its own.  *)

OwnerMaps == [Clusters -> Files \cup {None}]

(* The clusters a record or a handle leads to: a contiguous one up to its  *)
(* length, a chained one from the first on.                                *)
Owns(o, f, s) ==
    /\ s.first = 0 => s.data = 0
    /\ s.first # 0 => s.first \in Clusters /\ o[s.first] = f
    /\ s.nofat => \A i \in 0..(CeilDiv(s.data, ClusterBytes) - 1) :
         s.first + i \in Clusters /\ o[s.first + i] = f

(* No FAT entry leads from one owner's clusters to another's.              *)
LinksOwned(o) ==
    /\ \A c \in Clusters : o[c] # None /\ fat[c] \in Clusters => o[fat[c]] = o[c]
    /\ fat[0] \notin Clusters /\ fat[1] \notin Clusters

BitsOwned(o) ==
    /\ SystemClusters \subseteq used
    /\ \A c \in Clusters : o[c] # None => c \notin SystemClusters
    /\ \A c \in Clusters : o[c] \in live => c \in used

RecordsOwned(o) == \A f \in live : Owns(o, f, stream[f]) /\ Owns(o, f, sealed[f])
HandlesOwned(o) == \A f \in Files : handle[f].open => f \in live /\ Owns(o, f, handle[f])

(* The tail an append found, and the cluster it has claimed.               *)
TailOwned(o) ==
    mine.first # 0 =>
        /\ op.tail \in Clusters /\ o[op.tail] = op.file
        /\ mine.nofat => op.tail = mine.first + mine.data \div ClusterBytes - 1

CursorsOwned(o) ==
    /\ At("tail") => op.cl \in Clusters /\ o[op.cl] = op.file
    /\ op.pc \in {"claim", "mark", "terminate", "materialize", "link"} => TailOwned(o)
    /\ At("mark") => op.new \notin used
    /\ At("terminate") => op.new \in used \ SystemClusters /\ o[op.new] = None
    /\ op.pc \in {"materialize", "link"} => mine.first # 0 /\ o[op.new] = op.file
    /\ At("materialize") => mine.nofat
    /\ op.pc \in {"tail", "link"} => ~mine.nofat
    /\ op.pc \in {"free", "unmark"} => op.cl \in Clusters /\ o[op.cl] = op.file
    /\ At("unmark") /\ op.next \in Clusters => o[op.next] = op.file

CallOwned(o) ==
    /\ \A c \in Clusters : o[c] \notin live \cup {None} => op.kind = "remove" /\ o[c] = op.file
    /\ op.kind \in {"append", "read", "write"} => mine.open
    /\ op.kind = "append" => op.saved.open /\ Owns(o, op.file, op.saved)
    /\ op.kind = "remove" => op.file \notin live

Owned(o) ==
    /\ LinksOwned(o) /\ BitsOwned(o) /\ RecordsOwned(o) /\ HandlesOwned(o)
    /\ CursorsOwned(o) /\ CallOwned(o)

(* From one owner map to the next: append takes the cluster it terminates, *)
(* and others only lose their owner.                                       *)
Handover(o, w) ==
    \A c \in Clusters :
        \/ w[c] \in {o[c], None}
        \/ At("terminate") /\ c = op.new /\ w[c] = op.file

(* Nothing need change hands.                                              *)
LEMMA HandoverNothing == \A o : Handover(o, o)
BY DEF Handover

-----------------------------------------------------------------------------
(* The cluster counts of lengths.                                          *)

(* A length and its whole clusters; one cluster more is one more.          *)
LEMMA ClusterCounts ==
    ASSUME NEW d \in Nat
    PROVE  /\ CeilDiv(d, ClusterBytes) \in Nat /\ d \div ClusterBytes \in Nat
           /\ d \div ClusterBytes <= CeilDiv(d, ClusterBytes)
           /\ CeilDiv(d, ClusterBytes) <= d \div ClusterBytes + 1
           /\ d % ClusterBytes = 0 => CeilDiv(d, ClusterBytes) = d \div ClusterBytes
           /\ d % ClusterBytes # 0 => CeilDiv(d, ClusterBytes) = d \div ClusterBytes + 1
           /\ CeilDiv(d + ClusterBytes, ClusterBytes) = CeilDiv(d, ClusterBytes) + 1
           /\ d = 0 => CeilDiv(d, ClusterBytes) = 0
           /\ d # 0 => CeilDiv(d, ClusterBytes) # 0
           /\ d >= ClusterBytes => d \div ClusterBytes # 0
<1>. DEFINE b == ClusterBytes
            q == d \div b
            r == d % b
<1>1. b \in Nat \ {0} /\ q \in Nat /\ r \in 0..(b - 1) /\ d = b * q + r
  BY Parameters
<1>2. CASE r = 0
  <2>1. d + b - 1 = b * q + (b - 1) /\ d + b + b - 1 = b * (q + 1) + (b - 1)
    BY <1>1, <1>2
  <2>2. (d + b - 1) \div b = q /\ (d + b + b - 1) \div b = q + 1
    BY <1>1, <2>1
  <2>. QED
    BY <1>1, <1>2, <2>2 DEF CeilDiv
<1>3. CASE r # 0
  <2>1. d + b - 1 = b * (q + 1) + (r - 1) /\ d + b + b - 1 = b * (q + 2) + (r - 1)
    BY <1>1, <1>3
  <2>2. r - 1 \in 0..(b - 1) /\ q + 1 \in Nat /\ q + 2 \in Nat
    BY <1>1, <1>3
  <2>3. (d + b - 1) \div b = q + 1 /\ (d + b + b - 1) \div b = q + 2
    BY <1>1, <2>1, <2>2
  <2>. QED
    BY <1>1, <1>3, <2>3 DEF CeilDiv
<1>. QED
  BY <1>2, <1>3

-----------------------------------------------------------------------------
(* The steps keep an owner map.  Faults may be any; truncate, and create   *)
(* of a file that is there, do not occur: stopped in the middle, they      *)
(* leave a record that names freed clusters.                               *)

NeverTruncated == "truncate" \notin Ops

Owning(o) ==
    /\ TypeOK /\ KindOK /\ NeverTruncated
    /\ o \in OwnerMaps /\ Owned(o)

(* The operation in progress, and what its handle and its record own.      *)
LEMMA OwningCall ==
    ASSUME NEW o, Owning(o), ~At("idle")
    PROVE  /\ op \in OpType /\ op.file \in Files /\ op.file # None /\ mine = handle[op.file]
           /\ mine \in HandleType /\ handle \in [Files -> HandleType]
           /\ op.kind \in {"append", "read", "write", "remove"}
           /\ op.kind # "remove" => mine.open /\ op.file \in live /\ Owns(o, op.file, mine)
           /\ op.kind = "remove" => op.file \notin live /\ op.pc \in {"free", "unmark"}
<1>1. op \in OpType /\ op.file \in Files /\ mine = handle[op.file] /\ mine \in HandleType
  BY InProgress DEF mine, Owning
<1>2. op.kind \in {"append", "read", "write", "remove"}
  BY <1>1 DEF Owning, KindOK, NeverTruncated, OpType, Kinds
<1>3. op.kind # "remove" => mine.open
  BY <1>2 DEF Owning, Owned, CallOwned
<1>4. op.kind = "remove" => op.file \notin live
  BY DEF Owning, Owned, CallOwned
<1>5. op.kind = "remove" => op.pc \in {"free", "unmark"}
  BY <1>1 DEF Owning, KindOK, NeverTruncated, OpType, PcLabels, At
<1>. QED
  BY <1>1, <1>2, <1>3, <1>4, <1>5, Parameters DEF Owning, Owned, HandlesOwned, TypeOK, MemoryTypeOK

(* A record, a handle made from it and one of the same extent own the same. *)
LEMMA OwnsSame ==
    ASSUME NEW o, NEW f, NEW s, NEW t, Owns(o, f, s),
           t.first = s.first, t.data = s.data, t.nofat = s.nofat
    PROVE  Owns(o, f, t)
BY DEF Owns

(* An operation moves on without touching the volume or a handle.          *)
LEMMA LocalOwned ==
    ASSUME NEW o, Owning(o), ~At("idle"), UNCHANGED <<fat, used, live, stream, sealed, handle>>,
           Continues, CursorsOwned(o)'
    PROVE  Owned(o)'
<1>1. LinksOwned(o)' /\ BitsOwned(o)' /\ RecordsOwned(o)' /\ HandlesOwned(o)'
  BY DEF Owning, Owned, LinksOwned, BitsOwned, RecordsOwned, HandlesOwned
<1>2. CallOwned(o)'
  BY DEF Owning, Owned, CallOwned, Continues, mine
<1>. QED
  BY <1>1, <1>2 DEF Owned

(* The growth loop looks for the tail.                                     *)
LEMMA GrowEmptyOwned == ASSUME NEW o, Owning(o), GrowEmpty PROVE Owned(o)'
<1>1. ~At("idle") /\ op \in OpType
  BY OwningCall DEF GrowEmpty, Growing, At
<1>2. Continues /\ op'.pc = "claim" /\ mine' = mine /\ mine.first = 0
  BY <1>1 DEF GrowEmpty, Goto, Continues, OpType, mine
<1>3. CursorsOwned(o)'
  BY <1>2 DEF CursorsOwned, At, TailOwned
<1>. QED
  BY <1>1, <1>2, <1>3, LocalOwned DEF GrowEmpty, device

(* A contiguous tail is found by counting.                                 *)
LEMMA GrowContiguousOwned == ASSUME NEW o, Owning(o), GrowContiguous PROVE Owned(o)'
<1>1. /\ ~At("idle") /\ op \in OpType /\ op.kind = "append"
      /\ mine \in HandleType /\ Owns(o, op.file, mine)
  BY OwningCall DEF GrowContiguous, Growing, At, Owning, KindOK
<1>. DEFINE tail == mine.first + mine.data \div ClusterBytes - 1
<1>2. /\ Continues /\ op'.pc = "claim" /\ op'.tail = tail /\ mine' = mine
      /\ mine.first # 0 /\ mine.nofat /\ mine.data >= ClusterBytes
  BY <1>1 DEF GrowContiguous, Growing, Continues, OpType, mine
<1>3. tail \in Clusters /\ o[tail] = op.file
  <2>1. mine.first \in Nat /\ mine.data \in Nat
    BY <1>1, InProgress DEF Owning, HandleType
  <2>. DEFINE q == mine.data \div ClusterBytes
  <2>2. q - 1 \in 0..(CeilDiv(mine.data, ClusterBytes) - 1)
    BY <1>2, <2>1, ClusterCounts
  <2>3. mine.first + (q - 1) \in Clusters /\ o[mine.first + (q - 1)] = op.file
    BY <1>1, <1>2, <2>2 DEF Owns
  <2>4. mine.first + (q - 1) = tail
    BY <2>1, <2>2
  <2>. QED
    BY <2>3, <2>4
<1>4. CursorsOwned(o)'
  BY <1>2, <1>3 DEF CursorsOwned, At, TailOwned, Continues
<1>. QED
  BY <1>1, <1>2, <1>4, LocalOwned DEF GrowContiguous, device

(* A walk to the tail starts at the first cluster,                         *)
LEMMA GrowChainedOwned == ASSUME NEW o, Owning(o), GrowChained PROVE Owned(o)'
<1>1. /\ ~At("idle") /\ op \in OpType /\ op.kind = "append" /\ Owns(o, op.file, mine)
  BY OwningCall DEF GrowChained, Growing, At, Owning, KindOK
<1>2. /\ Continues /\ op'.pc = "tail" /\ op'.cl = mine.first /\ mine.first # 0
      /\ mine' = mine /\ ~mine.nofat
  BY <1>1 DEF GrowChained, Continues, OpType, mine
<1>3. CursorsOwned(o)'
  BY <1>1, <1>2 DEF CursorsOwned, At, Owns, Continues
<1>. QED
  BY <1>1, <1>2, <1>3, LocalOwned DEF GrowChained, device

(* follows links, which stay with their owner,                             *)
LEMMA FollowTailOwned == ASSUME NEW o, Owning(o), FollowTail PROVE Owned(o)'
<1>1. ~At("idle") /\ op \in OpType /\ op.file # None
  BY OwningCall DEF FollowTail, At
<1>2. /\ Continues /\ op'.pc = "tail" /\ op'.cl = fat[op.cl] /\ fat[op.cl] \in Clusters
      /\ mine' = mine
  BY <1>1 DEF FollowTail, Continues, OpType, At, mine
<1>3. op.cl \in Clusters /\ o[op.cl] = op.file /\ ~mine.nofat
  BY DEF FollowTail, Owning, Owned, CursorsOwned, At
<1>4. o[fat[op.cl]] = op.file
  BY <1>1, <1>2, <1>3 DEF Owning, Owned, LinksOwned
<1>5. CursorsOwned(o)'
  BY <1>2, <1>3, <1>4 DEF CursorsOwned, At, Continues
<1>. QED
  BY <1>1, <1>2, <1>5, LocalOwned DEF FollowTail, device

(* and ends at a cluster of the file.                                      *)
LEMMA FoundTailOwned == ASSUME NEW o, Owning(o), FoundTail PROVE Owned(o)'
<1>1. ~At("idle") /\ op \in OpType
  BY OwningCall DEF FoundTail, At
<1>2. Continues /\ op'.pc = "claim" /\ op'.tail = op.cl /\ mine' = mine
  BY <1>1 DEF FoundTail, Continues, OpType, mine
<1>3. op.cl \in Clusters /\ o[op.cl] = op.file
  BY DEF FoundTail, Owning, Owned, CursorsOwned
<1>4. ~mine.nofat
  BY DEF FoundTail, Owning, Owned, CursorsOwned, At
<1>5. CursorsOwned(o)'
  BY <1>2, <1>3, <1>4 DEF CursorsOwned, At, TailOwned, Continues
<1>. QED
  BY <1>1, <1>2, <1>5, LocalOwned DEF FoundTail, device

(* A cluster is claimed: nobody's, since the bits of all owned clusters    *)
(* are set.                                                                *)
LEMMA ClaimOwned == ASSUME NEW o, Owning(o), Claim PROVE Owned(o)'
<1>1. ~At("idle") /\ op \in OpType
  BY OwningCall DEF Claim, At
<1>2. PICK c \in FreeBits : op' = [op EXCEPT !.pc = "mark", !.new = c]
  BY DEF Claim
<1>3. /\ Continues /\ op'.pc = "mark" /\ op'.new = c /\ op'.tail = op.tail /\ c \notin used
      /\ mine' = mine
  BY <1>1, <1>2 DEF Claim, Continues, OpType, mine, FreeBits
<1>4. TailOwned(o)'
  BY <1>3 DEF Claim, Owning, Owned, CursorsOwned, At, TailOwned, Continues
<1>5. CursorsOwned(o)'
  BY <1>3, <1>4 DEF CursorsOwned, At, Claim
<1>. QED
  BY <1>1, <1>3, <1>5, LocalOwned DEF Claim

(* Its bit is set.                                                         *)
LEMMA MarkUsedOwned == ASSUME NEW o, Owning(o), MarkUsed PROVE Owned(o)'
<1>1. ~At("idle") /\ op \in OpType /\ op.kind = "append" /\ op.new \in Clusters
  BY OwningCall DEF MarkUsed, At, Owning, KindOK, TypeOK, OpTypeOK
<1>2. /\ Continues /\ op'.pc = "terminate" /\ op'.new = op.new /\ op'.tail = op.tail
      /\ mine' = mine
  BY <1>1 DEF MarkUsed, Goto, Continues, OpType, mine
<1>3. used' = used \cup {op.new} /\ op.new \notin used
  BY DEF MarkUsed, SetBitmap, Owning, Owned, CursorsOwned
<1>4. op.new \notin SystemClusters /\ o[op.new] = None
  BY <1>1, <1>3 DEF Owning, Owned, BitsOwned, CallOwned
<1>5. TailOwned(o)'
  BY <1>2 DEF MarkUsed, Owning, Owned, CursorsOwned, At, TailOwned, Continues
<1>6. CursorsOwned(o)'
  BY <1>2, <1>3, <1>4, <1>5 DEF CursorsOwned, At
<1>7. LinksOwned(o)' /\ BitsOwned(o)' /\ RecordsOwned(o)' /\ HandlesOwned(o)'
  BY <1>3 DEF MarkUsed, Owning, Owned, LinksOwned, BitsOwned, RecordsOwned, HandlesOwned
<1>8. CallOwned(o)'
  BY <1>2 DEF MarkUsed, Owning, Owned, CallOwned, Continues
<1>. QED
  BY <1>6, <1>7, <1>8 DEF Owned

(* Its FAT entry is terminated, and it has an owner: the map changes.      *)
LEMMA Terminated ==
    ASSUME NEW o, Owning(o), Terminate, NEW w, w = [o EXCEPT ![op.new] = op.file],
           UNCHANGED <<used, live, stream, sealed>>
    PROVE  /\ w \in OwnerMaps /\ LinksOwned(w)' /\ BitsOwned(w)' /\ RecordsOwned(w)'
           /\ w[op.new] = op.file
           /\ \A c \in Clusters : c # op.new => w[c] = o[c]
           /\ \A c \in Clusters : o[c] # None => w[c] = o[c]
           /\ \A f \in Files : \A s : Owns(o, f, s) => Owns(w, f, s)
           /\ \A c \in Clusters : w[c] \in live \cup {None}
<1>1. /\ ~At("idle") /\ op.kind = "append" /\ op.new \in Clusters /\ op.file \in live
      /\ op.file \in Files /\ op.file # None
  BY OwningCall DEF Terminate, At, Owning, KindOK, TypeOK, OpTypeOK
<1>2. op.new \in used \ SystemClusters /\ o[op.new] = None
  BY DEF Terminate, Owning, Owned, CursorsOwned
<1>3. /\ w \in OwnerMaps /\ w[op.new] = op.file
      /\ \A c \in Clusters : c # op.new => w[c] = o[c]
      /\ \A c \in Clusters : o[c] # None => w[c] = o[c]
  BY <1>1, <1>2 DEF Owning, OwnerMaps
<1>4. \A f \in Files : \A s : Owns(o, f, s) => Owns(w, f, s)
  BY <1>3, Parameters DEF Owns
<1>5. LinksOwned(w)'
  <2>1. /\ EndOfChain \notin Clusters /\ op.new # 0 /\ op.new # 1
        /\ \A c \in Clusters : c \in FatSlots
    BY <1>1, Parameters DEF EndOfChain, Clusters, FatSlots
  <2>2. \A c \in FatSlots : fat'[c] = IF c = op.new THEN EndOfChain ELSE fat[c]
    BY <2>1 DEF Terminate, SetFat, Owning, TypeOK, VolumeTypeOK
  <2>3. 0 \in FatSlots /\ 1 \in FatSlots
    BY Parameters DEF FatSlots
  <2>4. ASSUME NEW c \in Clusters, w[c] # None, fat'[c] \in Clusters PROVE w[fat'[c]] = w[c]
    <3>1. c # op.new /\ fat'[c] = fat[c] /\ w[c] = o[c]
      BY <1>3, <2>1, <2>2, <2>4
    <3>2. o[fat[c]] = o[c]
      BY <2>4, <3>1 DEF Owning, Owned, LinksOwned
    <3>. QED
      BY <1>3, <2>4, <3>1, <3>2
  <2>. QED
    BY <2>1, <2>2, <2>3, <2>4 DEF LinksOwned, Owning, Owned
<1>6. BitsOwned(w)'
  BY <1>1, <1>2, <1>3 DEF BitsOwned, Owning, Owned
<1>7. RecordsOwned(w)'
  <2>1. live \subseteq Files
    BY DEF Owning, TypeOK, VolumeTypeOK
  <2>. QED
    BY <1>4, <2>1 DEF RecordsOwned, Owning, Owned
<1>8. \A c \in Clusters : w[c] \in live \cup {None}
  BY <1>1, <1>3 DEF Owning, Owned, CallOwned
<1>. QED
  BY <1>3, <1>4, <1>5, <1>6, <1>7, <1>8

(* An append whose handle has grown goes on.                               *)
LEMMA GrownHandle ==
    ASSUME NEW o, Owning(o), NEW w, ~At("idle"), op.kind = "append", NEW h \in HandleType, SetMine(h), h.open,
           Owns(w, op.file, h), \A f \in Files : \A s : Owns(o, f, s) => Owns(w, f, s),
           \A c \in Clusters : w[c] \in live \cup {None}, live' = live, Continues
    PROVE  HandlesOwned(w)' /\ CallOwned(w)' /\ mine' = h
<1>1. op.file \in Files /\ op.file \in live /\ handle' = [handle EXCEPT ![op.file] = h]
      /\ handle \in [Files -> HandleType]
  BY OwningCall DEF SetMine
<1>2. handle'[op.file] = h /\ mine' = h /\ \A f \in Files : f # op.file => handle'[f] = handle[f]
  BY <1>1 DEF mine, Continues
<1>3. HandlesOwned(w)'
  BY <1>1, <1>2 DEF Owning, Owned, HandlesOwned
<1>4. CallOwned(w)'
  BY <1>1, <1>2 DEF Owning, Owned, CallOwned, Continues
<1>. QED
  BY <1>2, <1>3, <1>4

(* The first cluster of an empty file.                                     *)
LEMMA TerminateFirstOwned ==
    ASSUME NEW o, Owning(o), TerminateFirst
    PROVE  \E w \in OwnerMaps : Owned(w)' /\ Handover(o, w)
<1>1. PICK w : w = [o EXCEPT ![op.new] = op.file]
  OBVIOUS
<1>2. /\ w \in OwnerMaps /\ LinksOwned(w)' /\ BitsOwned(w)' /\ RecordsOwned(w)'
      /\ w[op.new] = op.file
      /\ \A f \in Files : \A s : Owns(o, f, s) => Owns(w, f, s)
      /\ \A c \in Clusters : w[c] \in live \cup {None}
  BY <1>1, Terminated DEF TerminateFirst
<1>3. /\ ~At("idle") /\ op.kind = "append" /\ op.new \in Clusters /\ op.file \in Files /\ op \in OpType
      /\ mine \in HandleType /\ mine.open /\ Owns(o, op.file, mine) /\ mine.first = 0
  BY OwningCall DEF TerminateFirst, Terminate, At, Owning, KindOK, TypeOK, OpTypeOK
<1>4. op.new # 0 /\ op.new \in Nat /\ mine.data = 0
  BY <1>3, Parameters DEF Owns
<1>. DEFINE h == AddCluster([mine EXCEPT !.first = op.new])
<1>5. [mine EXCEPT !.first = op.new] \in HandleType
  BY <1>3, Zenon DEF HandleType
<1>6. h \in HandleType
  BY <1>5, AddClusterType
<1>7. h.first = op.new /\ h.data = ClusterBytes /\ h.open /\ h.nofat = mine.nofat
  BY <1>3, <1>4, Parameters DEF AddCluster, HandleType
<1>8. CeilDiv(h.data, ClusterBytes) = 1
  <2>1. 0 + ClusterBytes = ClusterBytes /\ CeilDiv(0, ClusterBytes) = 0
    BY Parameters, ClusterCounts
  <2>2. CeilDiv(0 + ClusterBytes, ClusterBytes) = CeilDiv(0, ClusterBytes) + 1
    BY ClusterCounts
  <2>. QED
    BY <1>7, <2>1, <2>2
<1>9. Owns(w, op.file, h)
  <2>1. \A i \in 0..(1 - 1) : i = 0 /\ op.new + i = op.new
    BY <1>4
  <2>. QED
    BY <1>2, <1>3, <1>4, <1>7, <1>8, <2>1 DEF Owns
<1>10. Continues /\ op'.pc = "grow"
  BY <1>3 DEF TerminateFirst, GrowAgain, Continues, OpType
<1>11. CursorsOwned(w)'
  BY <1>10 DEF CursorsOwned, At
<1>12. SetMine(h) /\ live' = live
  BY DEF TerminateFirst
<1>. HIDE DEF h
<1>13. HandlesOwned(w)' /\ CallOwned(w)'
  BY <1>2, <1>3, <1>6, <1>7, <1>9, <1>10, <1>12, GrownHandle
<1>20. Handover(o, w)
  BY <1>1, <1>2 DEF Handover, TerminateFirst, Terminate, Owning, OwnerMaps
<1>. QED
  BY <1>2, <1>11, <1>13, <1>20 DEF Owned

(* A contiguous file has the next cluster, too.                            *)
LEMMA TerminateAdjacentOwned ==
    ASSUME NEW o, Owning(o), TerminateAdjacent
    PROVE  \E w \in OwnerMaps : Owned(w)' /\ Handover(o, w)
<1>1. PICK w : w = [o EXCEPT ![op.new] = op.file]
  OBVIOUS
<1>2. /\ w \in OwnerMaps /\ LinksOwned(w)' /\ BitsOwned(w)' /\ RecordsOwned(w)'
      /\ w[op.new] = op.file
      /\ \A f \in Files : \A s : Owns(o, f, s) => Owns(w, f, s)
      /\ \A c \in Clusters : w[c] \in live \cup {None}
  BY <1>1, Terminated DEF TerminateAdjacent
<1>3. /\ ~At("idle") /\ op.kind = "append" /\ op.new \in Clusters /\ op.file \in Files /\ op \in OpType
      /\ op.file # None
      /\ mine \in HandleType /\ mine.open /\ Owns(o, op.file, mine) /\ mine.first # 0 /\ mine.nofat
      /\ op.new = op.tail + 1
  BY OwningCall DEF TerminateAdjacent, Terminate, At, Owning, KindOK, TypeOK, OpTypeOK, Adjacent
<1>. DEFINE h == AddCluster(mine)
            n == CeilDiv(mine.data, ClusterBytes)
            q == mine.data \div ClusterBytes
<1>4. mine.first \in Nat /\ mine.data \in Nat
  BY <1>3, InProgress DEF Owning, HandleType
<1>5. h \in HandleType /\ h.first = mine.first /\ h.data = mine.data + ClusterBytes /\ h.open /\ h.nofat
  BY <1>3, AddClusterType DEF AddCluster, HandleType
<1>6. op.tail = mine.first + q - 1 /\ o[op.new] = None
  BY <1>3 DEF TerminateAdjacent, Terminate, At, Owning, Owned, CursorsOwned, TailOwned
<1>7. n \in Nat /\ q \in Nat /\ q <= n /\ n <= q + 1 /\ CeilDiv(h.data, ClusterBytes) = n + 1
  BY <1>4, <1>5, ClusterCounts
<1>8. op.new = mine.first + q
  BY <1>3, <1>4, <1>6, <1>7
<1>9. q = n
  <2>1. q \in 0..(n - 1) => o[mine.first + q] = op.file
    BY <1>3 DEF Owns
  <2>. QED
    BY <1>3, <1>6, <1>7, <1>8, <2>1
<1>10. ASSUME NEW i \in 0..((n + 1) - 1)
       PROVE  mine.first + i \in Clusters /\ w[mine.first + i] = op.file
  <2>1. Owns(w, op.file, mine)
    BY <1>2, <1>3
  <2>2. CASE i = n
    BY <1>2, <1>3, <1>8, <1>9, <2>2
  <2>3. CASE i \in 0..(n - 1)
    BY <1>3, <2>1, <2>3 DEF Owns
  <2>. QED
    BY <1>7, <2>2, <2>3
<1>11. Owns(w, op.file, h)
  <2>1. Owns(w, op.file, mine)
    BY <1>2, <1>3
  <2>2. mine.first \in Clusters /\ w[mine.first] = op.file
    BY <1>3, <2>1 DEF Owns
  <2>. HIDE DEF h, n
  <2>. QED
    BY <1>3, <1>5, <1>7, <1>10, <2>2 DEF Owns
<1>12. Continues /\ op'.pc = "grow"
  BY <1>3 DEF TerminateAdjacent, GrowAgain, Continues, OpType
<1>13. CursorsOwned(w)'
  BY <1>12 DEF CursorsOwned, At
<1>14. SetMine(h) /\ live' = live
  BY DEF TerminateAdjacent
<1>. HIDE DEF h
<1>15. HandlesOwned(w)' /\ CallOwned(w)'
  BY <1>2, <1>3, <1>5, <1>11, <1>12, <1>14, GrownHandle
<1>20. Handover(o, w)
  BY <1>1, <1>2 DEF Handover, TerminateAdjacent, Terminate, Owning, OwnerMaps
<1>. QED
  BY <1>2, <1>13, <1>15, <1>20 DEF Owned
(* The new cluster of a contiguous file does not follow its last one: the  *)
(* missing links come first.                                               *)
LEMMA TerminateDetachedOwned ==
    ASSUME NEW o, Owning(o), TerminateDetached
    PROVE  \E w \in OwnerMaps : Owned(w)' /\ Handover(o, w)
<1>1. PICK w : w = [o EXCEPT ![op.new] = op.file]
  OBVIOUS
<1>2. /\ w \in OwnerMaps /\ LinksOwned(w)' /\ BitsOwned(w)' /\ RecordsOwned(w)'
      /\ w[op.new] = op.file
      /\ \A f \in Files : \A s : Owns(o, f, s) => Owns(w, f, s)
      /\ \A c \in Clusters : w[c] \in live \cup {None}
  BY <1>1, Terminated DEF TerminateDetached
<1>3. /\ ~At("idle") /\ op.kind = "append" /\ op.file \in Files /\ op \in OpType /\ op.file # None
      /\ mine.first # 0 /\ mine \in HandleType
  BY OwningCall DEF TerminateDetached, Terminate, At, Owning, KindOK, TypeOK, OpTypeOK
<1>4. /\ Continues /\ op'.tail = op.tail /\ op'.new = op.new /\ mine' = mine
      /\ op'.pc = IF mine.nofat THEN "materialize" ELSE "link"
  BY <1>3 DEF TerminateDetached, Goto, Continues, OpType, mine
<1>5. /\ op.tail \in Clusters /\ o[op.tail] = op.file
      /\ mine.nofat => op.tail = mine.first + mine.data \div ClusterBytes - 1
  BY <1>3 DEF TerminateDetached, Terminate, At, Owning, Owned, CursorsOwned, TailOwned
<1>6. TailOwned(w)'
  <2>1. w[op.tail] = op.file
    BY <1>1, <1>2, <1>3, <1>5 DEF Owning, OwnerMaps
  <2>. QED
    BY <1>3, <1>4, <1>5, <2>1 DEF TailOwned, Continues
<1>7. mine.nofat \in BOOLEAN
  BY <1>3 DEF HandleType
<1>8. CursorsOwned(w)'
  BY <1>2, <1>3, <1>4, <1>6, <1>7 DEF CursorsOwned, At, Continues
<1>9. HandlesOwned(w)' /\ CallOwned(w)'
  BY <1>2, <1>3, <1>4 DEF Owning, Owned, HandlesOwned, CallOwned, Continues, TerminateDetached
<1>20. Handover(o, w)
  BY <1>1, <1>2 DEF Handover, TerminateDetached, Terminate, Owning, OwnerMaps
<1>. QED
  BY <1>2, <1>8, <1>9, <1>20 DEF Owned

(* Each missing link joins two clusters of the file.                       *)
LEMMA MaterializeOwned == ASSUME NEW o, Owning(o), Materialize PROVE Owned(o)'
<1>1. /\ ~At("idle") /\ op.kind = "append" /\ op.file \in Files /\ op \in OpType /\ op.file # None
      /\ mine \in HandleType /\ Owns(o, op.file, mine)
  BY OwningCall DEF Materialize, At, Owning, KindOK
<1>2. /\ mine.nofat /\ mine.first # 0 /\ TailOwned(o) /\ o[op.new] = op.file
  BY DEF Materialize, Owning, Owned, CursorsOwned, At
<1>3. Continues /\ op'.pc = "materialize" /\ op'.tail = op.tail /\ op'.new = op.new /\ mine' = mine
  BY <1>1 DEF Materialize, At, Continues, OpType, mine
<1>. DEFINE c1 == mine.first + op.idx
            c2 == mine.first + op.idx + 1
<1>4. /\ c1 \in Clusters /\ o[c1] = op.file
      /\ c2 \in Clusters /\ o[c2] = op.file
  <2>1. mine.first \in Nat /\ mine.data \in Nat /\ op.idx \in Nat
    BY <1>1, InProgress DEF Owning, HandleType, OpType
  <2>2. mine.data \div ClusterBytes \in Nat /\ CeilDiv(mine.data, ClusterBytes) \in Nat
        /\ mine.data \div ClusterBytes <= CeilDiv(mine.data, ClusterBytes)
    BY <2>1, ClusterCounts
  <2>3. op.idx + 1 < mine.data \div ClusterBytes
    BY DEF Materialize, LinksMissing
  <2>4. op.idx \in 0..(CeilDiv(mine.data, ClusterBytes) - 1)
        /\ op.idx + 1 \in 0..(CeilDiv(mine.data, ClusterBytes) - 1)
    BY <2>1, <2>2, <2>3
  <2>5. mine.first + (op.idx + 1) = c2
    BY <2>1
  <2>. HIDE DEF c2
  <2>. QED
    BY <1>1, <1>2, <2>4, <2>5 DEF Owns
<1>5. fat' = [fat EXCEPT ![c1] = c2] /\ fat \in [FatSlots -> Nat]
  BY DEF Materialize, SetFat, Owning, TypeOK, VolumeTypeOK
<1>. HIDE DEF c1, c2
<1>6. LinksOwned(o)'
  <2>1. c1 # 0 /\ c1 # 1
    BY <1>4, Parameters
  <2>2. \A c \in FatSlots : fat'[c] = IF c = c1 THEN c2 ELSE fat[c]
    BY <1>5
  <2>3. 0 \in FatSlots /\ 1 \in FatSlots /\ Clusters \subseteq FatSlots
    BY Parameters DEF FatSlots, Clusters
  <2>. QED
    BY <1>4, <2>1, <2>2, <2>3 DEF LinksOwned, Owning, Owned
<1>7. BitsOwned(o)' /\ RecordsOwned(o)' /\ HandlesOwned(o)'
  BY DEF Materialize, Owning, Owned, BitsOwned, RecordsOwned, HandlesOwned
<1>8. TailOwned(o)'
  BY <1>2, <1>3 DEF TailOwned, Continues
<1>9. CursorsOwned(o)'
  BY <1>2, <1>3, <1>8 DEF CursorsOwned, At, Continues
<1>10. CallOwned(o)'
  BY <1>3 DEF Materialize, Owning, Owned, CallOwned, Continues
<1>. QED
  BY <1>6, <1>7, <1>9, <1>10 DEF Owned

(* From then on the file is a chain.                                       *)
LEMMA MaterializedOwned == ASSUME NEW o, Owning(o), Materialized PROVE Owned(o)'
<1>1. /\ ~At("idle") /\ op.kind = "append" /\ op.file \in Files /\ op \in OpType /\ op.file # None
      /\ mine \in HandleType /\ mine.open /\ Owns(o, op.file, mine)
  BY OwningCall DEF Materialized, At, Owning, KindOK
<1>2. /\ mine.first # 0 /\ TailOwned(o) /\ o[op.new] = op.file
  BY DEF Materialized, Owning, Owned, CursorsOwned, At
<1>. DEFINE h == Uncached([mine EXCEPT !.nofat = FALSE])
<1>3. h \in HandleType /\ h.first = mine.first /\ h.data = mine.data /\ ~h.nofat /\ h.open
  <2>1. [mine EXCEPT !.nofat = FALSE] \in HandleType
    BY <1>1, Zenon DEF HandleType
  <2>. QED
    BY <1>1, <2>1, UncachedType DEF Uncached, HandleType
<1>4. Owns(o, op.file, h)
  BY <1>1, <1>3 DEF Owns
<1>5. Continues /\ op'.pc = "link" /\ op'.tail = op.tail /\ op'.new = op.new
  BY <1>1 DEF Materialized, Goto, Continues, OpType
<1>6. SetMine(h) /\ UNCHANGED <<fat, used, live, stream, sealed>>
  BY DEF Materialized, device
<1>. HIDE DEF h
<1>7. \A c \in Clusters : o[c] \in live \cup {None}
  BY <1>1 DEF Owning, Owned, CallOwned
<1>8. HandlesOwned(o)' /\ CallOwned(o)' /\ mine' = h
  BY <1>1, <1>3, <1>4, <1>5, <1>6, <1>7, GrownHandle
<1>9. LinksOwned(o)' /\ BitsOwned(o)' /\ RecordsOwned(o)'
  BY <1>6 DEF Owning, Owned, LinksOwned, BitsOwned, RecordsOwned
<1>10. TailOwned(o)'
  BY <1>2, <1>3, <1>5, <1>8 DEF TailOwned, Continues
<1>11. CursorsOwned(o)'
  BY <1>2, <1>3, <1>5, <1>8, <1>10 DEF CursorsOwned, At, Continues
<1>. QED
  BY <1>8, <1>9, <1>11 DEF Owned

(* The link from the tail joins two clusters of the file.                  *)
LEMMA LinkOwned == ASSUME NEW o, Owning(o), Link PROVE Owned(o)'
<1>1. /\ ~At("idle") /\ op.kind = "append" /\ op.file \in Files /\ op \in OpType /\ op.file # None
      /\ mine \in HandleType /\ mine.open /\ Owns(o, op.file, mine) /\ op.new \in Clusters
  BY OwningCall DEF Link, At, Owning, KindOK, TypeOK, OpTypeOK
<1>2. /\ mine.first # 0 /\ op.tail \in Clusters /\ o[op.tail] = op.file /\ o[op.new] = op.file
      /\ ~mine.nofat
  BY DEF Link, Owning, Owned, CursorsOwned, At, TailOwned
<1>. DEFINE h == AddCluster(mine)
<1>3. h \in HandleType /\ h.first = mine.first /\ ~h.nofat /\ h.open
  BY <1>1, <1>2, AddClusterType DEF AddCluster, HandleType
<1>4. Owns(o, op.file, h)
  BY <1>1, <1>2, <1>3 DEF Owns
<1>5. Continues /\ op'.pc = "grow"
  BY <1>1 DEF Link, GrowAgain, Continues, OpType
<1>6. SetMine(h) /\ UNCHANGED <<used, live, stream, sealed>>
  BY DEF Link
<1>. HIDE DEF h
<1>7. \A c \in Clusters : o[c] \in live \cup {None}
  BY <1>1 DEF Owning, Owned, CallOwned
<1>8. HandlesOwned(o)' /\ CallOwned(o)'
  BY <1>1, <1>3, <1>4, <1>5, <1>6, <1>7, GrownHandle
<1>9. LinksOwned(o)'
  <2>1. op.tail # 0 /\ op.tail # 1
    BY <1>2, Parameters
  <2>2. \A c \in FatSlots : fat'[c] = IF c = op.tail THEN op.new ELSE fat[c]
    BY DEF Link, SetFat, Owning, TypeOK, VolumeTypeOK
  <2>3. 0 \in FatSlots /\ 1 \in FatSlots /\ Clusters \subseteq FatSlots
    BY Parameters DEF FatSlots, Clusters
  <2>. QED
    BY <1>1, <1>2, <2>1, <2>2, <2>3 DEF LinksOwned, Owning, Owned
<1>10. BitsOwned(o)' /\ RecordsOwned(o)'
  BY <1>6 DEF Owning, Owned, BitsOwned, RecordsOwned
<1>11. CursorsOwned(o)'
  BY <1>5 DEF CursorsOwned, At
<1>. QED
  BY <1>8, <1>9, <1>10, <1>11 DEF Owned

(* An operation that goes on with the same clusters in its handle.         *)
LEMMA SameExtentOwned ==
    ASSUME NEW o, Owning(o), ~At("idle"), op.kind # "remove", NEW h \in HandleType, SetMine(h),
           h.open, h.first = mine.first, h.data = mine.data, h.nofat = mine.nofat,
           UNCHANGED <<fat, used, live, stream, sealed>>,
           Continues, op'.pc \in {"seek", "transfer", "stream"}
    PROVE  Owned(o)'
<1>1. /\ op.file \in Files /\ op.file \in live /\ handle' = [handle EXCEPT ![op.file] = h]
      /\ handle \in [Files -> HandleType] /\ Owns(o, op.file, mine)
  BY OwningCall DEF SetMine
<1>2. handle'[op.file] = h /\ mine' = h /\ \A f \in Files : f # op.file => handle'[f] = handle[f]
  BY <1>1 DEF mine, Continues
<1>3. Owns(o, op.file, h)
  BY <1>1, OwnsSame
<1>4. HandlesOwned(o)'
  BY <1>1, <1>2, <1>3 DEF Owning, Owned, HandlesOwned
<1>5. CallOwned(o)'
  BY <1>1, <1>2 DEF Owning, Owned, CallOwned, Continues
<1>6. LinksOwned(o)' /\ BitsOwned(o)' /\ RecordsOwned(o)'
  BY DEF Owning, Owned, LinksOwned, BitsOwned, RecordsOwned
<1>7. CursorsOwned(o)'
  BY DEF CursorsOwned, At
<1>. QED
  BY <1>4, <1>5, <1>6, <1>7 DEF Owned

(* The handle takes the new length.                                        *)
LEMMA GrownOwned == ASSUME NEW o, Owning(o), Grown PROVE Owned(o)'
<1>1. /\ ~At("idle") /\ op.kind = "append" /\ op \in OpType /\ mine \in HandleType /\ mine.open
  BY OwningCall DEF Grown, At, Owning, KindOK
<1>. DEFINE h == [mine EXCEPT !.pos = mine.valid, !.valid = NewEnd]
<1>2. NewEnd \in Nat
  BY <1>1 DEF NewEnd, OpType, HandleType
<1>3. h \in HandleType
  BY <1>1, <1>2, Zenon DEF HandleType
<1>4. h.open /\ h.first = mine.first /\ h.data = mine.data /\ h.nofat = mine.nofat
  BY <1>1 DEF HandleType
<1>5. Continues /\ op'.pc = "seek"
  BY <1>1 DEF Grown, Continues, OpType
<1>. QED
  BY <1>1, <1>3, <1>4, <1>5, SameExtentOwned DEF Grown, device

(* A read, a write and the second half of an append find a cluster and     *)
(* move bytes.                                                             *)
LEMMA SeekOwned ==
    ASSUME NEW o, Owning(o), SeekContiguous \/ SeekChained \/ Walk
    PROVE  Owned(o)'
<1>1. ~At("idle") /\ op \in OpType
  BY OwningCall DEF SeekContiguous, SeekChained, Walk, At
<1>2. Continues /\ op'.pc \in {"transfer", "walk"}
  BY <1>1 DEF SeekContiguous, SeekChained, Walk, Continues, OpType, At
<1>3. CursorsOwned(o)'
  BY <1>2 DEF CursorsOwned, At
<1>. QED
  BY <1>1, <1>2, <1>3, LocalOwned DEF SeekContiguous, SeekChained, Walk, device

(* A walk of a transfer ends.                                              *)
LEMMA ArriveOwned == ASSUME NEW o, Owning(o), Arrive PROVE Owned(o)'
<1>1. /\ ~At("idle") /\ op.kind # "remove" /\ op \in OpType /\ mine \in HandleType /\ mine.open
  BY OwningCall DEF Arrive, At
<1>. DEFINE h == [mine EXCEPT !.cachedIndex = Wanted, !.cachedCluster = op.cl]
<1>2. Wanted \in Nat /\ op.cl \in {0} \cup Clusters
  BY <1>1, DivisionType DEF Arrive, At, Owning, TypeOK, OpTypeOK, Wanted, HandleType
<1>3. h \in HandleType
  BY <1>1, <1>2, Zenon DEF HandleType
<1>4. h.open /\ h.first = mine.first /\ h.data = mine.data /\ h.nofat = mine.nofat
  BY <1>1 DEF HandleType
<1>5. Continues /\ op'.pc = "transfer"
  BY <1>1 DEF Arrive, Continues, OpType
<1>6. SetMine(h) /\ UNCHANGED device
  BY DEF Arrive
<1>. HIDE DEF h
<1>. QED
  BY <1>1, <1>3, <1>4, <1>5, <1>6, SameExtentOwned DEF device

(* An operation on a file ends: nobody's clusters change.                  *)
LEMMA EndOwned ==
    ASSUME NEW o, Owning(o), ~At("idle"), op.kind # "remove", op' = Idle,
           UNCHANGED <<fat, used, live>>, RecordsOwned(o)', HandlesOwned(o)'
    PROVE  Owned(o)'
<1>1. \A c \in Clusters : o[c] \in live \cup {None}
  BY DEF Owning, Owned, CallOwned
<1>2. CallOwned(o)'
  BY <1>1, IdleFields DEF CallOwned
<1>3. CursorsOwned(o)'
  BY IdleFields DEF CursorsOwned, At
<1>4. LinksOwned(o)' /\ BitsOwned(o)'
  BY DEF Owning, Owned, LinksOwned, BitsOwned
<1>. QED
  BY <1>2, <1>3, <1>4 DEF Owned

(* A chunk is moved; the handle stays where it is.                         *)
LEMMA TransferChunkOwned == ASSUME NEW o, Owning(o), TransferChunk PROVE Owned(o)'
<1>1. /\ ~At("idle") /\ op.kind \in {"append", "read", "write"} /\ op.kind # "remove"
      /\ op \in OpType /\ mine \in HandleType /\ mine.open
      /\ op.file \in Files /\ op.file \in live /\ Owns(o, op.file, mine)
  BY OwningCall DEF TransferChunk, At
<1>. DEFINE h == [mine EXCEPT !.pos = @ + Chunk]
<1>2. Chunk \in Nat
  BY <1>1, WantedType DEF Owning
<1>3. h \in HandleType
  <2>1. mine.pos + Chunk \in Nat
    BY <1>1, <1>2 DEF HandleType
  <2>. QED
    BY <1>1, <2>1, Zenon DEF HandleType
<1>4. h.open /\ h.first = mine.first /\ h.data = mine.data /\ h.nofat = mine.nofat
  BY <1>1 DEF HandleType
<1>5. SetMine(h) /\ UNCHANGED <<fat, used, live, stream, sealed>>
  BY DEF TransferChunk
<1>6. op' = Idle \/ (Continues /\ op'.pc \in {"stream", "seek"})
  BY <1>1 DEF TransferChunk, AfterTransfer, Continues, OpType
<1>. HIDE DEF h
<1>7. CASE op' = Idle
  <2>1. Owns(o, op.file, h)
    BY <1>1, <1>4, OwnsSame
  <2>2. HandlesOwned(o)'
    BY <1>1, <1>5, <2>1 DEF Owning, Owned, HandlesOwned, SetMine, TypeOK, MemoryTypeOK
  <2>3. RecordsOwned(o)'
    BY <1>5 DEF Owning, Owned, RecordsOwned
  <2>. QED
    BY <1>1, <1>5, <1>7, <2>2, <2>3, EndOwned
<1>8. CASE Continues /\ op'.pc \in {"stream", "seek"}
  BY <1>1, <1>3, <1>4, <1>5, <1>8, SameExtentOwned
<1>. QED
  BY <1>6, <1>7, <1>8

(* The record takes what the handle says.                                  *)
LEMMA UpdateStreamOwned == ASSUME NEW o, Owning(o), UpdateStream PROVE Owned(o)'
<1>1. /\ ~At("idle") /\ op \in OpType /\ mine \in HandleType /\ mine.open
      /\ op.file \in Files /\ op.file \in live /\ Owns(o, op.file, mine)
  BY OwningCall DEF UpdateStream, At, Owning, KindOK, NeverTruncated
<1>. DEFINE s == StreamOf(mine)
<1>2. Owns(o, op.file, s)
  BY <1>1, OwnsSame DEF StreamOf
<1>3. Continues /\ op'.pc = "seal" /\ mine' = mine
  BY <1>1 DEF UpdateStream, Goto, Continues, OpType, mine
<1>4. stream' = [stream EXCEPT ![op.file] = s] /\ stream \in [Files -> Stream]
  BY DEF UpdateStream, Owning, TypeOK, VolumeTypeOK
<1>. HIDE DEF s
<1>5. RecordsOwned(o)'
  BY <1>1, <1>2, <1>4 DEF UpdateStream, Owning, Owned, RecordsOwned
<1>6. LinksOwned(o)' /\ BitsOwned(o)' /\ HandlesOwned(o)'
  BY DEF UpdateStream, Owning, Owned, LinksOwned, BitsOwned, HandlesOwned
<1>7. CallOwned(o)'
  BY <1>3 DEF UpdateStream, Owning, Owned, CallOwned, Continues
<1>8. CursorsOwned(o)'
  BY <1>3 DEF CursorsOwned, At
<1>. QED
  BY <1>5, <1>6, <1>7, <1>8 DEF Owned

(* And the checksum covers it.                                             *)
LEMMA SealOwned == ASSUME NEW o, Owning(o), Seal PROVE Owned(o)'
<1>1. ~At("idle") /\ op.file \in Files /\ op.kind # "remove"
  BY OwningCall DEF Seal, At
<1>2. sealed' = [sealed EXCEPT ![op.file] = stream[op.file]] /\ sealed \in [Files -> Stream]
  BY DEF Seal, Owning, TypeOK, VolumeTypeOK
<1>3. RecordsOwned(o)'
  BY <1>1, <1>2 DEF Seal, Owning, Owned, RecordsOwned
<1>4. HandlesOwned(o)'
  BY DEF Seal, Owning, Owned, HandlesOwned
<1>. QED
  BY <1>1, <1>3, <1>4, EndOwned DEF Seal

-----------------------------------------------------------------------------
(* remove, and how operations end.                                         *)

(* What a removed file still owned when its operation ends is nobody's:    *)
(* either its bit is clear, or it is lost.                                 *)
LEMMA ClearedOwned ==
    ASSUME NEW o \in OwnerMaps, NEW g, TypeOK', g \notin live', op' = Idle,
           LinksOwned(o)', BitsOwned(o)', RecordsOwned(o)', HandlesOwned(o)',
           \A c \in Clusters : o[c] \in live' \cup {None, g}
    PROVE  \E w \in OwnerMaps : Owned(w)' /\ Handover(o, w)
<1>1. PICK w : w = [c \in Clusters |-> IF o[c] = g THEN None ELSE o[c]]
  OBVIOUS
<1>2. /\ w \in OwnerMaps
      /\ \A c \in Clusters : w[c] # None => w[c] = o[c]
      /\ \A c \in Clusters : o[c] # g => w[c] = o[c]
      /\ \A c \in Clusters : o[c] = g => w[c] = None
  BY <1>1 DEF OwnerMaps
<1>3. live' \subseteq Files /\ None \notin Files
  BY Parameters DEF TypeOK, VolumeTypeOK
<1>4. \A f \in live' : \A s : Owns(o, f, s) => Owns(w, f, s)
  BY <1>2 DEF Owns
<1>5. LinksOwned(w)'
  BY <1>2 DEF LinksOwned
<1>6. BitsOwned(w)'
  BY <1>2, <1>3 DEF BitsOwned
<1>7. RecordsOwned(w)' /\ HandlesOwned(w)'
  BY <1>4 DEF RecordsOwned, HandlesOwned
<1>8. CallOwned(w)'
  BY <1>2, IdleFields DEF CallOwned
<1>9. CursorsOwned(w)'
  BY IdleFields DEF CursorsOwned, At
<1>10. Handover(o, w)
  BY <1>2 DEF Handover
<1>. QED
  BY <1>2, <1>10, <1>5, <1>6, <1>7, <1>8, <1>9 DEF Owned

(* An entry of the FAT is cleared; the next cluster is known before.       *)
LEMMA FreeLinkOwned == ASSUME NEW o, Owning(o), FreeLink PROVE Owned(o)'
<1>1. /\ ~At("idle") /\ op \in OpType /\ op.file \in Files /\ op.file # None /\ op.kind = "remove"
      /\ op.pc = "free" /\ op.file \notin live
  BY OwningCall DEF FreeLink, At, Owning, KindOK, NeverTruncated
<1>2. op.cl \in Clusters /\ o[op.cl] = op.file
  BY <1>1 DEF Owning, Owned, CursorsOwned
<1>3. /\ Continues /\ op'.pc = "unmark" /\ op'.cl = op.cl /\ op'.next = NextToFree /\ mine' = mine
  BY <1>1 DEF FreeLink, Continues, OpType, mine
<1>4. NextToFree \in Clusters => o[NextToFree] = op.file
  <2>1. NextToFree = op.cl \/ NextToFree = fat[op.cl]
    BY <1>1 DEF NextToFree
  <2>2. fat[op.cl] \in Clusters => o[fat[op.cl]] = op.file
    BY <1>1, <1>2 DEF Owning, Owned, LinksOwned
  <2>. QED
    BY <1>2, <2>1, <2>2
<1>5. LinksOwned(o)'
  <2>1. \A c \in FatSlots : fat'[c] = IF c = op.cl THEN 0 ELSE fat[c]
    BY DEF FreeLink, SetFat, Owning, TypeOK, VolumeTypeOK
  <2>2. 0 \in FatSlots /\ 1 \in FatSlots /\ Clusters \subseteq FatSlots /\ 0 \notin Clusters
    BY Parameters DEF FatSlots, Clusters
  <2>. QED
    BY <2>1, <2>2 DEF LinksOwned, Owning, Owned
<1>6. BitsOwned(o)' /\ RecordsOwned(o)' /\ HandlesOwned(o)'
  BY DEF FreeLink, Owning, Owned, BitsOwned, RecordsOwned, HandlesOwned
<1>7. CursorsOwned(o)'
  BY <1>2, <1>3, <1>4 DEF CursorsOwned, At, Continues
<1>8. CallOwned(o)'
  BY <1>1, <1>3 DEF FreeLink, Owning, Owned, CallOwned, Continues
<1>. QED
  BY <1>5, <1>6, <1>7, <1>8 DEF Owned

(* A bit is cleared: that of a cluster of a file that is no more.          *)
LEMMA UnmarkOwned ==
    ASSUME NEW o, Owning(o), Unmark, TypeOK'
    PROVE  \E w \in OwnerMaps : Owned(w)' /\ Handover(o, w)
<1>1. /\ ~At("idle") /\ op \in OpType /\ op.file \in Files /\ op.file # None /\ op.kind = "remove"
      /\ op.pc = "unmark" /\ op.file \notin live
  BY OwningCall DEF Unmark, At, Owning, KindOK, NeverTruncated
<1>2. op.cl \in Clusters /\ o[op.cl] = op.file /\ (op.next \in Clusters => o[op.next] = op.file)
  BY <1>1 DEF Owning, Owned, CursorsOwned, At
<1>3. used' = used \ {op.cl} /\ UNCHANGED <<fat, live, stream, sealed, handle>>
  BY DEF Unmark, SetBitmap
<1>4. LinksOwned(o)' /\ RecordsOwned(o)' /\ HandlesOwned(o)'
  BY <1>3 DEF Owning, Owned, LinksOwned, RecordsOwned, HandlesOwned
<1>5. BitsOwned(o)'
  BY <1>1, <1>2, <1>3 DEF Owning, Owned, BitsOwned
<1>6. \A c \in Clusters : o[c] \in live' \cup {None, op.file}
  BY <1>3 DEF Owning, Owned, CallOwned
<1>7. CASE op' = Idle
  BY <1>1, <1>3, <1>4, <1>5, <1>6, <1>7, ClearedOwned DEF Owning
<1>8. CASE /\ op' = [op EXCEPT !.pc = "free", !.cl = op.next, !.next = 0, !.left = op.left - 1]
           /\ op.next \in Clusters
  <2>1. Continues /\ op'.pc = "free" /\ op'.cl = op.next /\ mine' = mine
    BY <1>1, <1>3, <1>8 DEF Continues, OpType, mine
  <2>2. CursorsOwned(o)'
    BY <1>2, <1>8, <2>1 DEF CursorsOwned, At, Continues
  <2>3. CallOwned(o)'
    BY <1>1, <1>3, <2>1 DEF Owning, Owned, CallOwned, Continues
  <2>. QED
    BY <1>4, <1>5, <2>2, <2>3, HandoverNothing DEF Owned, Owning
<1>. QED
  BY <1>1, <1>7, <1>8 DEF Unmark

(* An operation stops: append gives the handle back that it was given.     *)
LEMMA StopOwned ==
    ASSUME NEW o, Owning(o), TypeOK', ~At("idle"), op' = Idle, UNCHANGED device, HandlesOwned(o)'
    PROVE  \E w \in OwnerMaps : Owned(w)' /\ Handover(o, w)
<1>1. LinksOwned(o)' /\ BitsOwned(o)' /\ RecordsOwned(o)'
  BY DEF Owning, Owned, LinksOwned, BitsOwned, RecordsOwned, device
<1>2. CASE op.kind = "remove"
  <2>1. op.file \notin live' /\ \A c \in Clusters : o[c] \in live' \cup {None, op.file}
    BY <1>2 DEF Owning, Owned, CallOwned, device
  <2>. QED
    BY <1>1, <2>1, ClearedOwned DEF Owning
<1>3. CASE op.kind # "remove"
  BY <1>1, <1>3, EndOwned, HandoverNothing DEF device, Owning
<1>. QED
  BY <1>2, <1>3

(* An error: append gives back the handle that it put aside.               *)
LEMMA FailOwned ==
    ASSUME NEW o, Owning(o), TypeOK', ~At("idle"), Fail
    PROVE  \E w \in OwnerMaps : Owned(w)' /\ Handover(o, w)
<1>1. /\ op.file \in Files /\ mine = handle[op.file] /\ handle \in [Files -> HandleType]
      /\ op.kind \in {"append", "read", "write", "remove"} /\ live' = live
      /\ (op.kind # "remove" => op.file \in live)
  BY OwningCall DEF Fail, device
<1>2. CASE op.kind = "append"
  <2>1. handle' = [handle EXCEPT ![op.file] = op.saved]
    BY <1>2 DEF Fail, SetMine
  <2>2. HandlesOwned(o)'
    BY <1>1, <1>2, <2>1 DEF Owning, Owned, HandlesOwned, CallOwned
  <2>. QED
    BY <2>2, StopOwned DEF Fail
<1>3. CASE op.kind # "append"
  <2>1. handle' = handle
    BY <1>1, <1>3 DEF Fail, SetMine
  <2>2. HandlesOwned(o)'
    BY <1>1, <2>1 DEF Owning, Owned, HandlesOwned
  <2>. QED
    BY <2>2, StopOwned DEF Fail
<1>. QED
  BY <1>2, <1>3

(* A dropped future, and a power cut.                                      *)
LEMMA CancelOwned ==
    ASSUME NEW o, Owning(o), TypeOK', Cancel
    PROVE  \E w \in OwnerMaps : Owned(w)' /\ Handover(o, w)
<1>1. ~At("idle")
  BY DEF Cancel, IoLabels, At
<1>2. /\ op.file \in Files /\ mine = handle[op.file] /\ handle \in [Files -> HandleType]
      /\ live' = live
  BY <1>1, OwningCall DEF Cancel, device
<1>3. \A f \in Files : handle'[f] = handle[f] \/ handle'[f] = Closed
  BY <1>2 DEF Cancel, SetMine
<1>4. ~Closed.open
  BY DEF Closed, OpenOn
<1>5. HandlesOwned(o)'
  BY <1>2, <1>3, <1>4 DEF Owning, Owned, HandlesOwned
<1>. QED
  BY <1>1, <1>5, StopOwned DEF Cancel

(* A mount, or a power cut and a mount.                                    *)
LEMMA RestartOwned ==
    ASSUME NEW o, Owning(o), TypeOK', Restart
    PROVE  \E w \in OwnerMaps : Owned(w)' /\ Handover(o, w)
<1>1. \A f \in Files : ~handle'[f].open
  BY DEF Restart, Closed, OpenOn
<1>2. HandlesOwned(o)'
  BY <1>1 DEF HandlesOwned
<1>3. CASE At("idle")
  <2>1. op' = op
    BY <1>3 DEF Restart, Owning, KindOK
  <2>2. Owned(o)'
    BY <1>2, <1>3, <2>1 DEF Restart, device, Owning, Owned, LinksOwned, BitsOwned, RecordsOwned,
       CursorsOwned, CallOwned, KindOK, Idle, At
  <2>. QED
    BY <2>2, HandoverNothing DEF Owning
<1>4. CASE ~At("idle")
  BY <1>2, <1>4, StopOwned DEF Restart
<1>. QED
  BY <1>3, <1>4

-----------------------------------------------------------------------------
(* Calls.                                                                  *)

(* Between operations every owner is a file of the volume.                 *)
LEMMA IdleOwns ==
    ASSUME NEW o, Owning(o), At("idle")
    PROVE  /\ op = Idle /\ \A c \in Clusters : o[c] \in live \cup {None}
           /\ handle \in [Files -> HandleType] /\ live \subseteq Files
           /\ stream \in [Files -> Stream] /\ sealed \in [Files -> Stream]
BY IdleFields DEF Owning, Owned, KindOK, CallOwned, TypeOK, MemoryTypeOK, VolumeTypeOK

(* A call that only gives or takes a handle.                               *)
LEMMA HandleCallOwned ==
    ASSUME NEW o, Owning(o), At("idle"), NEW f \in Files, NEW h, h.open => f \in live /\ Owns(o, f, h),
           handle' = [handle EXCEPT ![f] = h], UNCHANGED <<device, op>>
    PROVE  Owned(o)'
<1>1. HandlesOwned(o)'
  BY IdleOwns DEF Owning, Owned, HandlesOwned, device
<1>2. LinksOwned(o)' /\ BitsOwned(o)' /\ RecordsOwned(o)'
  BY DEF Owning, Owned, LinksOwned, BitsOwned, RecordsOwned, device
<1>3. CursorsOwned(o)' /\ CallOwned(o)'
  BY IdleOwns, IdleFields DEF CursorsOwned, CallOwned, At, device
<1>. QED
  BY <1>1, <1>2, <1>3 DEF Owned

(* Opening gives a handle of the record, dropping takes one.               *)
LEMMA OpenCloseOwned ==
    ASSUME NEW o, Owning(o), NEW f \in Files, Open(f) \/ Close(f)
    PROVE  Owned(o)'
<1>1. ~Closed.open
  BY DEF Closed, OpenOn
<1>2. CASE Close(f)
  BY <1>1, <1>2, HandleCallOwned DEF Close
<1>3. CASE Open(f)
  <2>1. Owns(o, f, stream[f])
    BY <1>3 DEF Open, Owning, Owned, RecordsOwned
  <2>2. Owns(o, f, OpenOn(stream[f]))
    BY <2>1, OwnsSame DEF OpenOn
  <2>. QED
    BY <1>3, <2>2, HandleCallOwned DEF Open
<1>. QED
  BY <1>2, <1>3

(* A new file owns nothing, whatever its name owned before.                *)
LEMMA CreateAbsentOwned ==
    ASSUME NEW o, Owning(o), NEW f \in Files, CreateAbsent(f)
    PROVE  Owned(o)'
<1>1. At("idle") /\ f \notin live /\ live' = live \cup {f} /\ op' = op
  BY DEF CreateAbsent
<1>2. /\ NoStream.first = 0 /\ NoStream.data = 0 /\ OpenOn(NoStream).first = 0
      /\ OpenOn(NoStream).data = 0
  BY DEF NoStream, OpenOn
<1>3. CeilDiv(0, ClusterBytes) = 0
  BY ClusterCounts
<1>4. Owns(o, f, NoStream) /\ Owns(o, f, OpenOn(NoStream))
  BY <1>2, <1>3 DEF Owns
<1>5. RecordsOwned(o)' /\ HandlesOwned(o)'
  BY <1>1, <1>4, IdleOwns DEF CreateAbsent, Owning, Owned, RecordsOwned, HandlesOwned
<1>6. LinksOwned(o)' /\ BitsOwned(o)'
  BY <1>1, IdleOwns, Parameters DEF CreateAbsent, Owning, Owned, LinksOwned, BitsOwned
<1>7. CursorsOwned(o)' /\ CallOwned(o)'
  BY <1>1, IdleOwns, IdleFields DEF CursorsOwned, CallOwned, At
<1>. QED
  BY <1>5, <1>6, <1>7 DEF Owned

(* append puts its handle aside.                                           *)
LEMMA AppendOwned ==
    ASSUME NEW o, Owning(o), NEW f \in Files, NEW n, NEW v, Append(f, n, v)
    PROVE  Owned(o)'
<1>1. /\ At("idle") /\ handle[f].open /\ handle[f] \in HandleType
      /\ handle' = [handle EXCEPT ![f] = Uncached(handle[f])] /\ UNCHANGED device
  BY IdleOwns DEF Append
<1>2. f \in live /\ Owns(o, f, handle[f])
  BY <1>1 DEF Owning, Owned, HandlesOwned
<1>3. Uncached(handle[f]).open /\ Owns(o, f, Uncached(handle[f]))
  <2>1. /\ Uncached(handle[f]).open /\ Uncached(handle[f]).first = handle[f].first
        /\ Uncached(handle[f]).data = handle[f].data /\ Uncached(handle[f]).nofat = handle[f].nofat
    BY <1>1 DEF Uncached, HandleType
  <2>. QED
    BY <1>2, <2>1, OwnsSame
<1>4. HandlesOwned(o)'
  BY <1>1, <1>2, <1>3, IdleOwns DEF Owning, Owned, HandlesOwned, device
<1>5. LinksOwned(o)' /\ BitsOwned(o)' /\ RecordsOwned(o)'
  BY <1>1 DEF Owning, Owned, LinksOwned, BitsOwned, RecordsOwned, device
<1>6. /\ op'.pc = "grow" /\ op'.kind = "append" /\ op'.file = f /\ op'.saved = handle[f]
  BY IdleFields DEF Append, OpType
<1>7. mine'.open
  BY <1>1, <1>3, <1>6, IdleOwns DEF mine
<1>8. CallOwned(o)'
  BY <1>1, <1>2, <1>6, <1>7, IdleOwns DEF CallOwned, device
<1>9. CursorsOwned(o)'
  BY <1>6 DEF CursorsOwned, At
<1>. QED
  BY <1>4, <1>5, <1>8, <1>9 DEF Owned

(* A transfer starts.                                                      *)
LEMMA StartTransferOwned ==
    ASSUME NEW o, Owning(o), NEW f \in Files, NEW n \in Nat, NEW v, NEW kind \in {"read", "write"},
           StartTransfer(f, n, v, kind)
    PROVE  Owned(o)'
<1>1. At("idle") /\ handle[f].open /\ UNCHANGED <<device, handle>>
  BY DEF StartTransfer
<1>2. op'.pc = "seek" /\ op'.kind = kind /\ op'.file = f
  BY IdleFields DEF StartTransfer, OpType
<1>3. mine'.open
  BY <1>1, <1>2 DEF mine
<1>4. CallOwned(o)'
  BY <1>1, <1>2, <1>3, IdleOwns DEF CallOwned, device
<1>5. CursorsOwned(o)'
  BY <1>2 DEF CursorsOwned, At
<1>6. LinksOwned(o)' /\ BitsOwned(o)' /\ RecordsOwned(o)' /\ HandlesOwned(o)'
  BY <1>1 DEF Owning, Owned, LinksOwned, BitsOwned, RecordsOwned, HandlesOwned, device
<1>. QED
  BY <1>4, <1>5, <1>6 DEF Owned

(* The entry set goes first; the clusters still have their owner.          *)
LEMMA RemoveOwned ==
    ASSUME NEW o, Owning(o), NEW f \in Files, Remove(f), TypeOK'
    PROVE  \E w \in OwnerMaps : Owned(w)' /\ Handover(o, w)
<1>1. /\ At("idle") /\ f \in live /\ ~handle[f].open /\ live' = live \ {f}
      /\ UNCHANGED <<fat, used, stream, sealed, handle>>
  BY DEF Remove
<1>2. LinksOwned(o)' /\ BitsOwned(o)' /\ RecordsOwned(o)' /\ HandlesOwned(o)'
  BY <1>1 DEF Owning, Owned, LinksOwned, BitsOwned, RecordsOwned, HandlesOwned
<1>3. \A c \in Clusters : o[c] \in live' \cup {None, f}
  BY <1>1, IdleOwns
<1>4. CASE op' = Idle
  BY <1>1, <1>2, <1>3, <1>4, ClearedOwned DEF Owning
<1>5. CASE op' # Idle
  <2>1. /\ op'.pc = "free" /\ op'.kind = "remove" /\ op'.file = f /\ op'.cl = stream[f].first
        /\ stream[f].first # 0
    BY <1>5, IdleFields DEF Remove, OpType
  <2>2. op'.cl \in Clusters /\ o[op'.cl] = f
    BY <1>1, <2>1 DEF Owning, Owned, RecordsOwned, Owns
  <2>3. CursorsOwned(o)'
    BY <2>1, <2>2 DEF CursorsOwned, At
  <2>4. CallOwned(o)'
    BY <1>1, <1>3, <2>1 DEF CallOwned
  <2>. QED
    BY <1>2, <2>3, <2>4, HandoverNothing DEF Owning, Owned
<1>. QED
  BY <1>4, <1>5

-----------------------------------------------------------------------------
(* The volume another implementation left.                                 *)

(* Its files do not share clusters, and an empty one has none.             *)
VolumeApart ==
    /\ \A f \in DOMAIN Preexisting : Preexisting[f].data = 0 => Preexisting[f].first = 0
    /\ \A f, g \in DOMAIN Preexisting : f # g => PreexistingExtent(f) \cap PreexistingExtent(g) = {}

(* The clusters of a contiguous stretch are those counted from its first.  *)
LEMMA PreexistingClusters ==
    ASSUME NEW f \in DOMAIN Preexisting, NEW n, n = CeilDiv(Preexisting[f].data, ClusterBytes)
    PROVE  /\ n \in Nat /\ Preexisting[f].first \in Nat /\ Preexisting[f] \in Stream
           /\ PreexistingExtent(f) \subseteq Clusters \ SystemClusters
           /\ \A i \in 0..(n - 1) : Preexisting[f].first + i \in PreexistingExtent(f)
           /\ \A c \in PreexistingExtent(f) : c # PreexistingLast(f) => c + 1 \in PreexistingExtent(f)
           /\ Preexisting[f].data # 0 => n # 0
<1>1. /\ Preexisting[f] \in Stream
      /\ \A i \in 0..(n - 1) : Preexisting[f].first + i \in Clusters \ SystemClusters
  BY PreexistingAssumption
<1>2. Preexisting[f].first \in {0} \cup Clusters /\ Preexisting[f].data \in Nat
  BY <1>1 DEF Stream
<1>3. Preexisting[f].first \in Nat /\ n \in Nat
  BY <1>2, DivisionType DEF Clusters
<1>4. PreexistingExtent(f) = Preexisting[f].first..(Preexisting[f].first + n - 1)
  BY DEF PreexistingExtent, PreexistingLast
<1>5. ASSUME NEW c \in PreexistingExtent(f) PROVE c \in Clusters \ SystemClusters
  <2>. DEFINE i == c - Preexisting[f].first
  <2>1. i \in 0..(n - 1) /\ c = Preexisting[f].first + i
    BY <1>3, <1>4, <1>5
  <2>. QED
    BY <1>1, <2>1
<1>6. \A i \in 0..(n - 1) : Preexisting[f].first + i \in PreexistingExtent(f)
  BY <1>3, <1>4
<1>7. \A c \in PreexistingExtent(f) : c # PreexistingLast(f) => c + 1 \in PreexistingExtent(f)
  BY <1>3, <1>4 DEF PreexistingLast
<1>8. Preexisting[f].data # 0 => n # 0
  BY <1>2, CeilPositive
<1>. QED
  BY <1>1, <1>3, <1>5, <1>6, <1>7, <1>8

(* Each file owns the clusters it was left in, and no others.              *)
LeftIn(o) ==
    \A c \in Clusters : o[c] # None => o[c] \in DOMAIN Preexisting /\ c \in PreexistingExtent(o[c])

(* At first that is the owner map.                                         *)
LEMMA InitOwned ==
    ASSUME Init, VolumeApart
    PROVE  \E o \in OwnerMaps : Owned(o) /\ LeftIn(o)
<1>. DEFINE holds(c) == {f \in live : c \in PreexistingExtent(f)}
<1>1. PICK o : o = [c \in Clusters |-> IF holds(c) = {} THEN None ELSE CHOOSE f \in holds(c) : TRUE]
  OBVIOUS
<1>2. live = DOMAIN Preexisting /\ live \subseteq Files /\ None \notin live
  BY PreexistingAssumption, Parameters DEF Init
<1>3. \A f \in live : PreexistingExtent(f) \subseteq Clusters \ SystemClusters
  BY <1>2, PreexistingClusters
<1>4. ASSUME NEW c \in Clusters
      PROVE  /\ o[c] \in live \cup {None}
             /\ o[c] # None => c \in PreexistingExtent(o[c])
             /\ \A f \in live : c \in PreexistingExtent(f) => o[c] = f
  <2>1. o[c] = IF holds(c) = {} THEN None ELSE CHOOSE f \in holds(c) : TRUE
    BY <1>1
  <2>2. CASE holds(c) = {}
    BY <2>1, <2>2
  <2>3. CASE holds(c) # {}
    <3>1. o[c] \in holds(c)
      BY <2>1, <2>3
    <3>2. \A f, g \in holds(c) : f = g
      BY <1>2 DEF VolumeApart
    <3>3. o[c] \in live /\ c \in PreexistingExtent(o[c])
      BY <3>1
    <3>. QED
      BY <3>1, <3>2, <3>3
  <2>. QED
    BY <2>2, <2>3
<1>5. o \in OwnerMaps
  <2>1. DOMAIN o = Clusters /\ o = [c \in Clusters |-> o[c]]
    BY <1>1
  <2>. QED
    BY <1>2, <1>4, <2>1 DEF OwnerMaps
<1>. HIDE DEF holds
<1>6. ASSUME NEW f \in live PROVE Owns(o, f, Preexisting[f])
  <2>. DEFINE s == Preexisting[f]
              n == CeilDiv(s.data, ClusterBytes)
  <2>1. /\ n \in Nat /\ s.first \in Nat /\ s \in Stream
        /\ PreexistingExtent(f) \subseteq Clusters \ SystemClusters
        /\ \A i \in 0..(n - 1) : s.first + i \in PreexistingExtent(f)
        /\ s.data # 0 => n # 0
    BY <1>2, PreexistingClusters
  <2>2. \A i \in 0..(n - 1) : s.first + i \in Clusters /\ o[s.first + i] = f
    BY <1>4, <2>1
  <2>3. s.data = 0 => s.first = 0
    BY <1>2 DEF VolumeApart
  <2>4. s.data # 0 => s.first \in Clusters /\ o[s.first] = f
    <3>1. n # 0 => 0 \in 0..(n - 1) /\ s.first + 0 = s.first
      BY <2>1
    <3>. QED
      BY <2>1, <2>2, <3>1
  <2>5. s.first = 0 => s.data = 0
    BY <2>4, Parameters
  <2>. QED
    BY <2>2, <2>3, <2>4, <2>5 DEF Owns
<1>7. LinksOwned(o)
  <2>1. 0 \in FatSlots /\ 1 \in FatSlots /\ Clusters \subseteq FatSlots /\ EndOfChain \notin Clusters
        /\ 0 \notin Clusters
    BY Parameters DEF FatSlots, Clusters, EndOfChain
  <2>2. fat[0] = EndOfChain /\ fat[1] = EndOfChain
    BY <2>1 DEF Init
  <2>3. ASSUME NEW c \in Clusters, o[c] # None, fat[c] \in Clusters PROVE o[fat[c]] = o[c]
    <3>1. /\ fat[c] = c + 1
          /\ \E f \in live : ~Preexisting[f].nofat /\ c \in PreexistingExtent(f)
          /\ ~\E f \in live : ~Preexisting[f].nofat /\ c = PreexistingLast(f)
      BY <2>1, <2>3 DEF Init
    <3>2. PICK f \in live : c \in PreexistingExtent(f) /\ c # PreexistingLast(f)
      BY <3>1
    <3>3. c + 1 \in PreexistingExtent(f)
      BY <1>2, <3>2, PreexistingClusters
    <3>. QED
      BY <1>4, <2>3, <3>1, <3>2, <3>3
  <2>. QED
    BY <2>1, <2>2, <2>3 DEF LinksOwned
<1>8. BitsOwned(o)
  <2>1. used = SystemClusters \cup UNION {PreexistingExtent(f) : f \in live}
    BY DEF Init
  <2>2. ASSUME NEW c \in Clusters, o[c] # None PROVE c \notin SystemClusters /\ c \in used
    BY <1>3, <1>4, <2>1, <2>2
  <2>. QED
    BY <1>2, <2>1, <2>2 DEF BitsOwned
<1>9. RecordsOwned(o)
  <2>1. \A f \in live : stream[f] = Preexisting[f] /\ sealed[f] = Preexisting[f]
    BY <1>2 DEF Init
  <2>. QED
    BY <1>6, <2>1 DEF RecordsOwned
<1>10. HandlesOwned(o)
  BY DEF Init, HandlesOwned, Closed, OpenOn
<1>11. CursorsOwned(o) /\ CallOwned(o)
  BY <1>4, IdleFields DEF Init, CursorsOwned, CallOwned, At
<1>12. LeftIn(o)
  BY <1>2, <1>4 DEF LeftIn
<1>. QED
  BY <1>5, <1>7, <1>8, <1>9, <1>10, <1>11, <1>12 DEF Owned

-----------------------------------------------------------------------------
(* Every step keeps an owner map.                                          *)

SomeOwner == \E o \in OwnerMaps : Owned(o)

(* The steps of an operation.                                              *)
LEMMA StepOwned ==
    ASSUME NEW o, Owning(o), TypeOK', Step
    PROVE  \E w \in OwnerMaps : Owned(w)' /\ Handover(o, w)
<1>1. o \in OwnerMaps
  BY DEF Owning
<1>2. CASE GrowEmpty \/ GrowContiguous \/ GrowChained \/ FollowTail \/ FoundTail \/ Claim \/ MarkUsed
  BY <1>1, <1>2, HandoverNothing, GrowEmptyOwned, GrowContiguousOwned, GrowChainedOwned, FollowTailOwned,
     FoundTailOwned, ClaimOwned, MarkUsedOwned
<1>3. CASE TerminateFirst \/ TerminateAdjacent \/ TerminateDetached
  BY <1>3, TerminateFirstOwned, TerminateAdjacentOwned, TerminateDetachedOwned
<1>4. CASE Materialize \/ Materialized \/ Link \/ Grown
  BY <1>1, <1>4, HandoverNothing, MaterializeOwned, MaterializedOwned, LinkOwned, GrownOwned
<1>5. CASE SeekContiguous \/ SeekChained \/ Walk \/ Arrive \/ TransferChunk
  BY <1>1, <1>5, HandoverNothing, SeekOwned, ArriveOwned, TransferChunkOwned
<1>6. CASE UpdateStream \/ Seal \/ FreeLink \/ Unmark
  BY <1>1, <1>6, HandoverNothing, UpdateStreamOwned, SealOwned, FreeLinkOwned, UnmarkOwned
<1>7. CASE KeepContiguous \/ KeepFollow \/ KeepFound \/ Cut
  <2>1. op.pc \in {"keep", "cut"} /\ ~At("idle")
    BY <1>7 DEF KeepContiguous, KeepFollow, KeepFound, Cut, At
  <2>. QED
    BY <2>1, OwningCall DEF Owning, KindOK
<1>8. CASE Freed
  <2>1. op.pc = "free" /\ op.left = 0 /\ ~At("idle")
    BY <1>8 DEF Freed, At
  <2>. QED
    BY <2>1, OwningCall DEF Owning, KindOK, NeverTruncated, At
<1>9. CASE ReturnError
  <2>1. ~At("idle")
    BY <1>9 DEF ReturnError, CheckFails, Growing, At
  <2>. QED
    BY <1>9, <2>1, FailOwned DEF ReturnError
<1>. QED
  BY <1>2, <1>3, <1>4, <1>5, <1>6, <1>7, <1>8, <1>9 DEF Step

(* The calls.                                                              *)
LEMMA CallOwns ==
    ASSUME NEW o, Owning(o), TypeOK', NEW f \in Files, Calls(f)
    PROVE  \E w \in OwnerMaps : Owned(w)' /\ Handover(o, w)
<1>1. o \in OwnerMaps
  BY DEF Owning
<1>2. CASE Open(f) \/ Close(f) \/ CreateAbsent(f) \/ Remove(f)
  BY <1>1, <1>2, HandoverNothing, OpenCloseOwned, CreateAbsentOwned, RemoveOwned
<1>3. CASE CreateExisting(f) \/ \E len \in 0..MaxLength : Truncate(f, len)
  BY <1>3 DEF CreateExisting, Truncate, Owning, NeverTruncated
<1>4. CASE \E n \in 1..MaxLength : \/ Read(f, n)
                                   \/ \E v \in Payload[f] : Append(f, n, v) \/ Write(f, n, v)
  <2>1. PICK n \in 1..MaxLength : \/ Read(f, n)
                                  \/ \E v \in Payload[f] : Append(f, n, v) \/ Write(f, n, v)
    BY <1>4
  <2>2. n \in Nat
    OBVIOUS
  <2>3. CASE Read(f, n)
    BY <1>1, <2>2, <2>3, HandoverNothing, StartTransferOwned DEF Read
  <2>4. ASSUME NEW v, Append(f, n, v) \/ Write(f, n, v) PROVE Owned(o)'
    BY <2>2, <2>4, AppendOwned, StartTransferOwned DEF Write
  <2>. QED
    BY <1>1, <2>1, <2>3, <2>4, HandoverNothing
<1>. QED
  BY <1>2, <1>3, <1>4 DEF Calls

(* All of them, with errors, dropped futures and power cuts.               *)
LEMMA NextOwned ==
    ASSUME NEW o, Owning(o), TypeOK', [Next]_vars
    PROVE  \E w \in OwnerMaps : Owned(w)' /\ Handover(o, w)
<1>1. o \in OwnerMaps /\ Owned(o)
  BY DEF Owning
<1>2. CASE RefreshFreeClusters \/ UNCHANGED vars
  <2>1. UNCHANGED <<fat, used, live, stream, sealed, handle, op>>
    BY <1>2 DEF RefreshFreeClusters, vars, device
  <2>2. Owned(o)'
    BY <1>1, <2>1 DEF Owned, LinksOwned, BitsOwned, RecordsOwned, HandlesOwned, CursorsOwned,
       TailOwned, CallOwned, At, mine
  <2>. QED
    BY <1>1, <2>2, HandoverNothing
<1>3. CASE Remount \/ Crash
  BY <1>3, RestartOwned DEF Remount, Crash
<1>4. CASE IoError
  <2>1. ~At("idle") /\ Fail
    BY <1>4 DEF IoError, IoLabels, At
  <2>. QED
    BY <2>1, FailOwned
<1>. QED
  BY <1>2, <1>3, <1>4, StepOwned, CallOwns, CancelOwned DEF Next

(* There is always an owner map: whatever fails, is cut off or dropped.    *)
LEMMA OwnerInvariant ==
    ASSUME VolumeApart, NeverTruncated PROVE Spec => []SomeOwner
<1>1. Init => SomeOwner
  BY InitOwned DEF SomeOwner
<1>2. ASSUME TypeOK, KindOK, SomeOwner, TypeOK', [Next]_vars PROVE SomeOwner'
  <2>1. PICK o \in OwnerMaps : Owned(o)
    BY <1>2 DEF SomeOwner
  <2>2. Owning(o)
    BY <1>2, <2>1 DEF Owning
  <2>3. \E w \in OwnerMaps : Owned(w)'
    BY <1>2, <2>2, NextOwned
  <2>. QED
    BY <2>3 DEF SomeOwner
<1>. QED
  BY <1>1, <1>2, TypeCorrect, KindInvariant, PTL DEF Spec

-----------------------------------------------------------------------------
(* The clusters of a stream, one by one.                                   *)

(* The clusters of a stream, in file order, as the links of F lead.        *)
ChainIn(F, s) ==
    LET c[i \in 0..ClusterCount] ==
            IF i = 0 THEN s.first
            ELSE IF s.nofat THEN c[i - 1] + 1
            ELSE IF c[i - 1] \in FatSlots THEN F[c[i - 1]] ELSE 0
    IN  c

(* Records, and handles as far as they say where the file lies.            *)
Located(s) == s.first \in {0} \cup Clusters /\ s.data \in Nat /\ s.nofat \in BOOLEAN

(* ChainOf follows the active FAT.                                         *)
LEMMA ActiveChain == \A s : ChainOf(s) = ChainIn(fat, s)
BY DEF ChainOf, ChainIn

(* The recursion of a chain, unfolded.                                     *)
LEMMA ChainEquation ==
    ASSUME NEW F \in [FatSlots -> Nat], NEW s, Located(s)
    PROVE  /\ ChainIn(F, s) \in [0..ClusterCount -> Nat] /\ ChainIn(F, s)[0] = s.first
           /\ \A i \in 1..ClusterCount :
                ChainIn(F, s)[i] = IF s.nofat THEN ChainIn(F, s)[i - 1] + 1
                                   ELSE IF ChainIn(F, s)[i - 1] \in FatSlots
                                   THEN F[ChainIn(F, s)[i - 1]] ELSE 0
<1>. DEFINE Follow(c) == IF s.nofat THEN c + 1 ELSE IF c \in FatSlots THEN F[c] ELSE 0
            step == [i \in 1..ClusterCount |-> [c \in Nat |-> Follow(c)]]
<1>1. s.first \in Nat /\ ClusterCount \in Nat
  <2>1. s.first \in {0} \cup Clusters
    BY DEF Located
  <2>2. s.first \in Nat
    BY <2>1 DEF Clusters
  <2>. QED
    BY <2>2, Parameters
<1>2. step \in [1..ClusterCount -> [Nat -> Nat]]
  BY <1>1
<1>. HIDE DEF step
<1>3. PICK c : Iterates(c, ClusterCount, Nat, s.first, step)
  BY <1>1, <1>2, Iteration
<1>4. c \in [0..ClusterCount -> Nat] /\ c[0] = s.first
  BY <1>3 DEF Iterates
<1>5. \A i \in 1..ClusterCount : i - 1 \in 0..ClusterCount /\ c[i - 1] \in Nat
  BY <1>1, <1>4
<1>6. \A i \in 1..ClusterCount : c[i] = Follow(c[i - 1])
  BY <1>3, <1>5 DEF Iterates, step
<1>. DEFINE Unfold(d) == [i \in 0..ClusterCount |->
                        IF i = 0 THEN s.first
                        ELSE IF s.nofat THEN d[i - 1] + 1
                        ELSE IF d[i - 1] \in FatSlots THEN F[d[i - 1]] ELSE 0]
<1>7. c = Unfold(c)
  <2>1. \A i \in 0..ClusterCount : i = 0 \/ i \in 1..ClusterCount
    BY <1>1
  <2>2. \A i \in 0..ClusterCount : c[i] = Unfold(c)[i]
    BY <1>4, <1>6, <2>1
  <2>. QED
    BY <1>4, <2>2
<1>8. ChainIn(F, s) = CHOOSE d : d = Unfold(d)
  BY DEF ChainIn
<1>. DEFINE e == CHOOSE d : d = Unfold(d)
<1>9. e = Unfold(e)
  BY <1>7
<1>10. e[0] = s.first /\ \A i \in 1..ClusterCount : e[i] = Follow(e[i - 1])
  <2>1. \A i \in 0..ClusterCount : e[i] = Unfold(e)[i]
    BY <1>9
  <2>2. \A i \in 1..ClusterCount : i \in 0..ClusterCount /\ i # 0
    BY <1>1
  <2>3. 0 \in 0..ClusterCount
    BY <1>1
  <2>. HIDE DEF e
  <2>. QED
    BY <2>1, <2>2, <2>3
<1>11. \A i \in 0..ClusterCount : e[i] \in Nat
  <2>. DEFINE T == {j \in 0..ClusterCount : e[j] \in Nat}
  <2>. HIDE DEF e
  <2>1. 0 \in T
    BY <1>1, <1>10
  <2>2. \A i \in 1..ClusterCount : i - 1 \in T => i \in T
    BY <1>1, <1>10
  <2>. HIDE DEF T
  <2>3. \A i \in 0..ClusterCount : i \in T
    BY <1>1, <2>1, <2>2, IntervalInduction
  <2>. QED
    BY <2>3 DEF T
<1>12. e \in [0..ClusterCount -> Nat]
  <2>1. DOMAIN e = 0..ClusterCount /\ e = [i \in 0..ClusterCount |-> e[i]]
    BY <1>9
  <2>. HIDE DEF e
  <2>. QED
    BY <1>11, <2>1
<1>13. ChainIn(F, s) = e
  BY <1>8
<1>. HIDE DEF e
<1>. QED
  BY <1>10, <1>12, <1>13

(* The chain of an owned stream stays with its owner as long as it stays   *)
(* in the heap.                                                            *)
LEMMA ChainOwned ==
    ASSUME TypeOK, NEW o \in OwnerMaps, LinksOwned(o), NEW f \in Files, NEW s, Located(s), Owns(o, f, s),
           NEW i \in 0..ClusterCount, i < CeilDiv(s.data, ClusterBytes), ChainIn(fat, s)[i] \in Clusters
    PROVE  o[ChainIn(fat, s)[i]] = f
<1>. DEFINE c == ChainIn(fat, s)
            n == CeilDiv(s.data, ClusterBytes)
<1>1. /\ c \in [0..ClusterCount -> Nat] /\ c[0] = s.first
      /\ \A j \in 1..ClusterCount :
           c[j] = IF s.nofat THEN c[j - 1] + 1 ELSE IF c[j - 1] \in FatSlots THEN fat[c[j - 1]] ELSE 0
  <2>1. fat \in [FatSlots -> Nat]
    BY DEF TypeOK, VolumeTypeOK
  <2>. QED
    BY <2>1, ChainEquation
<1>2. s.data \in Nat /\ n \in Nat /\ s.nofat \in BOOLEAN /\ ClusterCount \in Nat /\ None # f
  BY DivisionType, Parameters DEF Located
<1>3. s.first \in Nat /\ (s.first \in Clusters => o[s.first] = f)
  <2>1. s.first \in {0} \cup Clusters
    BY DEF Located
  <2>2. s.first \in Nat /\ 0 \notin Clusters
    BY <2>1 DEF Clusters
  <2>. QED
    BY <2>2 DEF Owns
<1>. HIDE DEF c, n
<1>4. CASE s.nofat
  <2>. DEFINE T == {j \in 0..ClusterCount : c[j] = s.first + j}
  <2>1. 0 \in T
    BY <1>1, <1>2, <1>3
  <2>2. \A j \in 1..ClusterCount : j - 1 \in T => j \in T
    BY <1>1, <1>2, <1>3, <1>4
  <2>. HIDE DEF T
  <2>3. i \in T
    BY <1>2, <2>1, <2>2, IntervalInduction
  <2>4. c[i] = s.first + i /\ i \in 0..(n - 1)
    BY <1>2, <2>3 DEF T, n
  <2>5. o[s.first + i] = f
    BY <1>4, <2>4 DEF Owns, n
  <2>. QED
    BY <2>4, <2>5 DEF c
<1>5. CASE ~s.nofat
  <2>. DEFINE T == {j \in 0..ClusterCount : c[j] \in Clusters => o[c[j]] = f}
  <2>1. 0 \in T
    BY <1>1, <1>2, <1>3
  <2>2. ASSUME NEW j \in 1..ClusterCount, j - 1 \in T PROVE j \in T
    <3>1. SUFFICES ASSUME c[j] \in Clusters PROVE o[c[j]] = f
      BY <1>2
    <3>2. 0 \notin Clusters
      BY Parameters
    <3>3. c[j - 1] \in FatSlots /\ c[j] = fat[c[j - 1]]
      BY <1>1, <1>5, <3>1, <3>2
    <3>4. c[j - 1] = 0 \/ c[j - 1] = 1 \/ c[j - 1] \in Clusters
      BY <1>2, <3>3 DEF FatSlots, Clusters
    <3>5. c[j - 1] \in Clusters
      BY <3>1, <3>3, <3>4 DEF LinksOwned
    <3>6. o[c[j - 1]] = f
      BY <2>2, <3>5
    <3>. QED
      BY <1>2, <3>1, <3>3, <3>5, <3>6 DEF LinksOwned
  <2>. HIDE DEF T
  <2>3. i \in T
    BY <1>2, <2>1, <2>2, IntervalInduction
  <2>. QED
    BY <2>3 DEF T, c
<1>. QED
  BY <1>2, <1>4, <1>5

(* Whatever fails, is cut off by a power failure or is dropped by its      *)
(* caller, no cluster comes to two files and none that a record names can  *)
(* be handed out again (allocate_cluster, append, remove), as long as      *)
(* nobody truncates.                                                       *)
THEOREM NoCrossLinks ==
    ASSUME VolumeApart, NeverTruncated PROVE Spec => []NoCrossLink
<1>1. ASSUME TypeOK, SomeOwner PROVE NoCrossLink
  <2>1. PICK o \in OwnerMaps : Owned(o)
    BY <1>1 DEF SomeOwner
  <2>2. ASSUME NEW f \in Files, NEW s \in Records(f), NEW c \in Extent(s), c \in Clusters
        PROVE  f \in live /\ o[c] = f
    <3>1. f \in live /\ (s = stream[f] \/ s = sealed[f])
      BY <2>2 DEF Records
    <3>2. Located(s) /\ Owns(o, f, s)
      <4>1. s \in Stream /\ Owns(o, f, s)
        BY <1>1, <2>1, <3>1 DEF TypeOK, VolumeTypeOK, Owned, RecordsOwned
      <4>. QED
        BY <4>1 DEF Stream, Located
    <3>3. PICK i \in 0..ClusterCount : i < CeilDiv(s.data, ClusterBytes) /\ c = ChainIn(fat, s)[i]
      BY <2>2, ActiveChain DEF Extent
    <3>. QED
      BY <1>1, <2>1, <2>2, <3>1, <3>2, <3>3, ChainOwned DEF Owned
  <2>3. ASSUME NEW f \in Files, NEW s \in Records(f), NEW c \in Extent(s) \cap Clusters
        PROVE  c \in used \ SystemClusters
    <3>1. f \in live /\ o[c] = f /\ f # None /\ c \in Clusters
      BY <2>2, Parameters
    <3>. QED
      BY <2>1, <3>1 DEF Owned, BitsOwned
  <2>4. ASSUME NEW f \in Files, NEW g \in Files \ {f}, NEW s \in Records(f), NEW t \in Records(g),
               NEW c \in Extent(s) \cap Extent(t) \cap Clusters
        PROVE  FALSE
    BY <2>2
  <2>. QED
    BY <2>3, <2>4 DEF NoCrossLink
<1>. QED
  BY <1>1, OwnerInvariant, TypeCorrect, PTL
=============================================================================
