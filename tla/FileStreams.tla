------------------------------ MODULE FileStreams ------------------------------
(***************************************************************************)
(* Regular files over the FAT and the allocation bitmap                    *)
(* (src/fs/operations.rs, src/fs/allocation.rs, src/fs/file.rs).           *)
(*                                                                         *)
(* One file operation is in progress at a time: every operation of         *)
(* FileSystem takes `&mut self`.  An operation is a sequence of steps, one *)
(* for each sector it writes or FAT entry it follows, so that an I/O       *)
(* error, a dropped future or a power cut can fall between any two.        *)
(*                                                                         *)
(* Abstractions: a cluster is one sector of ClusterBytes bytes; a          *)
(* directory entry set is one record per file with the stream extension    *)
(* and the copy of it that the set checksum covers; a byte is Zero or a    *)
(* value some caller wrote; each file has at most one handle.              *)
(***************************************************************************)
EXTENDS Naturals, FiniteSets

CONSTANTS
    Files,          \* the paths callers use
    Values,         \* the bytes callers write
    Payload,        \* the values written to each file
    ClusterCount,   \* clusters in the heap, numbered from 2
    ClusterBytes,   \* bytes in a cluster
    SystemClusters, \* clusters of the bitmap, the up-case table and the root
    Preexisting,    \* streams of the files another implementation left
    MaxLength,      \* bound: no append makes a file longer
    Ops,            \* the operations callers use
    Faults,         \* "io", "crash", "cancel", "abandon"
    None

Clusters == 2..(ClusterCount + 1)
FatSlots == 0..(ClusterCount + 1)
EndOfChain == ClusterCount + 2
Zero == 0

CeilDiv(n, d) == (n + d - 1) \div d

Stream == [first : {0} \cup Clusters, data : Nat, valid : Nat, nofat : BOOLEAN]

ASSUME ConstantsAssumption ==
    /\ ClusterCount \in Nat \ {0}
    /\ ClusterBytes \in Nat \ {0}
    /\ MaxLength \in Nat
    /\ SystemClusters \subseteq Clusters
    /\ Payload \in [Files -> SUBSET Values]
    /\ Zero \notin Values
    /\ None \notin Nat
    /\ None \notin Files

ASSUME PreexistingAssumption ==
    /\ DOMAIN Preexisting \subseteq Files
    /\ \A f \in DOMAIN Preexisting :
        /\ Preexisting[f] \in Stream
        /\ Preexisting[f].valid <= Preexisting[f].data
        /\ \A i \in 0..(CeilDiv(Preexisting[f].data, ClusterBytes) - 1) :
            Preexisting[f].first + i \in Clusters \ SystemClusters

VARIABLES
    fat,          \* device: the active FAT
    used,         \* device: the clusters whose allocation bit is set
    data,         \* device: the bytes of each cluster
    live,         \* device: the files whose entry set is in use
    stream,       \* device: the stream extension of each file
    sealed,       \* device: the stream extension its set checksum covers
    freeClusters, \* FileSystem: the cached free_clusters
    handle,       \* caller: its File for each path
    op            \* the operation in progress: a future's locals

device == <<fat, used, data, live, stream, sealed>>
vars == <<fat, used, data, live, stream, sealed, freeClusters, handle, op>>

NoStream == [first |-> 0, data |-> 0, valid |-> 0, nofat |-> TRUE]

(* A File as open and create return it. *)
OpenOn(s) ==
    [open |-> TRUE, first |-> s.first, data |-> s.data, valid |-> s.valid, nofat |-> s.nofat,
     pos |-> 0, cachedIndex |-> None, cachedCluster |-> 0]

Closed == [OpenOn(NoStream) EXCEPT !.open = FALSE]

StreamOf(h) == [first |-> h.first, data |-> h.data, valid |-> h.valid, nofat |-> h.nofat]

Idle ==
    [pc |-> "idle", kind |-> "none", file |-> None, saved |-> Closed, n |-> 0, value |-> Zero,
     rem |-> 0, cl |-> 0, idx |-> 0, tail |-> 0, new |-> 0, next |-> 0, left |-> 0]

PcLabels ==
    {"idle", "grow", "tail", "claim", "mark", "terminate", "materialize", "link", "seek", "walk",
     "transfer", "stream", "seal", "keep", "cut", "free", "unmark"}

(* The program points at which a device request is outstanding. *)
IoLabels == PcLabels \ {"idle", "grow", "seek"}

Kinds == {"none", "append", "write", "read", "truncate", "create", "remove"}

HandleType ==
    [open : BOOLEAN, first : {0} \cup Clusters, data : Nat, valid : Nat, nofat : BOOLEAN,
     pos : Nat, cachedIndex : Nat \cup {None}, cachedCluster : {0} \cup Clusters]

OpType ==
    [pc : PcLabels, kind : Kinds, file : Files \cup {None}, saved : HandleType, n : Nat,
     value : Values \cup {Zero}, rem : Nat, cl : Nat, idx : Nat, tail : Nat,
     new : {0} \cup Clusters, next : Nat, left : Nat]

(* Every variable holds a value of the kind the program keeps there, and   *)
(* the cursors of an operation are what their program point needs: a walk  *)
(* stands on a cluster number it may use to index the FAT, a claimed       *)
(* cluster lies in the heap, a release has a cluster left to release.      *)
VolumeTypeOK ==
    /\ fat \in [FatSlots -> Nat]
    /\ used \subseteq Clusters
    /\ data \in [Clusters -> [0..(ClusterBytes - 1) -> Values \cup {Zero}]]
    /\ live \subseteq Files
    /\ stream \in [Files -> Stream]
    /\ sealed \in [Files -> Stream]

MemoryTypeOK ==
    /\ freeClusters \in 0..ClusterCount \cup {None}
    /\ handle \in [Files -> HandleType]

OpTypeOK ==
    /\ op \in OpType
    /\ (op.pc = "idle") = (op.file = None)
    /\ op.pc \in {"tail", "walk", "keep"} => op.cl \in {0} \cup Clusters
    /\ op.pc = "keep" => CeilDiv(op.n, ClusterBytes) # 0
    /\ op.pc \in {"mark", "terminate", "materialize", "link"} => op.new \in Clusters
    /\ op.pc = "unmark" => op.left # 0

(* Volume, handles and operation hold what the program keeps there, and    *)
(* the cursors of an operation what its next step needs.                   *)
TypeOK == VolumeTypeOK /\ MemoryTypeOK /\ OpTypeOK

-----------------------------------------------------------------------------
(* The volume after format_exfat, plus the files another implementation    *)
(* left in consecutive clusters, with or without their FAT links.          *)

PreexistingLast(f) == Preexisting[f].first + CeilDiv(Preexisting[f].data, ClusterBytes) - 1
PreexistingExtent(f) == Preexisting[f].first..PreexistingLast(f)

Init ==
    /\ live = DOMAIN Preexisting
    /\ stream = [f \in Files |-> IF f \in live THEN Preexisting[f] ELSE NoStream]
    /\ sealed = stream
    /\ used = SystemClusters \cup UNION {PreexistingExtent(f) : f \in live}
    /\ fat = [c \in FatSlots |->
                IF c \in {0, 1} \cup SystemClusters
                   \/ \E f \in live : ~Preexisting[f].nofat /\ c = PreexistingLast(f)
                THEN EndOfChain
                ELSE IF \E f \in live : ~Preexisting[f].nofat /\ c \in PreexistingExtent(f)
                THEN c + 1 ELSE 0]
    /\ data = [c \in Clusters |-> [b \in 0..(ClusterBytes - 1) |->
                LET owners == {f \in live : /\ c \in PreexistingExtent(f)
                                            /\ (c - Preexisting[f].first) * ClusterBytes + b
                                                 < Preexisting[f].valid}
                    written == UNION {Payload[f] : f \in owners}
                IN  IF written = {} THEN Zero ELSE CHOOSE v \in written : TRUE]]
    /\ freeClusters = None
    /\ handle = [f \in Files |-> Closed]
    /\ op = Idle

-----------------------------------------------------------------------------
(* The handle the operation works on, and small steps of its own.          *)

mine == handle[op.file]
SetMine(h) == handle' = [handle EXCEPT ![op.file] = h]
At(pc) == op.pc = pc
Goto(pc) == op' = [op EXCEPT !.pc = pc]

(* Seeded fault: the cached cluster survives. *)
UncachedNever(h) == h

Uncached(h) == [h EXCEPT !.cachedIndex = None, !.cachedCluster = 0]
Clip(h, len) == [h EXCEPT !.valid = len, !.pos = IF @ < len THEN @ ELSE len]

(* Seeded fault: append leaves the half-grown handle to the caller. *)
FailKeepingHandle ==
    /\ op' = Idle
    /\ SetMine(IF op.kind = "create" THEN Closed ELSE mine)
    /\ UNCHANGED <<device, freeClusters>>

(* An error return: append puts the caller's handle back, create drops the *)
(* handle it was filling, every other operation leaves it as it is.        *)
Fail ==
    /\ op' = Idle
    /\ SetMine(CASE op.kind = "append" -> op.saved
                 [] op.kind = "create" -> Closed
                 [] OTHER -> mine)
    /\ UNCHANGED <<device, freeClusters>>

(* Seeded fault: set_bitmap counts a bit that did not change. *)
SetBitmapAlwaysCounting(c, inUse) ==
    /\ used' = IF inUse THEN used \cup {c} ELSE used \ {c}
    /\ freeClusters' = IF freeClusters = None THEN None
                       ELSE IF inUse THEN freeClusters - 1 ELSE freeClusters + 1

(* set_bitmap: a bit that already has the value asked for is not written,  *)
(* and free_clusters follows the bit.                                      *)
SetBitmap(c, inUse) ==
    /\ used' = IF inUse THEN used \cup {c} ELSE used \ {c}
    /\ freeClusters' = IF freeClusters = None \/ (c \in used) = inUse THEN freeClusters
                       ELSE IF inUse THEN freeClusters - 1 ELSE freeClusters + 1

(* The checked_sub and checked_add of set_bitmap refuse.                   *)
FreeCountRefuses(c, inUse) ==
    /\ (c \in used) # inUse
    /\ freeClusters = IF inUse THEN 0 ELSE ClusterCount

SetFat(c, value) == fat' = [fat EXCEPT ![c] = value]

-----------------------------------------------------------------------------
(* Directory operations: lookup, open, create.  A lookup returns a record  *)
(* only when its set checksum covers it; looking for an absent name scans  *)
(* every set, and stops with Corrupt at one whose checksum is wrong.       *)

Intact(f) == sealed[f] = stream[f]

Open(f) ==
    /\ At("idle") /\ f \in live /\ Intact(f) /\ ~handle[f].open
    /\ handle' = [handle EXCEPT ![f] = OpenOn(stream[f])]
    /\ UNCHANGED <<device, freeClusters, op>>

(* The caller drops its File.                                              *)
Close(f) ==
    /\ At("idle") /\ handle[f].open
    /\ handle' = [handle EXCEPT ![f] = Closed]
    /\ UNCHANGED <<device, freeClusters, op>>

CreateAbsent(f) ==
    /\ At("idle") /\ "create" \in Ops /\ f \notin live
    /\ \A g \in live : Intact(g)
    /\ live' = live \cup {f}
    /\ stream' = [stream EXCEPT ![f] = NoStream]
    /\ sealed' = [sealed EXCEPT ![f] = NoStream]
    /\ handle' = [handle EXCEPT ![f] = OpenOn(NoStream)]
    /\ UNCHANGED <<fat, used, data, freeClusters, op>>

(* truncate up to its first request: either the clusters stay, or the walk *)
(* to the last one kept and the release of the rest begin.                 *)
BeginTruncate(f, h, len, kind) ==
    LET keep == CeilDiv(len, ClusterBytes)
        allocated == CeilDiv(h.data, ClusterBytes)
        start == [Idle EXCEPT !.kind = kind, !.file = f, !.n = len]
    IN  IF keep >= allocated
        THEN /\ handle' = [handle EXCEPT ![f] = Clip(h, len)]
             /\ op' = [start EXCEPT !.pc = "stream"]
        ELSE /\ handle' = [handle EXCEPT ![f] = h]
             /\ op' = [start EXCEPT !.pc = IF keep = 0 THEN "free" ELSE "keep",
                                    !.cl = h.first, !.left = allocated - keep]

CreateExisting(f) ==
    /\ At("idle") /\ {"create", "truncate"} \subseteq Ops
    /\ f \in live /\ Intact(f) /\ ~handle[f].open
    /\ BeginTruncate(f, OpenOn(stream[f]), 0, "create")
    /\ UNCHANGED <<device, freeClusters>>

-----------------------------------------------------------------------------
(* append: while data_length falls short of the new end, find the tail,    *)
(* claim a cluster and attach it; then write the bytes; then the stream.   *)

Append(f, n, v) ==
    /\ At("idle") /\ "append" \in Ops /\ handle[f].open
    /\ handle[f].valid + n <= MaxLength
    /\ handle' = [handle EXCEPT ![f] = Uncached(@)]
    /\ op' = [Idle EXCEPT !.pc = "grow", !.kind = "append", !.file = f, !.n = n, !.value = v,
                          !.saved = handle[f]]
    /\ UNCHANGED <<device, freeClusters>>

NewEnd == op.saved.valid + op.n
Growing == At("grow") /\ mine.data < NewEnd
TailIndex == (mine.data - 1) \div ClusterBytes

GrowEmpty ==
    /\ Growing /\ mine.first = 0
    /\ Goto("claim")
    /\ UNCHANGED <<device, freeClusters, handle>>

(* first_cluster + data_length / cluster_bytes - 1                         *)
GrowContiguous ==
    /\ Growing /\ mine.first # 0 /\ mine.nofat /\ mine.data >= ClusterBytes
    /\ op' = [op EXCEPT !.pc = "claim",
                        !.tail = mine.first + mine.data \div ClusterBytes - 1]
    /\ UNCHANGED <<device, freeClusters, handle>>

GrowChained ==
    /\ Growing /\ mine.first # 0 /\ ~mine.nofat
    /\ op' = [op EXCEPT !.pc = "tail", !.cl = mine.first]
    /\ UNCHANGED <<device, freeClusters, handle>>

FollowTail ==
    /\ At("tail") /\ op.idx < TailIndex /\ fat[op.cl] \in Clusters
    /\ op' = [op EXCEPT !.cl = fat[op.cl], !.idx = @ + 1]
    /\ UNCHANGED <<device, freeClusters, handle>>

FoundTail ==
    /\ At("tail") /\ op.idx = TailIndex
    /\ op' = [op EXCEPT !.pc = "claim", !.tail = op.cl, !.cl = 0, !.idx = 0]
    /\ UNCHANGED <<device, freeClusters, handle>>

(* Seeded faults: the preferred cluster is taken without reading its bit,  *)
(* and the scan runs one cluster past the heap.                            *)
FreeBitsTrustingPreferred == (Clusters \ used) \cup (Clusters \cap {op.tail + 1})
FreeBitsPastTheHeap == 2..(ClusterCount + 2) \ used

(* allocate_cluster_preferred: the first clear bit from the cluster after  *)
(* the tail, wrapping at the end of the heap.                              *)
FreeBits == Clusters \ used
ScanStart == IF op.tail # 0 /\ op.tail + 1 \in Clusters THEN op.tail + 1 ELSE 2
ScanRank(c) == IF c >= ScanStart THEN c ELSE c + ClusterCount

Claim ==
    /\ At("claim")
    /\ \E c \in FreeBits :
        /\ \A d \in FreeBits : ScanRank(c) <= ScanRank(d)
        /\ data' = [data EXCEPT ![c] = [b \in DOMAIN @ |-> Zero]]
        /\ op' = [op EXCEPT !.pc = "mark", !.new = c]
    /\ UNCHANGED <<fat, used, live, stream, sealed, freeClusters, handle>>

MarkUsed ==
    /\ At("mark") /\ ~FreeCountRefuses(op.new, TRUE)
    /\ SetBitmap(op.new, TRUE)
    /\ Goto("terminate")
    /\ UNCHANGED <<fat, data, live, stream, sealed, handle>>

AddCluster(h) == [h EXCEPT !.data = @ + ClusterBytes]
GrowAgain == op' = [op EXCEPT !.pc = "grow", !.tail = 0, !.new = 0, !.idx = 0]
Terminate == At("terminate") /\ SetFat(op.new, EndOfChain)
Adjacent == mine.nofat /\ op.new = op.tail + 1

TerminateFirst ==
    /\ Terminate /\ mine.first = 0
    /\ SetMine(AddCluster([mine EXCEPT !.first = op.new]))
    /\ GrowAgain
    /\ UNCHANGED <<used, data, live, stream, sealed, freeClusters>>

TerminateAdjacent ==
    /\ Terminate /\ mine.first # 0 /\ Adjacent
    /\ SetMine(AddCluster(mine))
    /\ GrowAgain
    /\ UNCHANGED <<used, data, live, stream, sealed, freeClusters>>

TerminateDetached ==
    /\ Terminate /\ mine.first # 0 /\ ~Adjacent
    /\ Goto(IF mine.nofat THEN "materialize" ELSE "link")
    /\ UNCHANGED <<used, data, live, stream, sealed, freeClusters, handle>>

(* Seeded fault: the last of the missing links is forgotten. *)
LinksMissingButOne == op.idx + 2 < mine.data \div ClusterBytes

(* The FAT links a contiguous stream never had, up to its tail.            *)
LinksMissing == op.idx + 1 < mine.data \div ClusterBytes

Materialize ==
    /\ At("materialize") /\ LinksMissing
    /\ SetFat(mine.first + op.idx, mine.first + op.idx + 1)
    /\ op' = [op EXCEPT !.idx = @ + 1]
    /\ UNCHANGED <<used, data, live, stream, sealed, freeClusters, handle>>

Materialized ==
    /\ At("materialize") /\ ~LinksMissing
    /\ SetMine(Uncached([mine EXCEPT !.nofat = FALSE]))
    /\ Goto("link")
    /\ UNCHANGED <<device, freeClusters>>

Link ==
    /\ At("link") /\ op.tail \in FatSlots
    /\ SetFat(op.tail, op.new)
    /\ SetMine(AddCluster(mine))
    /\ GrowAgain
    /\ UNCHANGED <<used, data, live, stream, sealed, freeClusters>>

(* Seeded fault: the bytes go to the handle's old position. *)
GrownInPlace ==
    /\ At("grow") /\ mine.data >= NewEnd
    /\ SetMine([mine EXCEPT !.valid = NewEnd])
    /\ op' = [op EXCEPT !.pc = "seek", !.rem = op.n]
    /\ UNCHANGED <<device, freeClusters>>

(* Enough clusters: the handle takes the new length and the bytes follow.  *)
Grown ==
    /\ At("grow") /\ mine.data >= NewEnd
    /\ SetMine([mine EXCEPT !.pos = mine.valid, !.valid = NewEnd])
    /\ op' = [op EXCEPT !.pc = "seek", !.rem = op.n]
    /\ UNCHANGED <<device, freeClusters>>

-----------------------------------------------------------------------------
(* read and write move one chunk at a time: the part of the transfer that  *)
(* lies in one sector.  file_cluster_at finds its cluster, starting from   *)
(* the cached one when that is not beyond it.                              *)

StartTransfer(f, n, v, kind) ==
    /\ At("idle") /\ handle[f].open /\ handle[f].pos < handle[f].valid
    /\ LET rest == handle[f].valid - handle[f].pos
       IN  op' = [Idle EXCEPT !.pc = "seek", !.kind = kind, !.file = f, !.value = v,
                              !.rem = IF n < rest THEN n ELSE rest]
    /\ UNCHANGED <<device, freeClusters, handle>>

Read(f, n) == "read" \in Ops /\ StartTransfer(f, n, Zero, "read")
Write(f, n, v) == "write" \in Ops /\ StartTransfer(f, n, v, "write")

Wanted == mine.pos \div ClusterBytes
UseCache == mine.cachedIndex # None /\ mine.cachedIndex <= Wanted
(* Seeded fault: the walk keeps the cached index but not its cluster. *)
WalkFromFirst == mine.first

WalkFrom == IF UseCache THEN mine.cachedCluster ELSE mine.first

SeekContiguous ==
    /\ At("seek") /\ mine.nofat /\ mine.first + Wanted \in Clusters
    /\ op' = [op EXCEPT !.pc = "transfer", !.cl = mine.first + Wanted]
    /\ UNCHANGED <<device, freeClusters, handle>>

SeekChained ==
    /\ At("seek") /\ ~mine.nofat /\ WalkFrom \in Clusters
    /\ op' = [op EXCEPT !.pc = "walk", !.cl = WalkFrom,
                        !.idx = IF UseCache THEN mine.cachedIndex ELSE 0]
    /\ UNCHANGED <<device, freeClusters, handle>>

Walk ==
    /\ At("walk") /\ op.idx < Wanted /\ fat[op.cl] \in Clusters
    /\ op' = [op EXCEPT !.cl = fat[op.cl], !.idx = @ + 1]
    /\ UNCHANGED <<device, freeClusters, handle>>

Arrive ==
    /\ At("walk") /\ op.idx = Wanted
    /\ SetMine([mine EXCEPT !.cachedIndex = Wanted, !.cachedCluster = op.cl])
    /\ op' = [op EXCEPT !.pc = "transfer", !.idx = 0]
    /\ UNCHANGED <<device, freeClusters>>

Within == mine.pos % ClusterBytes
(* Seeded fault: the part of the sector before the position. *)
ChunkBefore == IF op.rem < Within THEN op.rem ELSE Within

Chunk == IF op.rem < ClusterBytes - Within THEN op.rem ELSE ClusterBytes - Within
(* Seeded fault: append returns without update_stream. *)
AfterTransferDone == Idle

AfterTransfer == IF op.kind = "append" THEN [op EXCEPT !.pc = "stream", !.rem = 0, !.cl = 0]
                 ELSE Idle

TransferChunk ==
    /\ At("transfer")
    /\ data' = IF op.kind = "read" THEN data
               ELSE [data EXCEPT ![op.cl] = [b \in DOMAIN @ |->
                        IF b \in Within..(Within + Chunk - 1) THEN op.value ELSE @[b]]]
    /\ SetMine([mine EXCEPT !.pos = @ + Chunk])
    /\ op' = IF op.rem = Chunk THEN AfterTransfer
             ELSE [op EXCEPT !.pc = "seek", !.rem = @ - Chunk, !.cl = 0]
    /\ UNCHANGED <<fat, used, live, stream, sealed, freeClusters>>

(* update_stream: the stream extension first, then the set checksum        *)
(* recomputed from what the device now holds.                              *)
UpdateStream ==
    /\ At("stream")
    /\ stream' = [stream EXCEPT ![op.file] = StreamOf(mine)]
    /\ Goto("seal")
    /\ UNCHANGED <<fat, used, data, live, sealed, freeClusters, handle>>

Seal ==
    /\ At("seal")
    /\ sealed' = [sealed EXCEPT ![op.file] = stream[op.file]]
    /\ op' = Idle
    /\ UNCHANGED <<fat, used, data, live, stream, freeClusters, handle>>

-----------------------------------------------------------------------------
(* truncate and the truncating half of create.                             *)

Truncate(f, len) ==
    /\ At("idle") /\ "truncate" \in Ops /\ handle[f].open /\ len <= handle[f].valid
    /\ BeginTruncate(f, handle[f], len, "truncate")
    /\ UNCHANGED <<device, freeClusters>>

Kept == CeilDiv(op.n, ClusterBytes)

KeepContiguous ==
    /\ At("keep") /\ mine.nofat
    /\ op' = [op EXCEPT !.pc = "cut", !.tail = mine.first + Kept - 1, !.cl = mine.first + Kept]
    /\ UNCHANGED <<device, freeClusters, handle>>

KeepFollow ==
    /\ At("keep") /\ ~mine.nofat /\ op.idx + 1 < Kept /\ fat[op.cl] \in Clusters
    /\ op' = [op EXCEPT !.cl = fat[op.cl], !.idx = @ + 1]
    /\ UNCHANGED <<device, freeClusters, handle>>

KeepFound ==
    /\ At("keep") /\ ~mine.nofat /\ op.idx + 1 = Kept
    /\ op' = [op EXCEPT !.pc = "cut", !.tail = op.cl, !.cl = fat[op.cl], !.idx = 0]
    /\ UNCHANGED <<device, freeClusters, handle>>

Cut ==
    /\ At("cut") /\ op.tail \in FatSlots
    /\ SetFat(op.tail, EndOfChain)
    /\ op' = [op EXCEPT !.pc = "free", !.tail = 0]
    /\ UNCHANGED <<used, data, live, stream, sealed, freeClusters, handle>>

(* Seeded fault: truncate asks for no next cluster either. *)
NextToFreeSame == IF op.saved.nofat \/ op.left = 1 THEN op.cl ELSE fat[op.cl]

(* The cluster after the one being freed.  release_entry_clusters asks for *)
(* none when the stream has no FAT chain, and then keeps its cursor.       *)
NextToFree ==
    IF op.kind = "remove"
    THEN IF op.saved.nofat \/ op.left = 1 THEN op.cl ELSE fat[op.cl]
    ELSE IF mine.nofat THEN op.cl + 1 ELSE fat[op.cl]

FreeLink ==
    /\ At("free") /\ op.left > 0 /\ op.cl \in FatSlots
    /\ op' = [op EXCEPT !.pc = "unmark", !.next = NextToFree]
    /\ SetFat(op.cl, 0)
    /\ UNCHANGED <<used, data, live, stream, sealed, freeClusters, handle>>

(* remove stops after the last cluster, and with Corrupt after a link that *)
(* leads outside the heap.                                                 *)
Unmark ==
    /\ At("unmark") /\ op.cl \in Clusters /\ ~FreeCountRefuses(op.cl, FALSE)
    /\ SetBitmap(op.cl, FALSE)
    /\ op' = IF op.kind = "remove" /\ (op.left = 1 \/ op.next \notin Clusters) THEN Idle
             ELSE [op EXCEPT !.pc = "free", !.cl = op.next, !.next = 0, !.left = @ - 1]
    /\ UNCHANGED <<fat, data, live, stream, sealed, handle>>

Freed ==
    /\ At("free") /\ op.left = 0
    /\ SetMine(Clip(Uncached([mine EXCEPT !.first = IF Kept = 0 THEN 0 ELSE @,
                                          !.data = Kept * ClusterBytes]), op.n))
    /\ op' = [op EXCEPT !.pc = "stream", !.cl = 0]
    /\ UNCHANGED <<device, freeClusters>>

-----------------------------------------------------------------------------
(* remove: the entry set is retired, then the clusters it named go.        *)

Remove(f) ==
    /\ At("idle") /\ "remove" \in Ops /\ f \in live /\ Intact(f) /\ ~handle[f].open
    /\ live' = live \ {f}
    /\ op' = IF stream[f].first = 0 \/ stream[f].data = 0 THEN Idle
             ELSE [Idle EXCEPT !.pc = "free", !.kind = "remove", !.file = f,
                               !.saved = OpenOn(stream[f]), !.cl = stream[f].first,
                               !.left = CeilDiv(stream[f].data, ClusterBytes)]
    /\ UNCHANGED <<fat, used, data, stream, sealed, freeClusters, handle>>

-----------------------------------------------------------------------------
(* refresh_free_clusters, from free_space_bytes or refresh_free_space.     *)
RefreshFreeClusters ==
    /\ At("idle") /\ "refresh" \in Ops
    /\ freeClusters' = ClusterCount - Cardinality(used)
    /\ UNCHANGED <<device, handle, op>>

(* The checks that make an operation return Corrupt or NoSpace.            *)
CheckFails ==
    \/ Growing /\ mine.first # 0 /\ mine.nofat /\ mine.data < ClusterBytes
    \/ At("tail") /\ op.idx < TailIndex /\ fat[op.cl] \notin Clusters
    \/ At("claim") /\ FreeBits = {}
    \/ At("mark") /\ FreeCountRefuses(op.new, TRUE)
    \/ At("link") /\ op.tail \notin FatSlots
    \/ At("seek") /\ mine.nofat /\ mine.first + Wanted \notin Clusters
    \/ At("seek") /\ ~mine.nofat /\ WalkFrom \notin Clusters
    \/ At("walk") /\ op.idx < Wanted /\ fat[op.cl] \notin Clusters
    \/ At("keep") /\ ~mine.nofat /\ op.idx + 1 < Kept /\ fat[op.cl] \notin Clusters
    \/ At("cut") /\ op.tail \notin FatSlots
    \/ At("free") /\ op.left > 0 /\ op.cl \notin FatSlots
    \/ At("unmark") /\ (op.cl \notin Clusters \/ FreeCountRefuses(op.cl, FALSE))

ReturnError == CheckFails /\ Fail

(* The device reports an error and the sector keeps its old content.       *)
IoError == "io" \in Faults /\ op.pc \in IoLabels /\ Fail

(* The caller drops the future while a request is outstanding: nothing     *)
(* puts the handle back, and one that create was filling is gone.  A       *)
(* caller that abandons the file drops its handle, too.                    *)
Cancel ==
    /\ {"cancel", "abandon"} \cap Faults # {} /\ op.pc \in IoLabels
    /\ op' = Idle
    /\ SetMine(IF op.kind = "create" \/ "abandon" \in Faults THEN Closed ELSE mine)
    /\ UNCHANGED <<device, freeClusters>>

(* mount reads the volume afresh; no handle outlives the old FileSystem.   *)
Restart ==
    /\ handle' = [f \in Files |-> Closed]
    /\ freeClusters' = None
    /\ op' = Idle
    /\ UNCHANGED device

Remount == At("idle") /\ "mount" \in Ops /\ Restart
Crash == "crash" \in Faults /\ ~At("idle") /\ Restart

-----------------------------------------------------------------------------
(* The steps of the operation in progress.                                 *)
Step ==
    \/ GrowEmpty \/ GrowContiguous \/ GrowChained \/ FollowTail \/ FoundTail
    \/ Claim \/ MarkUsed \/ TerminateFirst \/ TerminateAdjacent \/ TerminateDetached
    \/ Materialize \/ Materialized \/ Link \/ Grown
    \/ SeekContiguous \/ SeekChained \/ Walk \/ Arrive \/ TransferChunk
    \/ UpdateStream \/ Seal
    \/ KeepContiguous \/ KeepFollow \/ KeepFound \/ Cut \/ FreeLink \/ Unmark \/ Freed
    \/ ReturnError

Calls(f) ==
    \/ Open(f) \/ Close(f) \/ CreateAbsent(f) \/ CreateExisting(f) \/ Remove(f)
    \/ \E n \in 1..MaxLength :
        \/ Read(f, n)
        \/ \E v \in Payload[f] : Append(f, n, v) \/ Write(f, n, v)
    \/ \E len \in 0..MaxLength : Truncate(f, len)

Next ==
    \/ \E f \in Files : Calls(f)
    \/ Step
    \/ RefreshFreeClusters \/ Remount
    \/ IoError \/ Cancel \/ Crash

Spec == Init /\ [][Next]_vars

(* The executor polls a future it has started until it completes.          *)
FairSpec == Spec /\ WF_vars(Step)

-----------------------------------------------------------------------------
(* What a reader of the volume finds.                                      *)

(* The clusters of a stream, in file order, as far as the FAT leads.       *)
ChainOf(s) ==
    LET c[i \in 0..ClusterCount] ==
            IF i = 0 THEN s.first
            ELSE IF s.nofat THEN c[i - 1] + 1
            ELSE IF c[i - 1] \in FatSlots THEN fat[c[i - 1]] ELSE 0
    IN  c

Extent(s) ==
    {ChainOf(s)[i] : i \in {j \in 0..ClusterCount : j < CeilDiv(s.data, ClusterBytes)}}

ByteAt(s, p) ==
    LET c == ChainOf(s)[p \div ClusterBytes]
    IN  IF c \in Clusters THEN data[c][p % ClusterBytes] ELSE Zero

Truncating(f) == op.kind \in {"truncate", "create"} /\ op.file = f

(* The records a reader may meet for a file: the one sealed by the         *)
(* checksum and the one that a torn update left in the stream extension.   *)
(* While a truncate is running the record still names what it frees.       *)
Records(f) == IF f \in live /\ ~Truncating(f) THEN {stream[f], sealed[f]} ELSE {}

(* Every cluster a directory record names lies outside the system          *)
(* clusters, has its allocation bit set, and occurs once in its file       *)
(* (update order in append, truncate and remove).                          *)
ExtentsAllocated ==
    \A f \in Files : \A s \in Records(f) :
        /\ Cardinality(Extent(s)) = CeilDiv(s.data, ClusterBytes)
        /\ Extent(s) \subseteq used \ SystemClusters

(* No cluster a record names can be handed out again, and none belongs to  *)
(* two files, by the record that the checksum covers or by the one a torn  *)
(* update left (allocate_cluster, append, remove).                         *)
NoCrossLink ==
    \A f \in Files : \A s \in Records(f) :
        /\ Extent(s) \cap Clusters \subseteq used \ SystemClusters
        /\ \A g \in Files \ {f} : \A t \in Records(g) :
             Extent(s) \cap Extent(t) \cap Clusters = {}

(* Every byte below the valid_length that the checksum covers was written  *)
(* to this very file ("a failed metadata commit can never leave a newly    *)
(* visible uninitialised range").  The record a torn update left, which no *)
(* lookup returns, may end in zeroed bytes when a later append has linked  *)
(* other clusters behind the old ones, but never shows another file's.     *)
NoUninitialisedRange ==
    \A f \in Files : \A s \in Records(f) : \A p \in 0..(s.valid - 1) :
        \/ ByteAt(s, p) \in Payload[f]
        \/ s # sealed[f] /\ ByteAt(s, p) = Zero

(* free_clusters, once known, counts the clear bits of the bitmap.         *)
FreeCountExact ==
    freeClusters # None => freeClusters = ClusterCount - Cardinality(used)

(* An open handle agrees with the record on the volume whenever that       *)
(* record is intact and no operation is changing it, after failed          *)
(* operations too.                                                         *)
HandleCoherent ==
    \A f \in Files :
        handle[f].open /\ op.file # f /\ Intact(f) =>
            f \in live /\ StreamOf(handle[f]) = stream[f]

(* The cluster a handle remembers is the one its FAT chain has at the      *)
(* remembered index, or reads and writes would go to another place.        *)
CacheCoherent ==
    \A f \in Files :
        handle[f].cachedIndex # None /\ ~handle[f].nofat /\ ~Truncating(f) =>
            handle[f].cachedCluster = ChainOf(StreamOf(handle[f]))[handle[f].cachedIndex]

(* The sector a transfer touches is in the cluster that holds the position *)
(* in the handle's own chain, with its bit set, however it was found.      *)
TransfersReachFile ==
    At("transfer") =>
        /\ op.cl = ChainOf(StreamOf(mine))[Wanted]
        /\ op.cl \in used \ SystemClusters

(* The clusters whose allocation bit is set and that nothing will ever     *)
(* give back: outside the system clusters, in no file, and in no operation *)
(* in progress.                                                            *)
Run(first, nofat, n) ==
    LET c == ChainOf([first |-> first, data |-> 0, valid |-> 0, nofat |-> nofat])
    IN  {c[i] : i \in 0..(n - 1)}

Pending ==
    CASE At("free") -> Run(op.cl, mine.nofat, op.left)
      [] At("unmark") -> {op.cl} \cup Run(op.next, mine.nofat, op.left - 1)
      [] OTHER -> {}

InOperation ==
    IF At("idle") THEN {} ELSE {op.new} \cup Pending \cup Extent(StreamOf(mine))

Lost == used \ (SystemClusters \cup InOperation \cup UNION {Extent(stream[f]) : f \in live})

(* append, truncate and create lose a cluster only when they return an     *)
(* error; without one, every allocated cluster stays reachable.            *)
LostOnlyByErrors == [][Lost' \subseteq Lost \/ CheckFails]_vars

(* Between operations no cluster is lost: remove, like the rest, gives back *)
(* what it took ("release its allocated clusters").                        *)
NoLeak == At("idle") => Lost = {}

(* An operation whose future is polled completes: no walk or retry spins.  *)
OperationsComplete == ~At("idle") ~> At("idle")

(* The files as the abstract store holds them.  truncate takes effect when *)
(* it starts releasing clusters, append when its record is sealed.         *)
VisibleLength(f) == IF Truncating(f) THEN op.n ELSE sealed[f].valid
View(f) == IF f \in live THEN [p \in 1..VisibleLength(f) |-> ByteAt(sealed[f], p - 1)] ELSE None

Call == [kind |-> op.kind, file |-> op.file, n |-> op.n, value |-> op.value]

Store == INSTANCE FileStore WITH
    Absent <- None, content <- [f \in Files |-> View(f)], call <- Call

(* Whatever a caller does, the files behave as the abstract store: each    *)
(* operation acts once, on its own file, with its own bytes.               *)
ImplementsStore == Store!Spec
=============================================================================
