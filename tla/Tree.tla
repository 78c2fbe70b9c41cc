---------------------------------- MODULE Tree ----------------------------------
(***************************************************************************)
(* The tree of directories and the clusters under it: create_dir_all,      *)
(* create, remove and rename on paths (src/fs/operations.rs), the growth   *)
(* of a directory and the release of what was removed.                     *)
(*                                                                         *)
(* The steps of an operation are its writes.  A write that fails, a future *)
(* that is dropped and a power cut all stop it between two of them:        *)
(* Interrupted.                                                            *)
(*                                                                         *)
(* Abstractions, with the module that has the detail: a slot holds a whole *)
(* entry set, of one or two name entries, written at once (Directories);   *)
(* update_stream is one write, and a new file stays empty (FileStreams).   *)
(* A call that a lookup refuses changes nothing and is no step.            *)
(***************************************************************************)
EXTENDS Naturals, Sequences, FiniteSets

CONSTANTS
    Names,           \* the names callers use
    Wide,            \* those that need a longer entry set
    ClusterCount,    \* clusters in the heap, numbered from 2
    SlotsPerCluster, \* entry sets a cluster holds
    MaxDepth,        \* bound: components of a path
    Ops,             \* the operations callers use
    FaultPoints,     \* the program points an operation can stop at
    None

ASSUME TreeAssumption ==
    /\ Wide \subseteq Names
    /\ ClusterCount \in Nat \ {0}
    /\ SlotsPerCluster \in Nat \ {0}
    /\ MaxDepth \in Nat
    /\ None \notin Names /\ None \notin Nat \X Nat

VARIABLES
    content, \* device: the entry sets in each cluster
    fat,     \* device: the active FAT
    used,    \* device: the clusters whose allocation bit is set
    op       \* the operation in progress: a future's locals

device == <<content, fat, used>>
vars == <<content, fat, used, op>>

Clusters == 2..(ClusterCount + 1)
Root == 2
Free == 0
EndOfChain == 1
Paths == UNION {[1..k -> Names] : k \in 1..MaxDepth}

(* A name in an entry set: one that a caller gave, or what is left of it   *)
(* in the buffer under another one.                                        *)
StoredNames == Names \cup (Names \X Names)

(* A set is used while scans return it.  With a surplus name entry they    *)
(* pass over it, but its slot stays taken.                                 *)
NoSet == [used |-> FALSE, surplus |-> FALSE, name |-> None, wide |-> FALSE, dir |-> FALSE,
          first |-> 0, len |-> 0]
Set(n, dir, first, len) ==
    [used |-> TRUE, surplus |-> FALSE, name |-> n, wide |-> n \in Wide \/ n \in Names \X Wide,
     dir |-> dir, first |-> first, len |-> len]
(* What the data of a file that is gone looks like to a scan.              *)
Stale == [NoSet EXCEPT !.used = TRUE]
EmptyCluster == [s \in 1..SlotsPerCluster |-> NoSet]

-----------------------------------------------------------------------------
(* Directories and the scans of them.  A place is a cluster and a slot in  *)
(* it.  The root has no length and no place.                               *)

Top == <<0, 0>>
SetAt(p) == content[p[1]][p[2]]

(* The place of a directory's own set is what its record is updated at.    *)
DirectoryAt(p) ==
    IF p = Top THEN [first |-> Root, len |-> 0, at |-> Top]
    ELSE [first |-> SetAt(p).first, len |-> SetAt(p).len, at |-> p]

(* The clusters of a chain, as far as its links lead.                      *)
Chain(first) ==
    LET follow == [c \in Clusters \cup {Free, EndOfChain} |-> IF c \in Clusters THEN fat[c] ELSE c]
        nth[k \in 1..ClusterCount] == IF k = 1 THEN first ELSE follow[nth[k - 1]]
    IN  [k \in {j \in 1..ClusterCount : nth[j] \in Clusters} |-> nth[k]]

(* The data_length of a directory's record ends it, whatever is linked.    *)
ClustersOf(d) == IF d.len = 0 THEN Chain(d.first) ELSE SubSeq(Chain(d.first), 1, d.len)
LastOf(d) == LET chain == ClustersOf(d) IN chain[Len(chain)]

ClusterSet(d) == {ClustersOf(d)[i] : i \in DOMAIN ClustersOf(d)}

(* The first place of a scan whose slot is wanted.                         *)
FirstPlace(d, Wanted(_)) ==
    LET chain == ClustersOf(d)
        hits == {h \in (DOMAIN chain) \X (1..SlotsPerCluster) : Wanted(content[chain[h[1]]][h[2]])}
        first == CHOOSE h \in hits : \A g \in hits : h[1] < g[1] \/ (h[1] = g[1] /\ h[2] <= g[2])
    IN  IF hits = {} THEN None ELSE <<chain[first[1]], first[2]>>

(* find_child, first_directory_entry and the search of find_free_entries.  *)
FindChild(d, n) == FirstPlace(d, LAMBDA s : s.used /\ s.name = n)
FirstEntry(d) == FirstPlace(d, LAMBDA s : s.used)
FreeSlot(d) == FirstPlace(d, LAMBDA s : ~s.used /\ ~s.surplus)

IsDirectory(p) == CASE p = None -> FALSE [] p = Top -> TRUE [] OTHER -> SetAt(p).dir
Below(p, n) == IF IsDirectory(p) THEN FindChild(DirectoryAt(p), n) ELSE None

(* lookup: the place a path leads to.                                      *)
Lookup(path) ==
    LET reached[k \in 0..Len(path)] == IF k = 0 THEN Top ELSE Below(reached[k - 1], path[k])
    IN  reached[Len(path)]

Parent(path) == SubSeq(path, 1, Len(path) - 1)
Last(path) == path[Len(path)]

Idle ==
    [pc |-> "idle", kind |-> "none", path |-> <<>>, i |-> 0, name |-> None,
     dir |-> [first |-> Root, len |-> 0, at |-> Top], set |-> NoSet, old |-> None, place |-> None,
     growing |-> FALSE, new |-> 0, cl |-> 0, next |-> 0, left |-> 0]

Init ==
    /\ content = [c \in Clusters |-> IF c = Root THEN EmptyCluster ELSE [s \in 1..SlotsPerCluster |-> Stale]]
    /\ fat = [c \in Clusters |-> IF c = Root THEN EndOfChain ELSE Free]
    /\ used = {Root}
    /\ op = Idle

At(pc) == op.pc = pc

-----------------------------------------------------------------------------
(* The calls.                                                              *)

CreateDirAll(path) ==
    /\ At("idle") /\ "mkdir" \in Ops
    /\ op' = [Idle EXCEPT !.pc = "descend", !.kind = "mkdir", !.path = path, !.i = 1]
    /\ UNCHANGED device

(* create truncates a file that exists, which is empty already.            *)
Create(path) ==
    LET parent == Lookup(Parent(path))
    IN  /\ At("idle") /\ "create" \in Ops
        /\ IsDirectory(parent) /\ Lookup(path) = None
        /\ op' = [Idle EXCEPT !.pc = "search", !.kind = "create", !.path = path,
                              !.dir = DirectoryAt(parent), !.set = Set(Last(path), FALSE, 0, 0)]
        /\ UNCHANGED device

(* Seeded fault: a directory is removed with what is in it. *)
MayRemoveAny(p) == TRUE

MayRemove(p) == SetAt(p).dir => FirstEntry(DirectoryAt(p)) = None

(* remove_entry_tree.                                                      *)
Remove(path) ==
    LET p == Lookup(path)
    IN  /\ At("idle") /\ "remove" \in Ops /\ p # None
        /\ MayRemove(p)
        /\ op' = [Idle EXCEPT !.pc = "retire", !.kind = "remove", !.path = path, !.old = p,
                              !.set = SetAt(p)]
        /\ UNCHANGED device

(* The new name waits in the Workspace while the parent's path is looked   *)
(* up there, and what the lookup leaves of it is written: the last of the  *)
(* parent's names, and behind it the rest of the new one.                  *)
Buffered(path, n) ==
    IF Len(path) = 1 \/ Last(Parent(path)) = n THEN n ELSE <<Last(Parent(path)), n>>

(* The new name needs fewer entries than the set has.                      *)
Shrinks(s, n) == s.wide /\ n \notin Wide

(* Callers do not rename to a name that exists (Directories has that), and *)
(* to one of fewer entries only if Ops has "renameShorter".                *)
Rename(path, n) ==
    LET p == Lookup(path)
    IN  /\ At("idle") /\ "rename" \in Ops /\ p # None
        /\ Lookup(Append(Parent(path), n)) = None
        /\ Shrinks(SetAt(p), n) => "renameShorter" \in Ops
        /\ op' = LET s == SetAt(p)
                     start == [Idle EXCEPT !.kind = "rename", !.path = path, !.name = n, !.old = p]
                 IN  IF n \in Wide /\ ~s.wide
                     THEN [start EXCEPT !.pc = "search", !.dir = DirectoryAt(Lookup(Parent(path))),
                                        !.set = Set(Buffered(path, n), s.dir, s.first, s.len)]
                     ELSE [start EXCEPT !.pc = "edit", !.set = s]
        /\ UNCHANGED device

-----------------------------------------------------------------------------
(* create_dir_all: one component after the other.                          *)

Child == FindChild(op.dir, op.path[op.i])

(* Seeded fault: the new directory is made beside the one before it. *)
OnwardFromRoot(d) ==
    op' = IF op.i = Len(op.path) THEN Idle
          ELSE [Idle EXCEPT !.pc = "descend", !.kind = "mkdir", !.path = op.path, !.i = op.i + 1]

Onward(d) ==
    op' = IF op.i = Len(op.path) THEN Idle
          ELSE [Idle EXCEPT !.pc = "descend", !.kind = "mkdir", !.path = op.path, !.i = op.i + 1,
                            !.dir = d]

Descend ==
    /\ At("descend") /\ IsDirectory(Child)
    /\ Onward(DirectoryAt(Child))
    /\ UNCHANGED device

NotDirectory ==
    /\ At("descend") /\ Child # None /\ ~IsDirectory(Child)
    /\ op' = Idle
    /\ UNCHANGED device

Missing ==
    /\ At("descend") /\ Child = None
    /\ op' = [op EXCEPT !.pc = "search"]
    /\ UNCHANGED device

-----------------------------------------------------------------------------
(* find_free_entries.  A directory without a free slot grows by a cluster, *)
(* and the search starts over with the longer one.                         *)

AfterSearch == IF op.kind = "mkdir" THEN "claim" ELSE "write"

Search ==
    /\ At("search") /\ FreeSlot(op.dir) # None
    /\ op' = [op EXCEPT !.pc = AfterSearch, !.place = FreeSlot(op.dir)]
    /\ UNCHANGED device

(* A cluster linked behind the length of the record: NoSpace.              *)
CanGrow == op.dir.len = 0 \/ fat[LastOf(op.dir)] \notin Clusters

Grow ==
    /\ At("search") /\ FreeSlot(op.dir) = None /\ CanGrow
    /\ op' = [op EXCEPT !.pc = "claim", !.growing = TRUE]
    /\ UNCHANGED device

CannotGrow ==
    /\ At("search") /\ FreeSlot(op.dir) = None /\ ~CanGrow
    /\ op' = Idle
    /\ UNCHANGED device

(* Seeded fault: the preferred cluster is taken without reading its bit. *)
FreeBitsTrusting == (Clusters \ used) \cup (Clusters \cap {LastOf(op.dir) + 1})

(* allocate_cluster_preferred: from the cluster after the last one when a  *)
(* directory grows, from the first one for a new directory.                *)
FreeBits == Clusters \ used
Preferred == IF op.growing /\ LastOf(op.dir) + 1 \in Clusters THEN LastOf(op.dir) + 1 ELSE 2
ScanRank(c) == IF c >= Preferred THEN c ELSE c + ClusterCount

(* Seeded fault: the cluster keeps what was in it. *)
ZeroedNot(c) == content

Zeroed(c) == [content EXCEPT ![c] = EmptyCluster]

Claim ==
    /\ At("claim")
    /\ \E c \in FreeBits :
        /\ \A d \in FreeBits : ScanRank(c) <= ScanRank(d)
        /\ content' = Zeroed(c)
        /\ op' = [op EXCEPT !.pc = "mark", !.new = c]
    /\ UNCHANGED <<fat, used>>

NoSpace ==
    /\ At("claim") /\ FreeBits = {}
    /\ op' = Idle
    /\ UNCHANGED device

MarkUsed ==
    /\ At("mark")
    /\ used' = used \cup {op.new}
    /\ op' = [op EXCEPT !.pc = "terminate"]
    /\ UNCHANGED <<content, fat>>

NewDirectory == Set(op.path[op.i], TRUE, op.new, 1)

Terminate ==
    /\ At("terminate")
    /\ fat' = [fat EXCEPT ![op.new] = EndOfChain]
    /\ op' = IF op.growing THEN [op EXCEPT !.pc = "link"]
             ELSE [op EXCEPT !.pc = "write", !.set = NewDirectory]
    /\ UNCHANGED <<content, used>>

Link ==
    /\ At("link")
    /\ fat' = [fat EXCEPT ![LastOf(op.dir)] = op.new]
    /\ op' = IF op.dir.len # 0 THEN [op EXCEPT !.pc = "length"]
             ELSE [op EXCEPT !.pc = "search", !.growing = FALSE, !.new = 0]
    /\ UNCHANGED <<content, used>>

(* Seeded fault: the directory grows without its record. *)
GrownRecordLost == content

GrownRecord == [content EXCEPT ![op.dir.at[1]][op.dir.at[2]].len = op.dir.len + 1]

RecordLength ==
    /\ At("length")
    /\ content' = GrownRecord
    /\ op' = [op EXCEPT !.pc = "search", !.growing = FALSE, !.new = 0, !.dir.len = @ + 1]
    /\ UNCHANGED <<fat, used>>

-----------------------------------------------------------------------------
(* write_entry_set, the end of rename, and what remove leaves to do.       *)

SetSlot(p, s) == content' = [content EXCEPT ![p[1]][p[2]] = s]

WriteSet ==
    /\ At("write")
    /\ SetSlot(op.place, op.set)
    /\ CASE op.kind = "mkdir" -> Onward([first |-> op.new, len |-> 1, at |-> op.place])
         [] op.kind = "rename" -> op' = [op EXCEPT !.pc = "retireOld"]
         [] OTHER -> op' = Idle
    /\ UNCHANGED <<fat, used>>

(* Seeded fault: the name entries are not rewritten. *)
EditedNot == op.set

(* The name changes where it is; the set keeps its slots, and with them    *)
(* the name entries that the new name has no use for.                      *)
Edited ==
    IF Shrinks(op.set, op.name)
    THEN [op.set EXCEPT !.name = op.name, !.used = FALSE, !.surplus = TRUE]
    ELSE [op.set EXCEPT !.name = op.name]

(* A name that ends before the second entry is sliced from behind its end, *)
(* and the program panics: it is stopped, with a checksum that is wrong.   *)
(* One that ends just there leaves the entry without units.                *)
Panicked == [Idle EXCEPT !.pc = "panicked"]

EditName ==
    /\ At("edit")
    /\ SetSlot(op.old, Edited)
    /\ op' \in IF Shrinks(op.set, op.name) THEN {Idle, Panicked} ELSE {Idle}
    /\ UNCHANGED <<fat, used>>

(* Seeded faults: one cluster too few is released, or one too many. *)
ReleasedShort == IF op.set.len = 0 THEN 0 ELSE op.set.len - 1
ReleasedLong == op.set.len + 1

Released == op.set.len

(* The slot keeps its bytes; nothing reads them once it is out of use.     *)
Retire ==
    /\ At("retire") \/ At("retireOld")
    /\ SetSlot(op.old, NoSet)
    /\ op' = IF At("retireOld") \/ Released = 0 THEN Idle
             ELSE [op EXCEPT !.pc = "free", !.cl = op.set.first, !.left = Released]
    /\ UNCHANGED <<fat, used>>

(* release_entry_clusters reads the link before it clears it.              *)
FreeLink ==
    /\ At("free")
    /\ fat' = [fat EXCEPT ![op.cl] = Free]
    /\ op' = [op EXCEPT !.pc = "unmark", !.next = IF op.left = 1 THEN 0 ELSE fat[op.cl]]
    /\ UNCHANGED <<content, used>>

AfterUnmark ==
    IF op.left = 1 \/ op.next \notin Clusters THEN Idle
    ELSE [op EXCEPT !.pc = "free", !.cl = op.next, !.left = @ - 1]

Unmark ==
    /\ At("unmark")
    /\ used' = used \ {op.cl}
    /\ op' = AfterUnmark
    /\ UNCHANGED <<content, fat>>

-----------------------------------------------------------------------------
Interrupted ==
    /\ op.pc \in FaultPoints
    /\ op' = Idle
    /\ UNCHANGED device

Step ==
    \/ Descend \/ NotDirectory \/ Missing
    \/ Search \/ Grow \/ CannotGrow \/ Claim \/ NoSpace \/ MarkUsed \/ Terminate \/ Link
    \/ RecordLength \/ WriteSet \/ EditName \/ Retire \/ FreeLink \/ Unmark

Next ==
    \/ \E path \in Paths :
        \/ CreateDirAll(path) \/ Create(path) \/ Remove(path)
        \/ \E n \in Names :
            /\ n \in Wide => Len(path) = 1 \/ "renameNested" \in Ops
            /\ Rename(path, n)
    \/ Step
    \/ Interrupted

Spec == Init /\ [][Next]_vars

-----------------------------------------------------------------------------
(* The paths a caller can list, and the clusters behind them.              *)

(* A set that rename has written is not there before the old one is gone.  *)
Hidden(p) == At("retireOld") /\ p = op.place

Entries(d) == {p \in ClusterSet(d) \X (1..SlotsPerCluster) : SetAt(p).used /\ ~Hidden(p)}

(* Every listed path with its place.                                       *)
Listed ==
    LET Children(path, d) == {<<Append(path, SetAt(p).name), p>> : p \in Entries(d)}
        level[k \in 1..MaxDepth] ==
            IF k = 1 THEN Children(<<>>, DirectoryAt(Top))
            ELSE UNION {Children(e[1], DirectoryAt(e[2])) :
                            e \in {x \in level[k - 1] : SetAt(x[2]).dir}}
    IN  UNION {level[k] : k \in 1..MaxDepth}

PlacesListed == {Top} \cup {e[2] : e \in Listed}
Owned(p) == IF IsDirectory(p) THEN ClusterSet(DirectoryAt(p)) ELSE {}
Reached == UNION {Owned(p) : p \in PlacesListed}

(* The clusters an operation has claimed and not yet attached, or detached *)
(* and not yet released.                                                   *)
FirstOf(first, n) == {Chain(first)[i] : i \in DOMAIN Chain(first) \cap (1..n)}
InHand ==
    CASE op.pc \in {"mark", "terminate", "link", "length"} -> {op.new}
      [] At("write") /\ op.kind = "mkdir" -> {op.new}
      [] At("free") -> FirstOf(op.cl, op.left)
      [] At("unmark") -> {op.cl} \cup (IF op.left = 1 THEN {} ELSE FirstOf(op.next, op.left - 1))
      [] OTHER -> {}

SlotOK(s) ==
    /\ s.name \in StoredNames \cup {None}
    /\ s.first \in Clusters \cup {0} /\ s.len \in 0..ClusterCount
    /\ s.dir /\ s.used => s.first \in Clusters /\ s.len # 0

(* Each variable holds what the program keeps there, and an operation's    *)
(* program point has the cluster, the slot or the component it works on.   *)
TypeOK ==
    /\ \A c \in Clusters : \A s \in 1..SlotsPerCluster : SlotOK(content[c][s])
    /\ fat \in [Clusters -> Clusters \cup {Free, EndOfChain}]
    /\ used \subseteq Clusters
    /\ op.pc \in {"mark", "terminate", "link", "length"} => op.new \in Clusters
    /\ op.pc \in {"free", "unmark"} => op.cl \in Clusters /\ op.left # 0
    /\ At("write") => op.place # None
    /\ At("descend") => op.i \in 1..Len(op.path)

(* The clusters of the directories a caller can reach are theirs alone,    *)
(* allocated, and all there are in their records; what an operation has in *)
(* hand is not among them.                                                 *)
OwnClusters ==
    /\ Reached \subseteq used
    /\ InHand \cap Reached = {}
    /\ \A p \in PlacesListed : IsDirectory(p) /\ p # Top => Cardinality(Owned(p)) = SetAt(p).len
    /\ \A p, q \in PlacesListed : p # q => Owned(p) \cap Owned(q) = {}

(* Only an interruption loses clusters: an operation that ends, with or    *)
(* without success, has attached or released all it had in hand.           *)
Lost == used \ (Reached \cup InHand)
NothingLost == [][Interrupted \/ Lost' \subseteq Lost]_vars

(* "Ensure every UTF-8 path component exists as an exFAT directory": when  *)
(* create_dir_all is done with the last component, the path leads there.   *)
EnsuresPath ==
    [][(Descend \/ WriteSet) /\ op.kind = "mkdir" /\ op'.pc = "idle" =>
        \E e \in Listed' : e[1] = op.path /\ SetAt(e[2])'.dir]_vars

(* "Rename a file or directory inside its current parent directory": when  *)
(* rename is done, the new name in that directory leads to the clusters    *)
(* the old one led to.                                                     *)
RenameMoves ==
    [][(EditName \/ (Retire /\ At("retireOld"))) =>
        \E e \in Listed' :
            /\ e[1] = Append(Parent(op.path), op.name)
            /\ SetAt(e[2])'.dir = op.set.dir /\ SetAt(e[2])'.first = op.set.first]_vars

KindOf(e) == IF SetAt(e[2]).dir THEN "dir" ELSE "file"
PathsListed ==
    LET Kinds(listed) == [path \in {e[1] : e \in listed} |->
                            KindOf(CHOOSE e \in listed : e[1] = path)]
    IN  Kinds(Listed)

Promise == INSTANCE PathTree WITH
    tree <- PathsListed, call <- [kind |-> op.kind, path |-> op.path, name |-> op.name]

(* Each call acts on the tree at once, on the path it was given alone.     *)
ImplementsPathTree == Promise!Spec
=============================================================================
