# A verification model of exfat-embedded

TLA+ modules, TLC configurations and TLAPS proofs for `exfat-embedded`, an
allocation-free async exFAT driver.  All paths below are relative to the crate
(`src/src/...` in the repository tree).  Everything is translated from the
code; the crate's documentation is only quoted where a run shows that the code
does something else.

## 1. The system and its parts

`FileSystem<D>` owns a block device and the mounted volume's geometry.  Every
operation is an `async fn` on `&mut self`, so there is exactly one operation in
progress; between two device requests it may be suspended for ever (its future
is dropped), it may get an error back, or the power may go.  There is no
journal: the order of the sector writes is the only protection, and what a
handle or a workspace remembers outlives the operation that was cut.

| Component (source) | State it keeps | Operations | Talks to | Hard behaviour | What makes it correct |
|---|---|---|---|---|---|
| Cluster allocation (`fs/allocation.rs`) | FAT, allocation bitmap, cached `free_clusters` | `set_fat`, `set_bitmap`, `allocate_cluster_preferred`, `claim_free_cluster`, `refresh_free_clusters`, `cluster_at` | called by append, truncate, remove, directory growth | claim is zero–mark–terminate–link in four writes; scan wraps; the count is cached | no cluster has two owners; the count is exact; only failed operations lose clusters |
| File handles and streams (`fs/operations.rs`, `fs/file.rs`) | the caller's detached `File` (extent, lengths, position, cached cluster); on the volume the stream extension and the set checksum | `open`, `create`, `read`, `write`, `append`, `truncate`, `remove`, `update_stream` | allocation; the entry set in the directory | contiguous streams become FAT chains on growth; handle rollback on error but not on drop; record and data change in separate writes | the file is a byte sequence; nothing unwritten becomes visible; handle and record agree |
| Entry-set decoder and `Workspace` (`directory/entry.rs`) | outstanding secondaries, partial set, running checksum; lives in the caller's `Workspace` across calls | `EntrySet::push`, `complete` | fed slot by slot by every scan | state survives an interrupted scan; unknown secondaries; torn sets | a damaged set is never returned as a file; a call answers as with a new workspace |
| Directory slots (`fs/operations.rs`) | 32-byte slots of a cluster chain; for a subdirectory also its own stream extension | `find_child`, `read_directory`, `find_free_entries`, `write_entry_set`, `retire_entry_set`, `rename` | allocation (growth), decoder, `update_stream` of the parent's set | a set may straddle sectors and clusters; growth links, pads and records in separate writes; in-place and relocating rename | each operation acts at once on its own name; scans end; locators in open handles stay right |
| Paths and the tree of directories (`fs/operations.rs`) | directories in clusters of their own, each with its length in its parent's slot | `lookup`, `create_dir_all`, `remove` with `is_dir_empty`, nested `rename` | slots, allocation, release | a cluster is claimed before a slot names it; the parent's path is looked up in the buffer that holds the new name | no cluster has two owners; each call acts on its own path; only an interruption loses clusters |
| UpCase lookup (`upcase_unit`, `names_match`, name hash) | the on-volume compressed table | lookup per UTF-16 unit | name comparison, create, rename | uses the single sector scratch while a directory scan is using it | equals the decompressed table |
| Mount (`mount/mod.rs`, `fs/operations/mount.rs`) | geometry, bitmap and UpCase locations | MBR/GPT discovery, boot region and backup, root scan, UpCase check | every other component | backup selection, chain walks with loops | accepts what format wrote and what the driver later makes of it |
| Format (`format.rs`) | – | layout iteration, FAT, bitmap, UpCase, root, boot regions | mount | order of writes, layout fixed point | a mount of its result succeeds with an empty root |
| Geometry (`core/geometry.rs`) | – | cluster to LBA, FAT byte, bitmap position | everywhere | 32/64-bit arithmetic | injective, in range |
| Block device and `Scratch` (`core/device.rs`) | implemented outside the crate | sector reads and writes, `flush` | everywhere | errors, caches | – |

Interactions that matter: `create`, `rename` and growth hand *locators* (sector
and offset of each slot) to `File` values that the file system forgets about;
`append` and `truncate` later write through them.  The same `Workspace` and
`Scratch` are passed to every call.  `free_clusters` is RAM that shadows the
bitmap.  `PROJECT.json` lists the hazards that follow, each at its line.

## 2. The modules

| Module | Models | Role |
|---|---|---|
| `FileStreams` | allocation and the file operations | detailed specification |
| `FileStore` | what a user of files is promised | abstract specification of `FileStreams` |
| `CachedStreams` | a device with a volatile write cache, and `flush` | extends `FileStreams` |
| `FileStreams_proofs` | – | theorems about `FileStreams`: types, the free count, handles, lengths, which file a cluster belongs to |
| `Content_proofs` | – | extends it: where the bytes of a file lie, what they are, and that `FileStreams` implements `FileStore` |
| `Directories` | decoder, workspace, slots, create/remove/rename/update, growth | detailed specification |
| `Directories_proofs` | – | theorems about `Directories`: types, the record of a subdirectory, end markers, whole sets |
| `Listing_proofs` | – | extends it: what scans find, unique names, and that `Directories` implements `DirectoryStore` |
| `DirectoryStore` | what a user of a directory is promised | abstract specification of `Directories` |
| `Tree` | paths: several directories over one FAT and bitmap | detailed specification |
| `PathTree` | what a user of paths is promised | abstract specification of `Tree` |
| `Tree_proofs` | – | theorems about `Tree`: types, which directory a cluster belongs to, that none is lost, what paths there are; the refinement of `PathTree` |
| `UpCase` | the walk through the up-case table, lookups without case | specification |
| `UpCase_proofs` | – | theorems about `UpCase` |
| `Geometry` | layout, addresses, checks of a boot sector | pure operators |
| `Mount` | what a mount finds on a device | pure operators, extends `Geometry` |
| `Volumes` | format, mount, use, damage, power cuts | specification, extends `Mount` |
| `Geometry_proofs` | – | theorems about `Geometry` |
| `Induction` | – | induction over intervals and recursive functions, for the proofs |
| `MCFileStreams`, `MCCachedStreams`, `MCDirectories`, `MCTree`, `MCUpCase`, `MCVolumes` | – | instances for TLC |

The composition follows the code's own layers.  `Tree` puts directories over
allocation; `CachedStreams` puts the file operations on a device that reorders;
`Volumes` puts format and mount on one device.  What a module takes whole, such as
an entry set in `Tree`, is what another one takes apart.

### FileStreams

Variables: `fat`, `used` (the allocation bitmap), `data` (the bytes of each
cluster), `live`/`stream`/`sealed` (the entry set of each file: whether it is
in use, its stream extension, and the extension as the set checksum covers it;
the two differ exactly while `update_stream` is between its writes, or was cut
there), `freeClusters`, `handle` (the caller's `File` for each path), and `op`
(the locals and the program point of the future in progress).

One action is one sector write, or one FAT link followed.  `Append` starts an
append; `GrowEmpty`, `GrowContiguous`, `GrowChained`, `FollowTail`,
`FoundTail` find the tail; `Claim` (zeroes), `MarkUsed`, `Terminate*`,
`Materialize` (the FAT links that a contiguous stream never had), `Link` and
`Grown` are the growth loop; `Seek*`, `Walk`, `Arrive`, `TransferChunk` are
`file_cluster_at` and the copy loop that `read`, `write` and `append` share;
`UpdateStream` and `Seal` are `update_stream`; `Keep*`, `Cut`, `FreeLink`,
`Unmark`, `Freed` are `truncate` and `release_entry_clusters`.  `CheckFails`
collects the conditions under which the code returns `Corrupt` or `NoSpace`.
`IoError` is a device error and includes the rollback of the handle
(`restore_on_err`), `Cancel` a dropped future, which skips it (the caller keeps
the `File` or, with the fault "abandon", drops that as well), `Crash` a power cut
followed by a mount.

Abstractions: a cluster is one sector; a byte is `Zero` or a value that a
caller wrote, so that a property can tell whose byte it is; one handle per
file; a directory is one record per file.

### Directories

Variables: `slots` (the slots of the chain, in order), `length` and
`sealedLength` (the directory's data length in its own entry set, and as that
set's checksum covers it), `decoder` (`Workspace.entry_set`), `handle` (the
locators of each open `File`), `op`.

`Push` and `Complete` are `EntrySet::push` and `complete`; `ScanFor` is
`find_child`, `Trace` a listing; `LookupSlots` and `ListSlots` differ as the
code does: a lookup stops after the first cluster of a contiguous directory.
A scan reads only and is one step; `LookupIoError` cuts it.  `Search`,
`ReachEnd`, `LinkCluster`, `PadOldTail`, `RecordLength`, `SealLength` are
`find_free_entries`; `WriteSlot` and `SealNewSet` are `write_entry_set`;
`RetireSlot` is `retire_entry_set`; `RenameStream`, `RenameSlot`, `Panic` are
rename in place (a slice that starts behind its end panics); `UpdateStream`
and `Reseal` are `update_stream`.

Abstractions: the checksum is the sequence of contents it covers, so it never
collides; two different names differ in every part; allocation of the new
cluster is `FileStreams`' business.  `create_dir_all`
and `is_dir_empty` are in `Tree`.

### Tree

Variables: `content` (the entry sets in each cluster), `fat`, `used`, `op`.  A
directory is a chain of clusters, as long as the length that its own slot in
its parent says.  `CreateDirAll`, `Descend`, `Missing`, `NotDirectory` and
`Onward` are the loop of `create_dir_all` over the components of a path;
`Search`, `Grow`, `CannotGrow` and `RecordLength` are `find_free_entries`;
`Claim`, `NoSpace`, `MarkUsed`, `Terminate` and `Link` are
`claim_free_cluster` and the growth of a directory; `WriteSet`, `EditName`
and `Retire` the writes of create and rename; `FreeLink` and `Unmark` are
`release_entry_clusters`.  `Interrupted` stops the operation between two writes,
at the points of `FaultPoints`.

`Buffered` is what rename leaves in the workspace's name buffer when it has to
look its parent up: the parent's name, and behind it the rest of the new one.

A rename in place to a name of fewer entries (`Shrinks`) does not do what it says.  If the
name ends before the entry the set has too many, the slice of the name for it starts
behind the name's end and the program panics, with the stream entry and the first name
entry written and the checksum of before.  If it ends just there, the entry is written
without units, and the decoder passes over a set with such an entry: the name is gone and
its clusters stay marked.  `Edited` has the set that no scan returns and whose slot stays
taken, `Panicked` the program that stops there; what scans make of the wrong checksum is
in `Directories`.  Only callers with `"renameShorter"` in `Ops` do this, and `Tree.cfg` has none: with
it `RenameMoves` fails after 6 states and `NothingLost` after 10, without any interruption,
while `TypeOK` and `OwnClusters` hold.

Abstractions: an entry set is one slot and written at once (`Directories` has
the slots), a new file is empty (`FileStreams` has the data), and a call that a
lookup refuses changes nothing and is no step.  A cut between the two sets of a
relocating rename leaves both names: what becomes of a file's set then is in
`Directories`, and for directories it is no point of `Tree.cfg`.  With `"retireOld"`
in `FaultPoints`, `OwnClusters` fails after 17 states: both sets lead to the same
clusters.

### UpCase

Variables: `table` and `valid` (the on-volume table, and whether its checksum
held at mount), `directory`, `scratch` (which sector the caller's one sector of
memory holds), `op`.  `WalkFor` is `upcase_unit`, word by word; `Mapping` is what
the table means, stated without a walk, from the items it consists of.
`ReadSector`, `SkipSlot`, `PushEntry`, `Compare`, `Restore` and `Absent` are
`find_child` with `names_match`; `Create` and `CreateFails` are the name hash and
the set that is written.  `Parsed` reads the slot from `scratch`: when a table
sector is there, its words are taken for slots.

Abstractions: code units are 0 to 4, of which 0 and 1 are ASCII and 4 is the
marker of a run (0xffff in the code); a slot holds a whole set; the name hash is
the folded name itself.

### Geometry, Mount and Volumes

`Geometry` has the layout (`FatRounds`, `Settled`, `FormatGeometry`), the boot
sector, the addresses (`ClusterLba`, `FatLba`, `BitPosition`) and `parse_boot`'s
checks (`BootAccepted`).  `Mount` is `Volume::mount` as one operator on the
sectors of a device, `MountResult`: partition table, boot region or backup, the
scan of the root, the up-case table.  A mount only reads and no other call runs
meanwhile, so one step is enough; a device error in it is `MountIoError`.

`Volumes` is the device: `media` (as it was found), `disk` (as reads see it),
`stable` (as of the last flush), `format` (the step of `format_exfat`), `volume`
(what the last mount returned), and the histories `holds`, `made`, `damaged`.
`WriteSector` is one write of format, in the order `Writes` gives; `Flush` ends
it; `Crash` keeps or loses what was not flushed; `Create` puts a file into the
root; `Tear` and `Erase` damage a medium nobody has open.

Abstractions: a sector is a record of what is in it, `Zero` or `Junk` (bytes that
read as no structure); a checksum is the data it covers, except that a region of
zeros has the checksum zero, as in the code; GPT entries divide a sector; the
sector-size checks at the head of mount and format are left out.

### CachedStreams

`FileStreams` unchanged, with `medium` (the sectors as of the last flush) and
`since` (what a call did to each file since then).  `FlushFileSystem` is the only
flush: no operation calls it.  `PowerCut` lets each sector be the old or the new one
— the FAT, the bitmap, each cluster, each file's set — and mounts what is left.
Versions of a sector between the flush and the last write are left out.

### Abstract specifications

`FileStore` is a function from files to byte sequences or `Absent`, with
create, append, overwrite, truncate and remove.  `FileStreams` implements it
under the mapping `View`: the bytes the *sealed* record leads to, with a
truncate taking effect when it begins and an append when its record is sealed.
`DirectoryStore` is a function from names to streams.  `Directories` implements
it under `Entries`: what a fresh scan finds once the sets that the operation in
progress is writing, retiring or editing are put back or taken away.
`PathTree` is a function from paths to "file" or "dir": a call makes or removes
one leaf, or moves one subtree.  `Tree` implements it under `PathsListed`, the
paths that a recursive listing finds.

All three also hold the call in progress (the variable `call`, mapped to the
kind, name and data of `op`): an effect is allowed only while its call runs (in
`FileStore`, create and remove are over in the step that calls them), on that
call's own file, name or path, and with its own data.  A step that changed
somebody else's entry, or changed anything after its call had returned, would
violate the refinement even if the result were a legal map.  TLC checks the
refinements as `ImplementsStore`, `ImplementsDirectory` and `ImplementsPathTree`.

## 3. The runs

Every constant that bounds a run is in its `.cfg`.

| Run | Instance | Question |
|---|---|---|
| Layout | 2 files, 4 one-byte clusters, files up to 4 | who owns which cluster when the heap is exhausted; refinement of `FileStore`; nothing is lost without an error |
| Failures | 2 files of up to 3, 3 two-byte clusters of which two are adjacent, errors and power cuts | nothing uninitialised is ever visible, no cross links, handles agree with records after errors |
| Streaming | 1 file, 2 values, 3 two-byte clusters of which two are adjacent, errors, power cuts and abandoned futures | transfers find their cluster, each operation takes effect once or not at all, every polled operation completes |
| Cached | 2 files, 2 one-byte clusters, a cache that loses any sectors in a power cut, then one more call with errors and dropped futures | a file that no call touched survives whatever other calls left in the cache; free count and types hold on what is left |
| Root | 3 names, root of up to 3 clusters, one shared workspace | each directory operation acts at once; no duplicate names; the workspace is reusable |
| Subdirectory | 3 names, one wider than a cluster, up to 3 clusters, faults in lookup, search, growth and removal | growth keeps record, slots and locators consistent; scans end |
| TornSets | 3 names of 1, 2 and 7 units, renames to a name of as many, more and fewer entries and onto existing names, a fault at any sector write except between link and padding | no half-written set is ever shown; locators hold; operations end |
| Tree | 4 names, two with a longer set, 3 clusters of one slot, paths of two components, interruptions | owners of clusters, leaks, and the refinement of `PathTree` |
| UpCase | every table of up to 2 words and 11 longer ones, valid or not; 3 directories, 5 names | the walk maps as the table says; a lookup finds what is there, whatever the walk left in the scratch memory |
| Volumes | 16 media: 9 sizes of erased devices, MBR with two FATs (table right and wrong), GPT, one of this crate's own volumes, three that are no volume | what a mount finds behind format, power cut, error, tear |

Violations: each shows a line of the repository that the code does not keep.

| Run | Property | What happens |
|---|---|---|
| RenameNested | `RenameMoves` | rename below the root to a longer name stores the parent's name over the new one |
| StaleRoot | `NoPriorFiles` | after a reformat with clusters of several sectors, the old volume's files reappear |

Further counterexamples are kept as configurations of the same modules; each
violates the one property it names, and can be run by hand:

| Configuration | Module | What happens |
|---|---|---|
| `RemoveLeaks.cfg` | `MCFileStreams` | `remove` frees only the first cluster of a contiguous file |
| `ByteLengthAppend.cfg` | `MCFileStreams` | append to a contiguous file with a byte-exact `data_length` drops its last cluster |
| `TruncateCrash.cfg` | `MCFileStreams` | `truncate` frees clusters before the record shrinks |
| `CancelledAppend.cfg` | `MCFileStreams` | a dropped append leaves a handle that is too long |
| `GrowthFlushed.cfg` | `MCCachedStreams` | an append that returned is not flushed (the crate's README says growth "flushes through the block device") |
| `RenameLonger.cfg` | `MCDirectories` | relocation writes `valid_length := data_length` |
| `RenameTwice.cfg` | `MCDirectories` | rename onto an existing name leaves two sets with it |
| `RenameExact.cfg` | `MCDirectories` | a shorter name that fills its entries exactly makes the file vanish |
| `ResealedRename.cfg` | `MCDirectories` | an open handle gives a torn rename a valid checksum |
| `FullRoot.cfg` | `MCDirectories` | a root filled exactly has no end marker, and mount refuses the volume |
| `WorkspaceAfterError.cfg` | `MCDirectories` | a lookup after an interrupted one is `Corrupt` |
| `ContiguousLookup.cfg` | `MCDirectories` | create duplicates a name of a contiguous directory's second cluster |
| `HiddenSet.cfg` | `MCDirectories` | after one failed create, the next file is written behind an end marker |
| `PaddedSlots.cfg`, `GrowthMarker.cfg` | `MCDirectories` | two comments in `find_free_entries` that do not hold |
| `AsciiServed.cfg` | `MCUpCase` | with a damaged table an ASCII lookup fails over a sibling of its length |
| `ErasedPrimary.cfg` | `MCVolumes` | a boot region of zeros has the checksum zero, and the backup is not tried |
| `UnorderedCache.cfg` | `MCVolumes` | format flushes once: a cache that loses one sector keeps a root without its FAT |
| `UnsettledLayout.cfg` | `MCVolumes` | the layout goes back and forth between two FAT lengths, and format refuses the device |
| `RaggedScratch.cfg` | `MCVolumes` | scratch memory that is no multiple of a sector makes `write_upcase` panic |

`Havoc.cfg` (one file, two one-byte clusters, truncate, errors, power cuts and
dropped futures) passes: it checks the invariants behind the theorems of section
4 on volumes that a failed truncate has damaged.

### Why the bounds are enough

*Files.* Two files suffice for every ownership question (all are about pairs);
four clusters let a chain be contiguous, become fragmented, wrap around the
heap's end and run full.  Two-byte clusters give a partly filled last cluster.
In `Streaming` and `Failures` the system clusters separate the free ones, so that every file
of more than one cluster is a FAT chain.

*Directories.* A sector holds four slots and a name entry two units instead of
16 and 15.  Sets of three, four and six slots fit a sector, fill it, and exceed
it: they straddle, begin exactly at a boundary, or need growth twice.  The
proportions that matter (a set against a sector, a tail run against a set) take
every value they can take in the code.  `HiddenSet` has two sectors to a
cluster, which the real volume usually has.

*Tree.* One slot to a cluster makes every second entry grow its directory, and
three clusters let two directories compete for the last one, and a chain of two be
released.  Two names of each kind let a set be renamed in place, and a third be moved to a
longer set beside them.  The names of a kind are symmetric: nothing orders names.  Depth two has the
root, a directory in it and its entries: every rule is about a directory and its
parent.

*UpCase.* A run needs the units in front of it, in it and behind it: three units
outside ASCII.  All tables of two words include the empty one, the marker without
a count, runs of length zero and runs that reach past the last unit.  The longer ones
put a run across the end of a table's sector.

*Volumes.* The sizes of the format are constants of `Geometry`, and `Volumes.cfg`
scales them down: sectors of 8 bytes, boot regions of 3 sectors, FAT entries of 2
bytes, a bitmap of one bit to a byte, tiers at 27 and 40 sectors.  All three tiers
occur, FATs of several sectors, bitmaps and tables of one and of several clusters, and
sizes just in front of and behind each limit.  The proofs of section 4 hold for the
code's own sizes.  `MaxMade`, one file made per medium, is enough to tell old files
from new; `StaleRoot` needs two to fill a sector.

*Cached.* One power cut: what it leaves is a volume like the others, on which one
more call runs.  Device errors before the cut are `Failures`' business.

`NoSpace` by `MaxClusters`, appends limited by `MaxLength`, `MaxCuts`, `MaxMade`
and `MaxDepth` are the only caps; each is a guard of a caller, of the allocator or
of a fault.

### Fairness

`FairSpec` adds weak fairness of `Step`, the next step of the operation in
progress: an executor polls a future it was given until it completes, and the
device answers.  Calls, faults and mounts are not fair: a caller may stop.
`OperationsComplete` then says that no walk, growth loop, search or retry
spins.

### Deadlock

TLC checks for it in every passing run: a caller can always make a call.

## 4. The proofs

Every theorem holds for all constants that satisfy the named assumptions of its
module: any number of files and clusters, any cluster size, chains and tables of
any length.

### Files

`ConstantsAssumption` and `PreexistingAssumption` say that the counts are naturals,
that system clusters lie in the heap, that no written byte is `Zero`, that `None` is
no number and no file, and that what another implementation left lies in the heap
with `valid_length` up to `data_length`.  The code's own counterparts are what mount
checks of the geometry and the decoder of a stream extension.

| Theorem | Property | Hypotheses beyond the assumptions |
|---|---|---|
| `TypeCorrect` | `TypeOK` | – |
| `FreeCountCorrect` | `FreeCountExact` | – |
| `HandlesCoherent` | `HandleCoherent` | `HandlesTrusted` |
| `NoCrossLinks` | `NoCrossLink` | `VolumeApart`, `NeverTruncated` |
| `CachesCoherent` | `CacheCoherent` | those three, `WholeClusters` |
| `TransfersInFile` | `TransfersReachFile` | the same |
| `RecordsAllocated` | `ExtentsAllocated` | the same, no device errors |
| `NoForeignBytes` | `NoUninitialisedRange` | the same but with device errors, `PayloadGiven` |
| `StoreImplemented` | `ImplementsStore` | the same, `NoneIsNoFile` |

The hypotheses, and what happens without them:

* `NeverTruncated`: no truncate, and no create of a file that is there (which
  truncates).  Truncate frees clusters before the record shrinks; cut in between,
  it leaves a record that names free clusters (`TruncateCrash.cfg`), and another
  file gets them.  The properties that speak of truncate are in run Layout, which
  has no faults.
* `HandlesTrusted`: a caller that drops a future drops its handle too
  (`CancelledAppend.cfg` shows why: `restore_on_err` does not run), and no device
  error strikes a truncate, which has no such guard.
* `VolumeApart`, `WholeClusters`, `PayloadGiven`: what another implementation left is
  a sound volume: its files share no cluster, an empty one has none, a `data_length`
  is whole clusters (`ByteLengthAppend.cfg` shows the append that loses a cluster
  otherwise), and bytes below `valid_length` were written.
* No device errors, for `ExtentsAllocated` alone: an error in `update_stream` leaves a
  torn record and a handle that goes on; a later append through that handle links
  other clusters behind the old ones, and the torn record, which no lookup returns,
  then counts differently.  `NoUninitialisedRange` says what remains true of it.
* `NoneIsNoFile`: the mark of an absent file is no sequence of bytes.

Each invariant rests on those above it in this list:

1. `TypeOK` is inductive as it stands and more than types: the cursors of the
   operation in progress are what its program point needs (a walk stands on a
   cluster whose FAT entry exists, a claimed cluster lies in the heap, a release has
   something left).  `StepType` and `CallType` gather one lemma for each action.
   Faults are included, and so are volumes that a failed truncate has damaged.
2. `FreeCountExact` relative to `TypeOK`: `SetBitmapCounts` is the cardinality
   argument, `FreeCountStep` shows that nothing but `set_bitmap`, a refresh and a
   mount touches either side.
3. `KindOK` says which operation is at which program point; `HandleInv` that every
   handle is the sealed record of its file, except the one that the operation in
   progress works on, and that append has put aside one that is; `LengthsOK` what
   the lengths and positions of handle, record and call have to do with each other.
4. `Owned(o)`: `o` gives each cluster a file or nobody.  No variable of the program
   holds such a map, so the invariant `SomeOwner` says that there is one.  What a
   record or a handle leads to belongs to its file, no FAT entry leads from one
   owner to another, and what belongs to a live file is marked in the bitmap.  A
   cluster changes hands when append terminates it, in the write before the first
   link to it, and loses its owner when remove unmarks it (`Handover`); what a failed
   append leaves behind stays with its file, although nothing can reach it.  This is
   what keeps stale links in the FAT harmless: they lead from nobody.
5. `Layout`: the chain of each sealed record, of each handle and of the growing one
   lies in the heap with each cluster once (`Laid`), a cached cluster is the one at
   its index (`CacheHolds`), and each cursor stands where the chain says
   (`CursorsPlaced`; while append materialises a contiguous stream, which links are
   written).  `Laid` of a chain that a step extends, or whose links a step rewrites
   elsewhere, comes from the ownership of 4: what it writes is not in the chain.
6. `Content(o)`: the bytes below a sealed `valid_length` are the file's, and an owned
   cluster holds its owner's bytes or zeroes.
7. `Appended`: what append has moved so far lies behind the bytes of the record, in
   order.  With it every step of the program is a step of the store or none
   (`StepStores`, `CallStores`): the sealing of the record is the store's append
   (`SealAppends`), each chunk of a write its overwrite (`ChunkOverwrites`), and for
   all other steps `ShownStays`.

`View`, the refinement mapping, is TLC's; `Contents` is the same function without the
case of a truncate in progress.

`Induction` is for what is recursive: `ChainIn`, the clusters of a chain, and the walk
of `UpCase`.  `IntervalInduction` is an induction over numbers that is stated with a
set instead of an operator; it follows from the library's well-foundedness of inclusion
among finite sets.  `Iteration` says that a function which is defined step by step
exists on every interval.  `ChainEquation` and `WalkSteps` unfold the two recursive
functions with them, and everything else about chains and tables follows from those.

### Directories

`DirectoryAssumption` and `ContentsAssumption` say that names and entries have units,
that a directory is whole clusters and at least one, that its slots and the
streams of its files are what a slot can hold, and that `None` is no name and no stream.

| Theorem | Property | Hypotheses beyond the assumptions |
|---|---|---|
| `TypeCorrect` | `TypeOK` | – |
| `WritesWithinRecord` | `WrittenWithinRecord` | – |
| `EndMarkersStayLast` | `EndMarkersLast` | `InitialEndsLast`, `Fits` |
| `LocatorsStay` | `LocatorsHold` | `~SharedWorkspace`, no `"renameOpen"` |
| `ShownStayWhole` | `ShownAreWhole` | the same, `InitialSumsWhole` |
| `WorkspaceStaysReusable` | `WorkspaceReusable` | `Listable` |
| `ScansAlwaysEnd` | `ScansEnd` | `Listable` |
| `NamesStayUnique` | `NamesUnique` | `Listable` |
| `RenamesKeepStreams` | `RenameKeepsStream` | `Listable`, `StreamsWhole` |
| `DirectoryImplemented` | `ImplementsDirectory` | `Listable`, `StreamsWhole`, `RenamesFinished` |

`InitialEndsLast` is the property itself, of the directory as it was found.  `Fits` says
that what growth pads, one sector, holds every end marker of the old tail: because a set
fits a sector, because only the last one-sector cluster of a subdirectory has end markers
(as in `Subdirectory.cfg`), or because the directory is contiguous and never grows.
Without it a growth that fails behind its padding leaves end markers in front of it, and
the next set is written behind them: `HiddenSet.cfg`.

`LocatorsStay` and `ShownStayWhole` are about the conditions of run TornSets, with every
fault:

* `~SharedWorkspace`: each call brings its own `Workspace`.  One that an interrupted call
  left behind holds half a set, and the next lookup that uses it is `Corrupt`
  (`WorkspaceAfterError.cfg`); run Root shares one, without faults.
* no `"renameOpen"`: nobody renames a file while a File is open on it.  An update
  through that File would otherwise give the set that the rename left half renamed a
  checksum that fits (`ResealedRename.cfg`).
* `InitialSumsWhole`: a checksum that is on the volume at first covers a whole set of one
  name.  `TwoClusters` of `MCDirectories` is such a volume with files on it.

The five of `Listing_proofs` are about runs Root and Subdirectory, both of which satisfy
all the hypotheses.  `Listable` gathers those on which lookups and listings depend:

* `InitialFormed`, `InitialEndsLast`: the directory was left by this code or by one as
  orderly: whole sets with fitting checksums, no name twice, no end marker in front of
  one.  `Fits` is as above.
* `LookupsWhole`: a lookup sees the directory that a listing sees, that is, the directory
  is a FAT chain or one cluster.  A contiguous one is looked up in its first cluster only,
  and create then makes a name twice (`ContiguousLookup.cfg`).
* `LookupsFinished`: workspaces are not shared, or no lookup is cut short, since what one
  leaves in the workspace makes the next one `Corrupt` (`WorkspaceAfterError.cfg`).
* `SetsFinished`: no fault while a set is being written, renamed or updated in place.  A
  set half written is what run TornSets is about; `ShownStayWhole` is the theorem.
* `RenamesFit`: nobody renames onto a name that exists (`RenameTwice.cfg`), below an open
  File (`ResealedRename.cfg`), or in place to a name with fewer entries, of which one
  that fills its entries makes the file vanish (`RenameExact.cfg`).

`StreamsWhole` (`valid_length` equals `data_length`) is there because a relocating rename
writes the one for the other (`RenameLonger.cfg`).  `RenamesFinished` says that no fault
falls between the two sets of a relocating rename, behind which both names are listed.

1. `TypeInv` is inductive where `TypeOK` is not.  `DecoderOK` says of the decoder, which
   the `Workspace` carries from one call to the next, that its locators and its checksum
   are as long as each other and name slots of the chain that are no end markers, so that
   a File opened from it, or the operation that begins with it, has a set to work on
   (`FoundOK`); it is preserved by `Push` of any slot (`PushOK`), hence by every scan
   (`TraceOK`, by induction over the slots), and by every write (`DecoderKept`): a slot
   once written never becomes an end marker again (`SlotsKept`).  `RoomOK` says that
   growth has the slots that the locators after it will name, and how far the chain is
   ahead of the directory's record.
2. `RecordInv`, relative to `TypeInv`: the record and its checksum differ only in the
   middle of a growth, or after one that was cut, and then no path leads into the
   directory (`Reachable`).  A growth that was cut before the record leaves a chain
   longer than the record; `CanGrow` refuses such a directory, and a search sees the
   recorded part only.
3. `EndsInv`, relative to `TypeInv`: at each step of growth, no end marker in front of
   what it is about to pad, and while a set is written, none in front of the slot at
   hand.  `EndsSearch` is why a search leaves no end marker before the room it finds (all
   slots from there on would have been room), `EndsReachEnd` why the tail run fits the
   padded sector.
4. `SetInv`, relative to `TypeInv`, is about whole sets: a primary, its stream and its
   names in consecutive slots, with the parts of one name in order (`WholeAt`).
   `SumsInv`: every checksum covers such a set.  `HandlesWhole`: the locators of an open
   File are one.  `OldWhole`: what an operation other than an update edits has no slot
   in common with an open File; a rename in place has given the set the new name up to
   its cursor, and what is resealed is a whole set.  `NewWhole`: while the directory
   grows, the run of slots that the new set will take holds no set (`Vacant`); while the
   set is written, its slots are consecutive, no open File has one, and those written so
   far are the new set's.
   Three lemmas carry it: `FoundWhole`, that a scan returns a whole set or none (by
   induction over the slots, what the decoder holds at each); `NamesApart`, that the sets
   of two names share no slot; `VacantApart`, that a set shares none with the room that a
   search or growth found.  `ChecksumCovers` and `ShownNamed` relate the checksum of what
   a scan returns to the name it carries.
5. `FormInv`, relative to 1 to 3, is about the directory as a whole: `Visible`, the slots
   once what the operation in progress is in the middle of is put back or taken away, is
   `Formed`: every primary in use begins a whole set whose checksum fits.  `Held` are
   those sets, no two have one name (`Once`), and each open File names the slots of one.  `ScanFormed`,
   by induction over the slots, is why a scan of such a directory ends without `Corrupt`
   and leaves the decoder idle, `ScanFinds` why it finds a name just where a held set has
   it, `ShownIs` why a listing is the held sets in order.  What each program point adds:
   where the new set goes, slot by slot written or not (`NewForm`), that its
   name is not held (`FormAbsent`: the lookup failed when the call began); which set the
   operation edits or retires and how far it has come (`OldForm`, `RetireForm`).
   One lemma for each action says that the held sets stay (`Same`) or that one is
   `Added`, taken away (`OnlyGone`) or `Replaced`; `NamesStayUnique` follows at once.
   `WorkspaceReusable` compares the scan with one that starts with a new workspace:
   an idle decoder and a fresh one find the same, whatever is left in the idle one's
   locators.
6. `EntriesAre` says that the refinement mapping `Entries` is the map of the held sets
   (`MapOf`), so each of the cases in 5 is a step of `DirectoryStore` or a stutter
   (`MapSame`, `MapCreated`, `MapRemoved`, `MapReplaced`).  An effect falls into the
   operation's own step (`OwnEffect`): create's is the seal of its set, remove's and a
   relocating rename's the retirement of the old primary, an update's and a rename's in
   place the write of the checksum.

### Tree

`TreeAssumption` says that there is a cluster, that it has a slot, and that `None` is
neither a name nor a place.

| Theorem | Property | Hypotheses beyond the assumptions |
|---|---|---|
| `TypeCorrect` | `TypeOK` | `"retireOld" \notin FaultPoints`, `"renameShorter" \notin Ops` |
| `ClustersOwned` | `OwnClusters` | the same two |
| `PathsEnsured` | `EnsuresPath` | the same two, and `"renameNested" \notin Ops` |
| `NamesMove` | `RenameMoves` | the same three |
| `TreeImplemented` | `ImplementsPathTree` | the same three |
| `ClustersKept` | `NothingLost` | the same three |

`Tree.cfg` satisfies all three hypotheses.  The first: no interruption between `write_entry_set` and
`retire_entry_set` of a rename.  There two sets lead to one chain of clusters, and it
is not enough that `OwnClusters` fails while both are there: removing one of them
frees the clusters of the other, which then has a record longer than its chain.  Every
other point may be interrupted, the writes of growth and release included.

The second: no rename to a name of fewer entries than the set has (`Shrinks`), which panics or
loses the set.  `NamesMove`, `TreeImplemented` and `ClustersKept` are false without it.  In
the first two theorems it is there for the proof: what is below a directory that was lost is
in no listing, but it is in the chains of the invariant.

The third: no rename below the root to a name of `Wide`, which may need a longer set.  The
code then stores the parent's name over the new one (run `RenameNested`), which is what
`NamesMove` and `TreeImplemented` exclude; and as nothing looks that name up, a directory
may end with two sets of one name, and a path with two meanings.  The first two theorems
allow such renames.  In all of them, callers do not rename to a name that exists
(`Rename`), which the code leaves to them.

`OwnClusters` speaks of what a listing reaches, through records and FAT links; it is not
inductive, since it says nothing of links that no record covers, nor of the clusters that
the operation holds.  The invariant `Inv` says that there are *chains* that account for
them: a function `ch` from the places of directories (with `Top` for the root, and `Hand`
for the clusters that the operation in progress has claimed or is about to release) to
sequences of clusters.

* `Struct(ch)`: no cluster is in two chains or twice in one (`Disjoint`), the FAT leads
  through each (`Linked`), their clusters are marked (`Marked`), the root's chain ends
  (`RootChain`), what can be found in them says what they are (`Records`: a place has a
  chain just when a directory's set is there, with the chain's first cluster and length),
  and no set is in the clusters in hand (`HandEmpty`).
* `Held(ch)`: what the locals of the operation say of the chains: the claimed cluster is
  the one in hand, the directory being searched has a chain, the place found is free and in it,
  the old set of a rename or remove is as it was when it was looked up.

A step changes the chains in one of five ways, each with a lemma about sequences and one
about `Struct`: `Emptied` (the operation ends: what an interruption leaves in hand has no
owner, which is the leak that `NothingLost` allows), `Taken` (a cluster is claimed), `Attached`
(it becomes the last of its directory when the record has the new length, of the root
when it is linked, of a new directory when its set is written), `Shifted` (a rename gives the chain
to the new place; a remove takes it in hand) and `Dropped` (the first cluster in hand is released).
For all other steps `StructStays`.  `ChainEquation` unfolds the recursion of `Chain`, and
`ClustersAre` says that the clusters of a directory are its chain: a record is what
`SubSeq` cuts from the FAT chain, so links behind the record, which a growth that was cut
leaves, do no harm.  `LookupSteps` (induction over the components of a path) and
`ListedLive` (over the levels of a listing) say that what callers reach has chains.

The last four theorems are about paths, and their invariant adds `NamesInv` to `Inv`: a path
is listed once (`Unique`), and the operation in progress fits the listing (`Fits`): its
directory is listed at the path it was asked for, the name it makes is absent there, the set
it renames or removes is listed at its path.  Without the second part the first is not
inductive: `create` looks its name up once, and writes it many steps later.

* `Listed` is defined by levels, and so is hard to compare before and after a step.
  `ListedSpanned` characterises it without them: it is the one set that spans the relation
  "lies in" (`Spanned`, `OnePath`).  Four lemmas follow, for a step that lists the same
  (`ListedStill`), one set more (`ListedMore`), a leaf less (`ListedLess`), or a subtree
  under another name (`ListedMoved`).
* The steps of growth and release list the same (`Kept`), though they write clusters, links and
  records: a new last cluster has no used slot.  Only `WriteSet`, `EditName` and `Retire`
  change the listing, each once (`MadeListed`, `MovedListed`, `RetiredListed`).
* `Shown` relates the map `PathsListed` to the set `Listed`, and `MadeShown`, `RemovedShown` and
  `MovedShown` say what the changes of the listing are in `PathTree`: one path more, one less,
  a subtree moved.  `TreeStep` then maps every step of `Tree` to a step of `PathTree` or a stutter.
* `NothingLost` compares the marked clusters that nobody reaches.  `ChainsAccounted` says that
  the clusters of listed chains and those in hand are just such that are reached; `NoneLost`
  that a step is harmless if each of its clusters is afterwards in a listed chain, in hand,
  or no longer marked (`Lossless`).  One lemma for each way the chains change shows that it
  is, all but `Interrupted`.  A chain stays listed because its directory does, so this
  needs the lemmas about listings too.

### Geometry

`Geometry_proofs` holds six, for all sizes that satisfy `GeometryAssumption`
(positive sizes, sectors that hold whole FAT entries), among them the code's own
ones, where TLC ran with scaled ones.  `BootFields` and `Partitions` are the
numbers that a boot sector and a partition table can hold.

* `ClustersInside`, `ClustersApart`, `FatEntriesInside`: in every geometry that
  `parse_boot` accepts, the sectors of a cluster lie in the partition and behind
  the FATs, two clusters share none, and the FAT entry of a cluster lies in the
  active FAT.  `AcceptedGeometry` unfolds what was accepted; `ProductGrows` and
  `QuotientBelow` are the two facts about products and quotients that the
  provers need to be told.
* `FatEntriesWhole`: no FAT entry straddles two sectors, so one read has it all.
* `BitsApart`: no two clusters share a bit of the bitmap.
* `FormatAccepted`: mount accepts what format lays out, and reads the same
  geometry.  A settled FAT length is a fixed point of the layout
  (`SettledLayout`), so it is the number of sectors that `parse_boot` asks for; the
  clusters behind it fit because the quotient is rounded down
  (`FormattedGeometry`).  Which round settles does not matter, and the recursion
  of `FatRounds` is never unfolded.

### Up-case table and lookup

`UpCase_proofs` holds three, for every set of tables, directories and names that
satisfies `UpCaseAssumption` and `DirectoriesAssumption` (words and units are at
most the marker, names are not empty, directories are whole sectors and hold
nothing behind their end):

* `TypeCorrect`: `Spec => []TypeOK`, by `TypeInv`, which adds to `TypeOK` that the
  slot about to be parsed is the one in the scratch memory and that what is
  compared is as long as the name.
* `MapsAsTable`: `Spec => []UpcaseAsTable`, for tables of any length.  The invariant
  is about the loop of `upcase_unit`, word by word (`WalkInv`): the walk stands on an
  item or behind the last word, its `code` is the sum of the lengths of the items in
  front (`Sums`), none of them reaches the unit it looks for, and where it stops it has
  what the table says (`Settled`).  The induction over the words is `IntervalInduction`.
* `LookupCorrect`: `Spec => []LookupFinds`.  `ScanInv` is what makes it inductive: the
  sets before the slot have other names, the units before the one that is compared
  agree, what a scan leaves in `restore` differs, and nothing in use lies behind a
  slot never used.  It speaks of the walk as a function of units; `SameAsTable` and
  `FoldsAsTable` translate that into what the table means, by `MapsAsTable`.

### Only model-checked

Liveness and ENABLED are outside what the prover handles: `OperationsComplete` of
each module.  Not yet proved, though nothing stands against it: the invariants of
`Volumes`, `CachedStreams`, `LostOnlyByErrors`, and the file theorems for truncate without
faults.

## 5. Not modelled, and the plan

Not modelled:

* several copies of one `File` (the code leaves it to the caller to drop them);
* reformatting a used device with other cluster sizes and a cut behind the first
  boot region: new geometry over old contents, of which the code promises nothing
  (the medium is there, no property speaks of it);
* the last unit of a table: the table that format writes ends with 0xffff, which the
  walk takes for the marker of a run without its count (`UpCase` has that walk; that
  U+FFFF is then `Corrupt` follows from it and is in no property);
* timestamps, attributes, the exact encoding of names, logging, sets of more than 18
  secondaries, checksum collisions;
* u32 and u64 casts: `parse_boot` uses checked arithmetic, and addresses of accepted
  geometries stay below the partition's end by `ClustersInside`;
* implementations of `AsyncBlockDevice`, which are outside the crate, and the
  declarations of `core/error.rs` and `lib.rs`.

Done: `FileStreams`, `FileStore`, `CachedStreams`; `Directories`,
`DirectoryStore`; `Tree`, `PathTree`; `UpCase`; `Geometry`, `Mount`, `Volumes`; the
theorems of section 4, among them the refinements of `FileStore`, `DirectoryStore` and
`PathTree`.
Next, in order:

1. The invariants of `Volumes`.
2. `LostOnlyByErrors` and the file theorems for truncate without faults.
3. `SharedHandles`: two copies of a `File`.

## 6. Running it

    tlc -config Layout.cfg MCFileStreams.tla
    tlc -config Root.cfg MCDirectories.tla
    tlc -config Tree.cfg MCTree.tla
    tlc -config UpCase.cfg MCUpCase.tla
    tlc -config Volumes.cfg MCVolumes.tla
    tlc -config Cached.cfg MCCachedStreams.tla
    tlapm Induction.tla
    tlapm FileStreams_proofs.tla
    tlapm Content_proofs.tla
    tlapm Directories_proofs.tla
    tlapm Listing_proofs.tla
    tlapm Tree_proofs.tla
    tlapm Geometry_proofs.tla
    tlapm UpCase_proofs.tla

Operators with a comment `Seeded fault` are the mutated forms that
`PROJECT.json` pairs with properties: replacing the definition by its mutant
must break the property.
