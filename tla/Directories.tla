------------------------------ MODULE Directories ------------------------------
(***************************************************************************)
(* One directory as a chain of 32-byte slots, and the entry sets in it     *)
(* (src/directory/entry.rs and the directory half of                       *)
(* src/fs/operations.rs).                                                  *)
(*                                                                         *)
(* The steps of an operation are its sector writes; a scan writes nothing  *)
(* and is one step, whose cut-off by a read error is an action of its own. *)
(*                                                                         *)
(* Abstractions: a slot keeps its type, its in-use bit and the fields      *)
(* scans look at; the set checksum is the sequence of contents it covers,  *)
(* so that it never collides; two names differ in each of their parts; the *)
(* clusters of the files are those of FileStreams.                         *)
(***************************************************************************)
EXTENDS Naturals, Sequences, FiniteSets

CONSTANTS
    Names,           \* the file names callers use
    Units,           \* length of each name in UTF-16 units
    UnitsPerEntry,   \* units a name entry holds (15)
    SlotsPerSector,  \* slots of a sector (16 or more)
    SectorsPerCluster,
    MaxClusters,     \* bound: clusters the directory can grow to
    Kind,            \* "root", "chained" or "contiguous"
    InitialSlots,    \* what format or another implementation left
    Streams,         \* the streams files are given
    Empty,           \* the stream of a new file
    SharedWorkspace, \* callers pass one Workspace to every call
    Renames,         \* pairs of names callers rename from and to
    Ops,             \* the operations callers use
    Faults,          \* "io", "crash"
    FaultPoints,     \* program points at which a fault strikes
    None

ASSUME DirectoryAssumption ==
    /\ Units \in [Names -> Nat \ {0}]
    /\ UnitsPerEntry \in Nat \ {0}
    /\ SlotsPerSector \in Nat \ {0}
    /\ SectorsPerCluster \in Nat \ {0}
    /\ MaxClusters \in Nat
    /\ Kind \in {"root", "chained", "contiguous"}
    /\ Len(InitialSlots) % (SlotsPerSector * SectorsPerCluster) = 0
    /\ Empty \in Streams
    /\ SharedWorkspace => Kind = "root"
    /\ Renames \subseteq Names \X Names
    /\ None \notin Names

VARIABLES
    slots,        \* device: the slots of the cluster chain, in order
    length,       \* device: clusters the parent's entry set gives the directory
    sealedLength, \* device: the same, as the checksum of that set covers it
    decoder,      \* Workspace.entry_set
    handle,       \* caller: the entry locators of its File for each name
    op            \* the operation in progress: a future's locals

device == <<slots, length, sealedLength>>
vars == <<slots, length, sealedLength, decoder, handle, op>>

SlotsPerCluster == SlotsPerSector * SectorsPerCluster
NameEntries(n) == (Units[n] + UnitsPerEntry - 1) \div UnitsPerEntry
SetSize(n) == 2 + NameEntries(n)
(* F(v), with v evaluated once.                                            *)
Apply(F(_), v) == CHOOSE r \in {F(x) : x \in {v}} : TRUE
Range(s) == LET Values(t) == {t[i] : i \in DOMAIN t} IN  Apply(Values, s)
Least(S) == CHOOSE x \in S : \A y \in S : x <= y

-----------------------------------------------------------------------------
(* Slots and entry sets.                                                   *)

EndSlot == [tag |-> "end", used |-> FALSE]
PadSlot == [tag |-> "pad", used |-> TRUE]
SystemSlot == [tag |-> "system", used |-> TRUE]
Primary(secondaries, sum) ==
    [tag |-> "primary", used |-> TRUE, secondaries |-> secondaries, sum |-> sum]
StreamSlot(len, s) == [tag |-> "stream", used |-> TRUE, len |-> len, stream |-> s]
NameSlot(part) == [tag |-> "name", used |-> TRUE, part |-> part]

(* What a slot can hold; the checksum in a primary entry is the contents   *)
(* that it covers.                                                         *)
Parts == (Names \X Nat) \cup {<<>>}
Stream == {s \in [data : Nat, valid : Nat] : s.valid <= s.data}
Contents ==
    [tag : {"end"}, used : {FALSE}] \cup [tag : {"pad", "system"}, used : BOOLEAN]
    \cup [tag : {"primary"}, used : BOOLEAN, secondaries : Nat, sum : {<<>>}]
    \cup [tag : {"stream"}, used : BOOLEAN, len : Nat, stream : Stream]
    \cup [tag : {"name"}, used : BOOLEAN, part : Parts]
Slot ==
    Contents \cup [tag : {"primary"}, used : BOOLEAN, secondaries : Nat, sum : Seq(Contents)]

(* A directory has a cluster at least, and slots in it; the lengths of a   *)
(* file fit each other.                                                    *)
ASSUME ContentsAssumption ==
    /\ InitialSlots \in Seq(Slot) \ {<<>>}
    /\ Streams \subseteq Stream /\ None \notin Stream

(* The units of a name that its i-th name entry holds.                     *)
NamePart(n, i) == IF (i - 1) * UnitsPerEntry < Units[n] THEN <<n, i>> ELSE <<>>
NameParts(n) == [i \in 1..NameEntries(n) |-> NamePart(n, i)]

(* What the checksum covers of a slot: all but the checksum itself.        *)
Content(s) == IF s.tag = "primary" THEN [s EXCEPT !.sum = <<>>] ELSE s

Secondaries(n) == SetSize(n) - 1

NewSet(n, s) ==
    [i \in 1..SetSize(n) |->
        CASE i = 1 -> Primary(Secondaries(n), <<>>)
          [] i = 2 -> StreamSlot(Units[n], s)
          [] OTHER -> NameSlot(NamePart(n, i - 2))]

Checksum(set) == [i \in DOMAIN set |-> Content(set[i])]
SealedSet(n, s) == [NewSet(n, s) EXCEPT ![1].sum = Checksum(NewSet(n, s))]

-----------------------------------------------------------------------------
(* EntrySet: the decoder that scans push slots into.  left counts the      *)
(* secondary slots the current set still lacks; out is what push returns.  *)

FreshDecoder ==
    [left |-> 0, ignored |-> FALSE, seen |-> FALSE, len |-> 0, name |-> <<>>, stream |-> None,
     locs |-> <<>>, sum |-> <<>>, expect |-> <<>>, out |-> "none"]

(* Seeded fault: the checksum is not compared. *)
CompleteUnchecked(d) ==
    IF d.left # 0 THEN d
    ELSE IF ~d.seen \/ Len(d.name) * UnitsPerEntry < d.len
    THEN [d EXCEPT !.out = "corrupt"]
    ELSE [d EXCEPT !.out = "entry"]

Complete(d) ==
    IF d.left # 0 THEN d
    ELSE IF ~d.seen \/ Len(d.name) * UnitsPerEntry < d.len \/ d.sum # d.expect
    THEN [d EXCEPT !.out = "corrupt"]
    ELSE [d EXCEPT !.out = "entry"]

(* Seeded fault: a secondary slot is not counted. *)
TakenUncounted(d, i, s) ==
    [d EXCEPT !.locs = Append(@, i), !.sum = Append(@, Content(s)), !.out = "none"]

(* A secondary slot the decoder takes into the set.                        *)
Taken(d, i, s) ==
    [d EXCEPT !.left = @ - 1, !.locs = Append(@, i), !.sum = Append(@, Content(s)), !.out = "none"]

Push(d, i, s) ==
    IF s.tag = "primary" /\ s.used
    THEN IF d.left # 0 \/ s.secondaries < 2
         THEN [d EXCEPT !.out = "corrupt"]
         ELSE [FreshDecoder EXCEPT !.left = s.secondaries, !.expect = s.sum,
                                   !.locs = <<i>>, !.sum = <<Content(s)>>]
    ELSE IF d.left = 0
    THEN [d EXCEPT !.out = "none"]
    ELSE IF d.ignored
    THEN [d EXCEPT !.left = @ - 1, !.ignored = d.left # 1, !.out = "none"]
    ELSE IF s.tag = "stream" /\ s.used /\ ~d.seen /\ Len(d.locs) = 1
    THEN Complete([Taken(d, i, s) EXCEPT !.seen = TRUE, !.len = s.len, !.stream = s.stream])
    ELSE IF s.tag = "name" /\ s.used /\ d.seen /\ Len(d.name) * UnitsPerEntry < d.len
    THEN Complete([Taken(d, i, s) EXCEPT !.name = Append(@, s.part)])
    ELSE [d EXCEPT !.left = @ - 1, !.ignored = TRUE, !.out = "none"]

(* The decoder before and after each slot of a scan, until an end marker or *)
(* Corrupt.                                                                *)
Advance(d, i, s) ==
    IF d.out \in {"corrupt", "end"} THEN d
    ELSE IF s.tag = "end" THEN [d EXCEPT !.out = "end"]
    ELSE Push(d, i, s)

Trace(d, view) ==
    LET Over(scanned) ==
            LET t[i \in 0..Len(scanned)] ==
                    IF i = 0 THEN <<d>>
                    ELSE LET Further(before) == Append(before, Advance(before[i], i, scanned[i]))
                         IN  Apply(Further, t[i - 1])
            IN  t[Len(scanned)]
    IN  Apply(Over, view)

(* Seeded fault: only names of one entry are compared. *)
IsNamedShort(d, n) == d.name = NameParts(n) /\ Len(d.name) = 1
IsNamed(d, n) == d.name = NameParts(n) /\ d.len = Units[n]

(* find_child: the decoder at the set with the name, or where the scan     *)
(* stopped without it.                                                     *)
ScanFor(d, view, n) ==
    LET t == Trace(d, view)
        hits == {i \in DOMAIN t : t[i].out = "entry" /\ IsNamed(t[i], n)}
    IN  IF hits # {} THEN t[Least(hits)]
        ELSE [t[Len(t)] EXCEPT !.out = IF @ = "corrupt" THEN @ ELSE "absent"]

(* What a scan leaves in the Workspace: with no set begun, nothing that a  *)
(* later scan looks at.                                                    *)
Left(d) == IF d.left = 0 THEN FreshDecoder ELSE [d EXCEPT !.out = "none"]

-----------------------------------------------------------------------------
(* The slots that each kind of scan reads.  The root chain has no length;  *)
(* find_child and find_free_entries give up after the first cluster of a   *)
(* contiguous directory, read_directory does not.                          *)

Clusters(n) == SubSeq(slots, 1, n * SlotsPerCluster)
LookupSlots ==
    CASE Kind = "root" -> slots
      [] Kind = "chained" -> Clusters(length)
      [] Kind = "contiguous" -> Clusters(1)
ListSlots == IF Kind = "root" THEN slots ELSE Clusters(length)

(* A path that leads through the directory's own damaged set is Corrupt.   *)
Reachable == Kind = "root" \/ length = sealedLength
Lookup(d, n) ==
    IF Reachable THEN ScanFor(d, LookupSlots, n) ELSE [d EXCEPT !.out = "corrupt"]

Idle ==
    [pc |-> "idle", kind |-> "none", name |-> None, stream |-> Empty, locs |-> <<>>, old |-> <<>>,
     before |-> <<>>, i |-> 0, run |-> 0]

Init ==
    /\ slots = InitialSlots
    /\ length = Len(InitialSlots) \div SlotsPerCluster
    /\ sealedLength = length
    /\ decoder = FreshDecoder
    /\ handle = [n \in Names |-> <<>>]
    /\ op = Idle

At(pc) == op.pc = pc
Begin(n) == Lookup(decoder, n)
Leave(d) == decoder' = IF SharedWorkspace THEN Left(d) ELSE decoder
SlotsAt(locs) == [k \in DOMAIN locs |-> slots[locs[k]]]

-----------------------------------------------------------------------------
(* Lookup and the calls that begin with one.                               *)

Open(n) ==
    LET d == Begin(n)
    IN  /\ At("idle") /\ handle[n] = <<>> /\ d.out = "entry"
        /\ handle' = [handle EXCEPT ![n] = d.locs]
        /\ Leave(d)
        /\ UNCHANGED <<device, op>>

Close(n) ==
    /\ At("idle") /\ handle[n] # <<>>
    /\ handle' = [handle EXCEPT ![n] = <<>>]
    /\ UNCHANGED <<device, decoder, op>>

(* PathNotFound or Corrupt, from whichever operation looks the name up.    *)
LookupFails(n) ==
    LET d == Begin(n)
    IN  /\ At("idle") /\ d.out # "entry"
        /\ Leave(d)
        /\ UNCHANGED <<device, handle, op>>

(* A read fails after k sectors of the scan.                               *)
LookupIoError(n, k) ==
    LET seen == SubSeq(LookupSlots, 1, k * SlotsPerSector)
        d == ScanFor(decoder, seen, n)
    IN  /\ At("idle") /\ "io" \in Faults /\ "lookup" \in FaultPoints
        /\ Reachable /\ k * SlotsPerSector < Len(LookupSlots)
        /\ d.out = "absent" /\ EndSlot \notin Range(seen)
        /\ Leave(d)
        /\ UNCHANGED <<device, handle, op>>

CreateAbsent(n) ==
    LET d == Begin(n)
    IN  /\ At("idle") /\ "create" \in Ops /\ d.out = "absent"
        /\ op' = [Idle EXCEPT !.pc = "search", !.kind = "create", !.name = n]
        /\ Leave(d)
        /\ UNCHANGED <<device, handle>>

(* create truncates a file that exists: its stream becomes the empty one.  *)
CreateExisting(n) ==
    LET d == Begin(n)
    IN  /\ At("idle") /\ "create" \in Ops /\ handle[n] = <<>> /\ d.out = "entry"
        /\ op' = [Idle EXCEPT !.pc = "stream", !.kind = "create", !.name = n, !.old = d.locs,
                              !.before = SlotsAt(d.locs)]
        /\ Leave(d)
        /\ UNCHANGED <<device, handle>>

Remove(n) ==
    LET d == Begin(n)
    IN  /\ At("idle") /\ "remove" \in Ops /\ handle[n] = <<>> /\ d.out = "entry"
        /\ op' = [Idle EXCEPT !.pc = "retire", !.kind = "remove", !.name = n, !.old = d.locs,
                              !.before = SlotsAt(d.locs), !.i = 1]
        /\ Leave(d)
        /\ UNCHANGED <<device, handle>>

(* append, truncate: an open File rewrites its stream extension.           *)
Update(n, s) ==
    /\ At("idle") /\ "update" \in Ops /\ handle[n] # <<>>
    /\ op' = [Idle EXCEPT !.pc = "stream", !.kind = "update", !.name = n, !.stream = s,
                          !.old = handle[n], !.before = SlotsAt(handle[n])]
    /\ UNCHANGED <<device, decoder, handle>>

(* Seeded fault: the new set is that of a new file. *)
RelocatedEmpty(s) == Empty

(* rename writes a new set when the name needs more slots than the set     *)
(* has, and overwrites the set otherwise.  The new set's valid_length is   *)
(* the data_length.  Nothing keeps callers from renaming a file that is    *)
(* open ("renameOpen") or to a name that exists ("renameOnto").            *)
Relocated(s) == [s EXCEPT !.valid = s.data]

Rename(n, m) ==
    LET d == Begin(n)
        start == [Idle EXCEPT !.kind = "rename", !.name = m, !.old = d.locs,
                              !.before = SlotsAt(d.locs)]
    IN  /\ At("idle") /\ "rename" \in Ops
        /\ handle[n] = <<>> \/ "renameOpen" \in Ops
        /\ "renameOnto" \in Ops \/ (handle[m] = <<>> /\ Lookup(FreshDecoder, m).out = "absent")
        /\ d.out = "entry"
        /\ op' = IF SetSize(m) > Len(d.locs)
                 THEN [start EXCEPT !.pc = "search", !.stream = Relocated(d.stream)]
                 ELSE [start EXCEPT !.pc = "restream"]
        /\ Leave(d)
        /\ UNCHANGED <<device, handle>>

-----------------------------------------------------------------------------
(* find_free_entries: the first run of slots not in use that holds the     *)
(* set; at the end of the chain the directory grows by a cluster.          *)

Wanted == SetSize(op.name)
(* Seeded fault: a run one slot too short will do. *)
FreeStartsShort(view) ==
    {i \in 1..Len(view) : /\ i + Wanted - 1 <= Len(view)
                          /\ \A j \in i..(i + Wanted - 2) : ~view[j].used}

FreeStarts(view) ==
    {i \in 1..Len(view) : /\ i + Wanted - 1 <= Len(view)
                          /\ \A j \in i..(i + Wanted - 1) : ~view[j].used}
TailRun(view) ==
    Len(view) - (IF \A i \in DOMAIN view : ~view[i].used THEN 0
                 ELSE CHOOSE i \in DOMAIN view : /\ view[i].used
                                                 /\ \A j \in (i + 1)..Len(view) : ~view[j].used)

(* Seeded fault: one locator too many. *)
StartWritingLong(first) ==
    [op EXCEPT !.pc = "write", !.i = 1, !.run = 0, !.locs = [k \in 1..(Wanted + 1) |-> first + k - 1]]

StartWriting(first) ==
    [op EXCEPT !.pc = "write", !.i = 1, !.run = 0, !.locs = [k \in 1..Wanted |-> first + k - 1]]

Search ==
    /\ At("search") /\ FreeStarts(LookupSlots) # {}
    /\ op' = StartWriting(Least(FreeStarts(LookupSlots)))
    /\ UNCHANGED <<device, decoder, handle>>

(* The chain goes on where the record says it ends, after a growth that    *)
(* was cut short: NoSpace.                                                 *)
CanGrow == Kind = "root" \/ (Kind = "chained" /\ Len(slots) = length * SlotsPerCluster)

ReachEnd ==
    /\ At("search") /\ FreeStarts(LookupSlots) = {} /\ CanGrow
    /\ Len(slots) < MaxClusters * SlotsPerCluster
    /\ op' = [op EXCEPT !.pc = "link", !.run = TailRun(LookupSlots)]
    /\ UNCHANGED <<device, decoder, handle>>

LinkCluster ==
    /\ At("link")
    /\ slots' = slots \o [i \in 1..SlotsPerCluster |-> EndSlot]
    /\ op' = [op EXCEPT !.pc = "pad"]
    /\ UNCHANGED <<length, sealedLength, decoder, handle>>

(* A set that begins in the old tail goes on in the new cluster, if its    *)
(* first sector holds the rest of it; otherwise the search starts over.    *)
OldEnd == Len(slots) - SlotsPerCluster

(* Seeded fault: the locators begin a slot early. *)
FirstLocatorEarly == OldEnd - op.run
FirstLocator == OldEnd - op.run + 1

AfterGrowth ==
    IF op.run # 0 /\ Wanted - op.run <= SlotsPerSector
    THEN StartWriting(FirstLocator)
    ELSE [op EXCEPT !.pc = "search", !.run = 0]

(* Seeded faults: the new cluster is padded in place of the old tail, and  *)
(* a subdirectory grows without its record. *)
PaddedNew(i) == IF i > OldEnd THEN PadSlot ELSE slots[i]
AfterPadUnrecorded == AfterGrowth

(* The end markers of the old tail's last sector become slots in use.      *)
Padded(i) ==
    IF i \in (OldEnd - SlotsPerSector + 1)..OldEnd /\ slots[i].tag = "end"
    THEN PadSlot ELSE slots[i]
AfterPad == IF Kind = "root" THEN AfterGrowth ELSE [op EXCEPT !.pc = "length"]

PadOldTail ==
    /\ At("pad")
    /\ slots' = [i \in DOMAIN slots |-> Padded(i)]
    /\ op' = AfterPad
    /\ UNCHANGED <<length, sealedLength, decoder, handle>>

RecordLength ==
    /\ At("length")
    /\ length' = length + 1
    /\ op' = [op EXCEPT !.pc = "sealLength"]
    /\ UNCHANGED <<slots, sealedLength, decoder, handle>>

SealLength ==
    /\ At("sealLength")
    /\ sealedLength' = length
    /\ op' = AfterGrowth
    /\ UNCHANGED <<slots, length, decoder, handle>>

NoSpace ==
    /\ At("search") /\ FreeStarts(LookupSlots) = {}
    /\ ~CanGrow \/ Len(slots) = MaxClusters * SlotsPerCluster
    /\ op' = Idle
    /\ UNCHANGED <<device, decoder, handle>>

-----------------------------------------------------------------------------
(* Writing, retiring and editing a set, slot by slot.                      *)

SetSlot(i, s) == slots' = [slots EXCEPT ![i] = s]

WriteSlot ==
    /\ At("write")
    /\ SetSlot(op.locs[op.i], NewSet(op.name, op.stream)[op.i])
    /\ op' = IF op.i = Wanted THEN [op EXCEPT !.pc = "seal", !.i = 0] ELSE [op EXCEPT !.i = @ + 1]
    /\ UNCHANGED <<length, sealedLength, decoder, handle>>

SealNewSet ==
    /\ At("seal")
    /\ slots' = [slots EXCEPT ![op.locs[1]].sum = Checksum(NewSet(op.name, op.stream))]
    /\ IF op.kind = "rename"
       THEN op' = [op EXCEPT !.pc = "retire", !.i = 1] /\ UNCHANGED handle
       ELSE op' = Idle /\ handle' = [handle EXCEPT ![op.name] = op.locs]
    /\ UNCHANGED <<length, sealedLength, decoder>>

(* Seeded faults: the set is retired back to front, or its first slot over *)
(* and over. *)
RetiredBackwards == op.old[Len(op.old) + 1 - op.i]
AfterRetireSame == op

Retired == op.old[op.i]
AfterRetire == IF op.i = Len(op.old) THEN Idle ELSE [op EXCEPT !.i = @ + 1]

RetireSlot ==
    /\ At("retire")
    /\ slots' = [slots EXCEPT ![Retired].used = FALSE]
    /\ op' = AfterRetire
    /\ UNCHANGED <<length, sealedLength, decoder, handle>>

RenameStream ==
    /\ At("restream")
    /\ slots' = [slots EXCEPT ![op.old[2]].len = Units[op.name]]
    /\ op' = [op EXCEPT !.pc = "rename", !.i = 1]
    /\ UNCHANGED <<length, sealedLength, decoder, handle>>

(* The units from (i - 1) * UnitsPerEntry on; a slice that starts behind   *)
(* the end of the name panics.                                             *)
SliceInBounds == (op.i - 1) * UnitsPerEntry <= Units[op.name]

RenameSlot ==
    /\ At("rename") /\ SliceInBounds
    /\ SetSlot(op.old[op.i + 2], NameSlot(NamePart(op.name, op.i)))
    /\ op' = IF op.i + 2 = Len(op.old) THEN [op EXCEPT !.pc = "reseal", !.i = 0]
             ELSE [op EXCEPT !.i = @ + 1]
    /\ UNCHANGED <<length, sealedLength, decoder, handle>>

UpdateStream ==
    /\ At("stream")
    /\ slots' = [slots EXCEPT ![op.old[2]].stream = op.stream]
    /\ op' = [op EXCEPT !.pc = "reseal"]
    /\ UNCHANGED <<length, sealedLength, decoder, handle>>

(* The checksum of whatever the slots now hold.                            *)
Reseal ==
    /\ At("reseal")
    /\ slots' = [slots EXCEPT ![op.old[1]].sum = Checksum(SlotsAt(op.old))]
    /\ handle' = IF op.kind = "create" THEN [handle EXCEPT ![op.name] = op.old] ELSE handle
    /\ op' = Idle
    /\ UNCHANGED <<length, sealedLength, decoder>>

-----------------------------------------------------------------------------
(* An error return; a dropped future leaves the same state.                *)
IoError ==
    /\ "io" \in Faults /\ op.pc \in FaultPoints
    /\ op' = Idle
    /\ UNCHANGED <<device, decoder, handle>>

Restart ==
    /\ decoder' = FreshDecoder
    /\ handle' = [n \in Names |-> <<>>]
    /\ op' = Idle
    /\ UNCHANGED device

Crash == "crash" \in Faults /\ op.pc \in FaultPoints /\ Restart
Panic == At("rename") /\ ~SliceInBounds /\ Restart

Step ==
    \/ Search \/ ReachEnd \/ LinkCluster \/ PadOldTail \/ RecordLength \/ SealLength \/ NoSpace
    \/ WriteSlot \/ SealNewSet \/ RetireSlot
    \/ RenameStream \/ RenameSlot \/ UpdateStream \/ Reseal \/ Panic

Next ==
    \/ \E n \in Names :
        \/ Open(n) \/ Close(n) \/ LookupFails(n)
        \/ CreateAbsent(n) \/ CreateExisting(n) \/ Remove(n)
        \/ \E s \in Streams : Update(n, s)
        \/ \E k \in 1..(MaxClusters * SectorsPerCluster) : LookupIoError(n, k)
    \/ \E p \in Renames : Rename(p[1], p[2])
    \/ Step
    \/ IoError \/ Crash

Spec == Init /\ [][Next]_vars

(* The executor polls a future it has started until it completes.          *)
FairSpec == Spec /\ WF_vars(Step)

-----------------------------------------------------------------------------
(* What a scan with a fresh decoder finds.                                 *)

(* The slots as they stand when the operation in progress has not begun or *)
(* is over: a set being written is not there yet, nor is one that rename   *)
(* has written and not begun to retire the old one; a set being edited is  *)
(* as it was.                                                              *)
GoneSlot == [tag |-> "name", used |-> FALSE, part |-> <<>>]
Settled ==
    [i \in DOMAIN slots |->
        CASE op.pc \in {"write", "seal"} /\ i \in Range(op.locs) -> GoneSlot
          [] At("retire") /\ op.i = 1 /\ i \in Range(op.locs) -> GoneSlot
          [] op.pc \in {"rename", "stream", "reseal"} /\ i \in Range(op.old) ->
                op.before[CHOOSE k \in DOMAIN op.old : op.old[k] = i]
          [] OTHER -> slots[i]]

(* Every set a listing shows; Readable when it shows them all.             *)
Shown(view) == {d \in Range(Trace(FreshDecoder, view)) : d.out = "entry"}
Readable(view) == \A d \in Range(Trace(FreshDecoder, view)) : d.out # "corrupt"
Listed == Shown(ListSlots)

Locators == {l \in Seq(DOMAIN slots) : l = <<>> \/ Len(l) >= 3}

DecoderType ==
    [left : Nat, ignored : BOOLEAN, seen : BOOLEAN, len : Nat, name : Seq(Parts),
     stream : Stream \cup {None}, locs : Seq(DOMAIN slots), sum : Seq(Contents),
     expect : Seq(Contents), out : {"none", "entry", "corrupt", "end", "absent"}]

OpType ==
    [pc : {"idle", "search", "link", "pad", "length", "sealLength", "write", "seal", "retire",
           "restream", "rename", "stream", "reseal"},
     kind : {"none", "create", "remove", "update", "rename"}, name : Names \cup {None},
     stream : Stream, locs : Locators, old : Locators, before : Seq(Slot), i : Nat, run : Nat]

(* Each variable holds what the program keeps there: the record never      *)
(* reaches past the chain, locators name slots of the chain, and the       *)
(* program point of an operation has a slot to work on.                    *)
TypeOK ==
    /\ slots \in Seq(Slot) /\ Len(slots) % SlotsPerCluster = 0
    /\ length \in Nat /\ sealedLength \in Nat
    /\ Kind # "root" => length * SlotsPerCluster <= Len(slots) /\ sealedLength <= length
    /\ decoder \in DecoderType
    /\ handle \in [Names -> Locators]
    /\ op \in OpType
    /\ At("write") => op.i \in DOMAIN op.locs
    /\ At("retire") => op.i \in DOMAIN op.old
    /\ At("rename") => op.i + 2 \in DOMAIN op.old
    /\ op.pc \in {"restream", "stream", "reseal"} => op.old # <<>>
    /\ At("seal") => op.locs # <<>>

(* A scan stops at the first end marker, so no slot behind one may be      *)
(* used: growth pads the old tail and sets are written front to back.      *)
EndMarkersLast ==
    \A i \in DOMAIN slots : slots[i].tag = "end" =>
        \A j \in i..Len(slots) : slots[j].tag = "end"

(* A set in a subdirectory is only written where the directory's own       *)
(* record, checksum included, already reaches.                             *)
WrittenWithinRecord ==
    Kind = "chained" /\ op.pc \in {"write", "seal"} =>
        /\ length = sealedLength
        /\ Range(op.locs) \subseteq 1..(length * SlotsPerCluster)

(* "A damaged secondary entry must never be returned as a valid file":     *)
(* every set a scan returns carries a name somebody gave it, whole.        *)
ShownAreWhole == At("idle") => \A d \in Listed : \E n \in Names : IsNamed(d, n)

(* No two sets a listing shows carry one name.                             *)
NamesUnique ==
    At("idle") => \A d, e \in Listed : d.name = e.name => d = e

(* The locators of an open File still name its own set: nothing else has   *)
(* been written over them, however often the directory was reorganised.    *)
LocatorsHold ==
    \A n \in Names : handle[n] # <<>> =>
        LET set == SlotsAt(handle[n])
        IN  /\ set[1].tag = "primary" /\ set[1].used /\ set[1].secondaries = Len(set) - 1
            /\ set[2].tag = "stream" /\ set[2].used
            /\ \A k \in 3..Len(set) : set[k].tag = "name" /\ set[k].used
            /\ op.pc \in {"write", "seal"} => Range(handle[n]) \cap Range(op.locs) = {}
            /\ \A m \in Names \ {n} : Range(handle[n]) \cap Range(handle[m]) = {}

(* A call answers as if its Workspace were new ("it is reusable").         *)
WorkspaceReusable ==
    At("idle") => \A n \in Names :
        LET shared == Begin(n)
            fresh == Lookup(FreshDecoder, n)
        IN  shared.out = fresh.out /\ shared.locs = fresh.locs

(* No interrupted step makes the directory unreadable.                     *)
ScansEnd == At("idle") => Readable(ListSlots)

(* "the root chain, which ends at its first unused entry": the scan mount  *)
(* makes of the root is Corrupt when it meets none.                        *)
RootHasEndMarker == Kind = "root" => EndSlot \in Range(slots)

(* "the caller immediately overwrites them": no slot stays padded.         *)
PadsOverwritten == At("idle") => PadSlot \notin Range(slots)

(* "If the final metadata write fails, the old end marker still hides the  *)
(* linked cluster."                                                        *)
OldEndMarkerHides ==
    op.pc \in {"length", "sealLength"} /\ op.run # 0 =>
        \E i \in 1..OldEnd : slots[i].tag = "end"

(* A file just created is one that a listing shows.                        *)
CreatedIsListed ==
    [][SealNewSet => \E d \in Listed' : IsNamed(d, op.name)]_vars

RenameDone ==
    op.kind = "rename" /\ (At("reseal") \/ (At("retire") /\ op.i = Len(op.old))) /\ op'.pc = "idle"

(* "The operation preserves all stream metadata": when a rename is done,   *)
(* its new name finds the stream the old one had.                          *)
RenameKeepsStream ==
    [][RenameDone /\ Step =>
        \E d \in Listed' : IsNamed(d, op.name) /\ d.stream = op.before[2].stream]_vars

(* Every operation that is polled ends: no search, growth or retirement    *)
(* repeats itself (find_free_entries searches again after each growth).    *)
OperationsComplete == ~At("idle") ~> At("idle")

(* The directory as the abstract one holds it.                             *)
Entries ==
    LET Named(shown) ==
            [n \in Names |-> IF \E d \in shown : IsNamed(d, n)
                             THEN (CHOOSE d \in shown : IsNamed(d, n)).stream ELSE None]
    IN  Apply(Named, Shown(IF Kind = "root" THEN Settled
                           ELSE SubSeq(Settled, 1, length * SlotsPerCluster)))

Call == [kind |-> op.kind, name |-> op.name, stream |-> op.stream]

Directory == INSTANCE DirectoryStore WITH entries <- Entries, call <- Call, Absent <- None

(* Each operation takes effect at once, on the names it was given alone,   *)
(* while it is in progress.                                                *)
ImplementsDirectory == Directory!Spec
=============================================================================
