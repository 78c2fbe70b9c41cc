--------------------------------- MODULE UpCase ---------------------------------
(***************************************************************************)
(* Names without case: the lookup of one name in one directory, with the   *)
(* compressed up-case table of the volume (find_child, names_match,        *)
(* upcase_unit, upcase_name_hash of src/fs/operations.rs).                 *)
(*                                                                         *)
(* The scan of the directory and the walks through the table share one     *)
(* sector of scratch memory.  The steps of a lookup are those that replace *)
(* what is in it, and those that parse it.                                 *)
(*                                                                         *)
(* Abstractions: a few code units stand for 0..0xffff, the greatest being  *)
(* the marker of a run; a slot is a whole entry set (Directories has the   *)
(* slots and the growth); the name hash is the sequence it is computed     *)
(* from.                                                                   *)
(***************************************************************************)
EXTENDS Naturals, Sequences, FiniteSets

CONSTANTS
    Marker,         \* 0xffff, the greatest unit
    AsciiLimit,     \* 0x7f
    AsciiUpper,     \* the fixed mapping of the ASCII units
    Tables,         \* the tables volumes carry, as sequences of words
    WordsPerSector,
    Names,          \* the names callers use, as sequences of units
    Directories,    \* what the directory holds at first
    SlotsPerSector, \* entry sets in a sector of the directory
    Validity,       \* what mount found: the table's checksum holds, or not
    Ops,            \* "lookup", "create", "remove"
    End,            \* a slot never used: a scan stops there
    Gone,           \* a slot out of use
    None

Units == 0..Marker
Ascii == 0..AsciiLimit
Slots == {End, Gone} \cup (Seq(Units) \ {<<>>})

ASSUME UpCaseAssumption ==
    /\ Marker \in Nat /\ AsciiLimit \in 0..(Marker - 1)
    /\ AsciiUpper \in [Ascii -> Ascii]
    /\ WordsPerSector \in Nat \ {0}
    /\ SlotsPerSector \in Nat \ {0}
    /\ Validity \subseteq BOOLEAN
    /\ Tables \subseteq Seq(Units)
    /\ Names \subseteq Seq(Units) \ {<<>>}
    /\ None \notin Nat
    /\ End # Gone /\ \A n \in Names : n \notin {End, Gone}

ASSUME DirectoriesAssumption ==
    \A d \in Directories :
        /\ d \in Seq(Slots) /\ Len(d) % SlotsPerSector = 0
        /\ \A i, j \in DOMAIN d : i < j /\ d[i] = End => d[j] = End

VARIABLES
    table,     \* device: the words of the up-case table
    valid,     \* Volume.upcase_valid
    directory, \* device: the name in each slot, Gone, or End
    scratch,   \* the sector in the caller's scratch memory
    op         \* the operation in progress: a future's locals

device == <<table, valid, directory>>
vars == <<table, valid, directory, scratch, op>>

Named == {i \in DOMAIN directory : directory[i] \notin {End, Gone}}
Least(S) == CHOOSE x \in S : \A y \in S : x <= y

DirectorySector(s) == <<"directory", s>>
TableSector(i) == <<"table", (i - 1) \div WordsPerSector + 1>>

Idle ==
    [pc |-> "idle", kind |-> "none", wanted |-> <<>>, slot |-> 0, k |-> 0, out |-> "none"]

-----------------------------------------------------------------------------
(* The mapping a table stands for, without a walk: which of its words begin *)
(* an item, how many units each item maps and from which on.               *)

IsCount ==
    LET count[p \in 0..Len(table)] == p > 1 /\ table[p - 1] = Marker /\ ~count[p - 1]
    IN  count
Items == {p \in 1..Len(table) : ~IsCount[p] /\ ~(p = Len(table) /\ table[p] = Marker)}
Width(p) == IF table[p] = Marker THEN table[p + 1] ELSE 1
FirstUnit(p) ==
    LET before[q \in 0..(p - 1)] ==
            IF q = 0 THEN 0 ELSE before[q - 1] + (IF q \in Items THEN Width(q) ELSE 0)
    IN  before[p - 1]

Mapping(u) ==
    IF u \in Ascii THEN {AsciiUpper[u]}
    ELSE IF ~valid THEN {}
    ELSE {IF table[p] = Marker THEN u ELSE table[p] :
            p \in {q \in Items : FirstUnit(q) <= u /\ u < FirstUnit(q) + Width(q)}}

(* The up-case form of a name, if each of its units has one.               *)
Foldable(n) == \A k \in DOMAIN n : Mapping(n[k]) # {}
Fold(n) == [k \in DOMAIN n |-> CHOOSE u \in Mapping(n[k]) : TRUE]
SameName(m, n) == Len(m) = Len(n) /\ Foldable(m) /\ Foldable(n) /\ Fold(m) = Fold(n)

(* No two names of a directory differ in case alone.                       *)
NamesDiffer ==
    \A i, j \in Named : i # j => ~SameName(directory[i], directory[j])

(* A volume as another implementation left it.                             *)
Init ==
    /\ table \in Tables
    /\ valid \in Validity
    /\ directory \in Directories /\ NamesDiffer
    /\ scratch = None
    /\ op = Idle

-----------------------------------------------------------------------------
(* upcase_unit: the walk through the table, from its first word, to the    *)
(* one that maps the unit.  A marker and the word behind it skip so many   *)
(* units, which map to themselves.                                         *)

(* Seeded fault: the unit behind a run still maps to itself. *)
InRunAndNext(u, from, count) == u >= from /\ u <= from + count

InRun(u, from, count) == u >= from /\ u < from + count

(* The errors Corrupt and UpcaseTableCorrupt, told apart from every unit.  *)
Corrupt == Marker + 1
UpcaseTableCorrupt == Marker + 2
Failed(outcome) == outcome \in {Corrupt, UpcaseTableCorrupt}

(* i is the next word, code the unit it stands for, out the outcome.       *)
AtWord(w, u) ==
    LET word == table[w.i]
    IN  IF w.out # None THEN w
        ELSE IF w.i > Len(table) \/ (word = Marker /\ w.i = Len(table))
        THEN [w EXCEPT !.out = Corrupt]
        ELSE IF word = Marker
        THEN IF InRun(u, w.code, table[w.i + 1])
             THEN [w EXCEPT !.i = @ + 1, !.out = u]
             ELSE [w EXCEPT !.i = @ + 2, !.code = @ + table[w.i + 1]]
        ELSE IF w.code = u THEN [w EXCEPT !.out = word]
        ELSE [w EXCEPT !.i = @ + 1, !.code = @ + 1]

WalkFor(u) ==
    LET walk[n \in 0..(Len(table) + 1)] ==
            IF n = 0 THEN [i |-> 1, code |-> 0, out |-> None] ELSE AtWord(walk[n - 1], u)
    IN  walk[Len(table) + 1]

(* What a unit maps to, or the error.                                      *)
UpcaseUnit(u) ==
    IF u \in Ascii THEN AsciiUpper[u]
    ELSE IF ~valid THEN UpcaseTableCorrupt
    ELSE WalkFor(u).out

(* The sector the walk leaves in the scratch memory.                       *)
ScratchAfter(u, before) ==
    IF u \in Ascii \/ ~valid \/ table = <<>> THEN before
    ELSE TableSector(IF WalkFor(u).i > Len(table) THEN Len(table) ELSE WalkFor(u).i)

-----------------------------------------------------------------------------
At(pc) == op.pc = pc
Return(out) == op' = [op EXCEPT !.pc = "done", !.out = out]
SectorOf(slot) == (slot - 1) \div SlotsPerSector + 1

Begin(kind, n) ==
    /\ At("idle") /\ kind \in Ops
    /\ op' = [Idle EXCEPT !.pc = "sector", !.kind = kind, !.wanted = n, !.slot = 1]
    /\ UNCHANGED <<device, scratch>>

ReadSector ==
    /\ At("sector") /\ op.slot <= Len(directory)
    /\ scratch' = DirectorySector(SectorOf(op.slot))
    /\ op' = [op EXCEPT !.pc = "slot"]
    /\ UNCHANGED device

(* The slot as the scratch memory has it; the words of a table are taken   *)
(* for a slot that was never used.                                         *)
Parsed == IF scratch = DirectorySector(SectorOf(op.slot)) THEN directory[op.slot] ELSE End

NextSlot ==
    [op EXCEPT !.pc = IF op.slot % SlotsPerSector = 0 THEN "sector" ELSE "slot", !.slot = @ + 1]

SkipSlot ==
    /\ At("slot") /\ Parsed = Gone
    /\ op' = NextSlot
    /\ UNCHANGED <<device, scratch>>

(* Seeded fault: a shorter name is compared, too. *)
AsLongOrShorter(n) == Len(n) <= Len(op.wanted)

AsLong(n) == Len(n) = Len(op.wanted)

PushEntry ==
    /\ At("slot") /\ Parsed \notin {Gone, End}
    /\ op' = [op EXCEPT !.pc = IF AsLong(Parsed) THEN "compare" ELSE "restore",
                        !.k = 1]
    /\ UNCHANGED <<device, scratch>>

Equal(l, r) == UpcaseUnit(l) = UpcaseUnit(r)

Compare ==
    LET l == directory[op.slot][op.k]
        r == op.wanted[op.k]
    IN  /\ At("compare")
        /\ scratch' = IF Failed(UpcaseUnit(l)) THEN ScratchAfter(l, scratch)
                      ELSE ScratchAfter(r, ScratchAfter(l, scratch))
        /\ IF Failed(UpcaseUnit(l)) \/ Failed(UpcaseUnit(r)) THEN Return("error")
           ELSE IF ~Equal(l, r) THEN op' = [op EXCEPT !.pc = "restore"]
           ELSE IF op.k = Len(op.wanted) THEN Return("found")
           ELSE op' = [op EXCEPT !.k = @ + 1]
        /\ UNCHANGED device

(* Seeded fault: the directory's sector is not read again. *)
RestoredNot == scratch

Restored == DirectorySector(SectorOf(op.slot))

Restore ==
    /\ At("restore")
    /\ scratch' = Restored
    /\ op' = NextSlot
    /\ UNCHANGED device

Absent ==
    /\ (At("sector") /\ op.slot > Len(directory)) \/ (At("slot") /\ Parsed = End)
    /\ IF op.kind = "create" THEN op' = [op EXCEPT !.pc = "hash"] ELSE Return("absent")
    /\ UNCHANGED <<device, scratch>>

-----------------------------------------------------------------------------
(* upcase_name_hash of the new name, then the new set.                     *)

Unfoldable(n) == {k \in DOMAIN n : Failed(UpcaseUnit(n[k]))}
Places == {i \in DOMAIN directory : directory[i] \in {End, Gone}}

Create ==
    /\ At("hash") /\ Unfoldable(op.wanted) = {}
    /\ \E i \in Places :
         /\ \A j \in Places : i <= j
         /\ directory' = [directory EXCEPT ![i] = op.wanted]
         /\ op' = [op EXCEPT !.pc = "done", !.out = "created", !.slot = i]
    /\ UNCHANGED <<table, valid, scratch>>

CreateFails ==
    /\ At("hash") /\ (Unfoldable(op.wanted) # {} \/ Places = {})
    /\ Return("error")
    /\ UNCHANGED <<device, scratch>>

Remove ==
    /\ At("idle") /\ "remove" \in Ops
    /\ \E i \in Named : directory' = [directory EXCEPT ![i] = Gone]
    /\ UNCHANGED <<table, valid, scratch, op>>

(* Between calls the scratch memory is the caller's.                       *)
Done ==
    /\ At("done")
    /\ op' = Idle
    /\ scratch' = None
    /\ UNCHANGED device

Next ==
    \/ \E n \in Names : Begin("lookup", n) \/ Begin("create", n)
    \/ ReadSector \/ SkipSlot \/ PushEntry \/ Compare \/ Restore \/ Absent
    \/ Create \/ CreateFails \/ Remove \/ Done

Spec == Init /\ [][Next]_vars

-----------------------------------------------------------------------------
OpType ==
    [pc : {"idle", "sector", "slot", "compare", "restore", "hash", "done"},
     kind : {"none", "lookup", "create"}, wanted : Seq(Units), slot : Nat, k : Nat,
     out : {"none", "found", "absent", "error", "created"}]

(* Each variable holds what the program keeps there; an operation stands   *)
(* on a slot of the directory, and a comparison on a unit that both names  *)
(* have.                                                                   *)
TypeOK ==
    /\ table \in Seq(Units) /\ valid \in BOOLEAN
    /\ directory \in Seq(Slots)
    /\ op \in OpType
    /\ op.pc \in {"slot", "compare", "restore"} => op.slot \in DOMAIN directory
    /\ At("compare") => op.k \in DOMAIN op.wanted \cap DOMAIN directory[op.slot]

(* upcase_unit maps a unit to what the compressed table says of it, and    *)
(* fails for the units the table does not reach.                           *)
AsTable ==
    \A u \in Units :
        LET outcome == UpcaseUnit(u)
        IN  IF Failed(outcome) THEN Mapping(u) = {} ELSE Mapping(u) = {outcome}
UpcaseAsTable == At("idle") => AsTable

(* A lookup finds the first set with the name, whatever the walks through  *)
(* the table left in the scratch memory; it finds none only if there is    *)
(* none; and it fails only over a unit that has no up-case form, in the    *)
(* name itself or in one of its length.                                    *)
LookupFinds ==
    At("done") =>
        LET same == {i \in Named : SameName(directory[i], op.wanted)}
        IN  /\ op.out \in {"found", "created"} => same # {} /\ op.slot = Least(same)
            /\ op.out = "created" => same = {op.slot}
            /\ op.out = "absent" => same = {}
            /\ op.out = "error" /\ Places # {} =>
                \/ ~Foldable(op.wanted)
                \/ \E i \in Named : /\ Len(directory[i]) = Len(op.wanted)
                                    /\ ~Foldable(directory[i])

(* "a removable volume with only that auxiliary metadata damaged can still *)
(* service ASCII paths".                                                   *)
AsciiServed ==
    At("done") /\ op.out = "error" /\ Places # {} =>
        \E k \in DOMAIN op.wanted : op.wanted[k] \notin Ascii
=============================================================================
