------------------------------ MODULE UpCase_proofs ------------------------------
(***************************************************************************)
(* For every up-case table, directory and name: a lookup stays inside the  *)
(* directory and the names, the walk through the table maps as the table   *)
(* says, and the lookup finds what is there, although the walk replaces    *)
(* the directory's sector in the scratch memory.                           *)
(***************************************************************************)
EXTENDS UpCase, Integers, Induction, TLAPS

-----------------------------------------------------------------------------
(* Constants, slots and sectors.                                           *)

(* The constants as the proofs use them.                                   *)
LEMMA Parameters ==
    /\ SlotsPerSector \in Nat \ {0}
    /\ Names \subseteq Seq(Units)
    /\ \A n \in Names : Len(n) # 0
BY UpCaseAssumption

(* A slot behind which the sector goes on has the next one in its sector.  *)
LEMMA SameSector ==
    ASSUME NEW slot \in Nat, slot # 0, slot % SlotsPerSector # 0
    PROVE  SectorOf(slot + 1) = SectorOf(slot)
<1>. DEFINE s == SlotsPerSector
            q == slot \div s
            r == slot % s
<1>1. s \in Nat \ {0}
  BY Parameters
<1>2. q \in Nat /\ r \in 1..(s - 1) /\ slot = s * q + r
  BY <1>1
<1>3. (slot + 1) - 1 = slot /\ slot - 1 = s * q + (r - 1) /\ r - 1 \in 0..(s - 1)
  BY <1>1, <1>2
<1>4. (slot - 1) \div s = q
  BY <1>1, <1>2, <1>3
<1>. QED
  BY <1>3, <1>4 DEF SectorOf

(* The last slot of a directory is the last of its sector.                 *)
LEMMA SlotFollows ==
    ASSUME NEW n \in Nat, n % SlotsPerSector = 0,
           NEW slot \in 1..n, slot % SlotsPerSector # 0
    PROVE  slot + 1 \in 1..n
OBVIOUS

-----------------------------------------------------------------------------
(* Types.                                                                  *)

(* What the steps of an operation rely on: sectors are whole, the slot to  *)
(* be parsed is in the scratch memory, and the names that are compared are *)
(* as long as each other.                                                  *)
Compared == directory[op.slot]
Steps ==
    /\ Len(directory) % SlotsPerSector = 0
    /\ ~At("idle") => Len(op.wanted) # 0 /\ op.slot # 0
    /\ At("slot") => scratch = DirectorySector(SectorOf(op.slot))
    /\ At("compare") =>
         /\ Compared \notin {End, Gone}
         /\ Len(Compared) = Len(op.wanted)
TypeInv == TypeOK /\ Steps

(* A slot holds a name, or is a marker.                                    *)
LEMMA NameInSlot ==
    ASSUME TypeOK, NEW i \in DOMAIN directory, directory[i] \notin {End, Gone}
    PROVE  directory[i] \in Seq(Units) /\ Len(directory[i]) # 0
BY DEF TypeOK, Slots

(* The slot that a scan is on is the one that it parses.                   *)
LEMMA ParsedIsThere ==
    ASSUME TypeInv, At("slot")
    PROVE  Parsed = directory[op.slot]
BY DEF TypeInv, Steps, Parsed

(* The next slot of a scan, in the same sector or in the next one.         *)
LEMMA NextSlotType ==
    ASSUME TypeInv, op.pc \in {"slot", "restore"}
    PROVE  /\ NextSlot \in OpType
           /\ NextSlot.pc \in {"sector", "slot"}
           /\ NextSlot.slot = op.slot + 1 /\ NextSlot.wanted = op.wanted
           /\ NextSlot.pc = "slot" =>
                /\ NextSlot.slot \in DOMAIN directory
                /\ SectorOf(NextSlot.slot) = SectorOf(op.slot)
<1>1. /\ op \in OpType /\ op.slot \in DOMAIN directory /\ DOMAIN directory = 1..Len(directory)
      /\ Len(directory) \in Nat /\ Len(directory) % SlotsPerSector = 0
  BY DEF TypeInv, TypeOK, Steps
<1>2. op.slot \in Nat /\ op.slot # 0 /\ op.slot + 1 \in Nat
  BY <1>1
<1>3. /\ NextSlot.pc = IF op.slot % SlotsPerSector = 0 THEN "sector" ELSE "slot"
      /\ NextSlot.slot = op.slot + 1 /\ NextSlot.wanted = op.wanted /\ NextSlot \in OpType
  BY <1>1, <1>2 DEF NextSlot, OpType
<1>4. ASSUME NextSlot.pc = "slot" PROVE op.slot % SlotsPerSector # 0
  BY <1>3, <1>4
<1>. QED
  BY <1>1, <1>2, <1>3, <1>4, SameSector, SlotFollows

(* The first states.                                                       *)
LEMMA InitType == Init => TypeInv
<1>. SUFFICES ASSUME Init PROVE TypeInv
  OBVIOUS
<1>1. Idle \in OpType /\ Idle.pc = "idle"
  BY DEF Idle, OpType
<1>2. table \in Seq(Units) /\ valid \in BOOLEAN
  BY UpCaseAssumption DEF Init
<1>3. directory \in Seq(Slots) /\ Len(directory) % SlotsPerSector = 0
  BY DirectoriesAssumption DEF Init
<1>. QED
  BY <1>1, <1>2, <1>3 DEF Init, TypeInv, TypeOK, Steps, At

(* A call begins at the first slot.                                        *)
LEMMA BeginType ==
    ASSUME TypeInv, NEW kind \in {"lookup", "create"}, NEW n \in Names, Begin(kind, n)
    PROVE  TypeInv'
<1>1. n \in Seq(Units) /\ Len(n) # 0
  BY Parameters
<1>2. /\ op' \in OpType /\ op'.pc = "sector" /\ op'.wanted = n /\ op'.slot = 1
  BY <1>1 DEF Begin, Idle, OpType
<1>. QED
  BY <1>1, <1>2 DEF Begin, device, TypeInv, TypeOK, Steps, At

(* find_child reads a sector.                                              *)
LEMMA ReadSectorType == ASSUME TypeInv, ReadSector PROVE TypeInv'
<1>1. /\ op' \in OpType /\ op'.pc = "slot" /\ op'.wanted = op.wanted /\ op'.slot = op.slot
  BY DEF ReadSector, TypeInv, TypeOK, OpType
<1>2. op.slot \in DOMAIN directory
  BY DEF ReadSector, TypeInv, TypeOK, Steps, At, OpType
<1>. QED
  BY <1>1, <1>2 DEF ReadSector, device, TypeInv, TypeOK, Steps, At

(* It goes on to the next slot, with the directory's sector in the scratch *)
(* memory.                                                                 *)
LEMMA NextSlotStep ==
    ASSUME TypeInv, op.pc \in {"slot", "restore"}, op' = NextSlot, UNCHANGED device,
           scratch' = DirectorySector(SectorOf(op.slot))
    PROVE  TypeInv'
<1>1. /\ op' \in OpType /\ op'.pc \in {"sector", "slot"} /\ op'.wanted = op.wanted
      /\ op'.slot = op.slot + 1
      /\ op'.pc = "slot" => op'.slot \in DOMAIN directory /\ SectorOf(op'.slot) = SectorOf(op.slot)
  BY NextSlotType
<1>2. op'.slot # 0
  BY <1>1 DEF TypeInv, TypeOK, OpType
<1>3. SectorOf(op.slot)' = SectorOf(op'.slot)
  BY DEF SectorOf
<1>. QED
  BY <1>1, <1>2, <1>3 DEF device, TypeInv, TypeOK, Steps, At, DirectorySector

(* A slot out of use.                                                      *)
LEMMA SkipSlotType == ASSUME TypeInv, SkipSlot PROVE TypeInv'
<1>1. scratch' = DirectorySector(SectorOf(op.slot)) /\ op.pc \in {"slot", "restore"}
  BY DEF SkipSlot, TypeInv, Steps, At
<1>. QED
  BY <1>1, NextSlotStep DEF SkipSlot

(* Back from the up-case table.                                            *)
LEMMA RestoreType == ASSUME TypeInv, Restore PROVE TypeInv'
  BY NextSlotStep DEF Restore, Restored, At

(* A set is compared if its name is as long.                               *)
LEMMA PushEntryType == ASSUME TypeInv, PushEntry PROVE TypeInv'
<1>1. /\ Parsed = Compared /\ op.slot \in DOMAIN directory
      /\ Compared \in Seq(Units) /\ Len(Compared) # 0 /\ Compared \notin {End, Gone}
  BY ParsedIsThere, NameInSlot DEF PushEntry, TypeInv, TypeOK, At, Compared
<1>2. /\ op' \in OpType /\ op'.wanted = op.wanted /\ op'.slot = op.slot /\ op'.k = 1
      /\ op'.pc = IF AsLong(Compared) THEN "compare" ELSE "restore"
  BY <1>1 DEF PushEntry, TypeInv, TypeOK, OpType
<1>3. op.wanted \in Seq(Units) /\ Len(op.wanted) # 0
  BY DEF PushEntry, TypeInv, TypeOK, Steps, At, OpType
<1>. QED
  BY <1>1, <1>2, <1>3 DEF PushEntry, device, TypeInv, TypeOK, Steps, At, AsLong, Compared

(* The answer of a call.                                                   *)
LEMMA ReturnType ==
    ASSUME TypeInv, ~At("idle"), UNCHANGED device,
           NEW out \in {"found", "absent", "error", "created"}, Return(out)
    PROVE  TypeInv'
<1>1. /\ op' \in OpType /\ op'.pc = "done" /\ op'.wanted = op.wanted /\ op'.slot = op.slot
  BY DEF Return, TypeInv, TypeOK, OpType
<1>. QED
  BY <1>1 DEF device, TypeInv, TypeOK, Steps, At

(* The comparison goes on to the next unit, or the scan to the next slot.  *)
LEMMA CompareType == ASSUME TypeInv, Compare PROVE TypeInv'
<1>1. /\ op \in OpType /\ op.slot \in DOMAIN directory
      /\ Compared \in Seq(Units) /\ Compared \notin {End, Gone} /\ Len(Compared) = Len(op.wanted)
      /\ op.k \in 1..Len(op.wanted) /\ op.wanted \in Seq(Units)
  BY NameInSlot DEF Compare, TypeInv, TypeOK, Steps, At, Compared, OpType
<1>2. CASE op' = [op EXCEPT !.pc = "restore"]
  <2>1. op' \in OpType /\ op'.pc = "restore" /\ op'.wanted = op.wanted /\ op'.slot = op.slot
    BY <1>1, <1>2 DEF OpType
  <2>. QED
    BY <1>1, <2>1 DEF Compare, device, TypeInv, TypeOK, Steps, At
<1>3. CASE op' = [op EXCEPT !.k = @ + 1] /\ op.k # Len(op.wanted)
  <2>1. /\ op' \in OpType /\ op'.pc = "compare" /\ op'.wanted = op.wanted /\ op'.slot = op.slot
        /\ op'.k = op.k + 1
    BY <1>1, <1>3 DEF OpType, Compare, At
  <2>2. op'.k \in 1..Len(op.wanted)
    BY <1>1, <1>3, <2>1
  <2>. QED
    BY <1>1, <2>1, <2>2 DEF Compare, device, TypeInv, TypeOK, Steps, At, Compared
<1>. QED
  BY <1>2, <1>3, ReturnType DEF Compare, At

(* The end of a directory.                                                 *)
LEMMA AbsentType == ASSUME TypeInv, Absent PROVE TypeInv'
<1>1. CASE op' = [op EXCEPT !.pc = "hash"]
  <2>1. op' \in OpType /\ op'.pc = "hash" /\ op'.wanted = op.wanted /\ op'.slot = op.slot
    BY <1>1 DEF TypeInv, TypeOK, OpType
  <2>. QED
    BY <2>1 DEF Absent, device, TypeInv, TypeOK, Steps, At
<1>. QED
  BY <1>1, ReturnType DEF Absent, At

(* create writes a set.                                                    *)
LEMMA CreateType == ASSUME TypeInv, Create PROVE TypeInv'
<1>1. PICK i \in Places :
        /\ directory' = [directory EXCEPT ![i] = op.wanted]
        /\ op' = [op EXCEPT !.pc = "done", !.out = "created", !.slot = i]
  BY DEF Create
<1>2. op \in OpType /\ op.wanted \in Slots /\ Len(op.wanted) # 0
  BY DEF Create, TypeInv, TypeOK, Steps, At, OpType, Slots
<1>3. i \in DOMAIN directory /\ i \in Nat /\ i # 0
  BY DEF Places, TypeInv, TypeOK
<1>4. directory' \in Seq(Slots) /\ Len(directory') = Len(directory)
  BY <1>1, <1>2, <1>3 DEF TypeInv, TypeOK
<1>5. op' \in OpType /\ op'.pc = "done" /\ op'.wanted = op.wanted /\ op'.slot = i
  BY <1>1, <1>2, <1>3 DEF OpType
<1>. QED
  BY <1>2, <1>3, <1>4, <1>5 DEF Create, TypeInv, TypeOK, Steps, At

(* Another call removes a set.                                             *)
LEMMA RemoveType == ASSUME TypeInv, Remove PROVE TypeInv'
<1>1. PICK i \in Named : directory' = [directory EXCEPT ![i] = Gone]
  BY DEF Remove
<1>2. directory' \in Seq(Slots) /\ Len(directory') = Len(directory)
  BY <1>1 DEF Named, TypeInv, TypeOK, Slots
<1>. QED
  BY <1>2 DEF Remove, TypeInv, TypeOK, Steps, At

(* Each step keeps the types.                                              *)
LEMMA NextType == TypeInv /\ [Next]_vars => TypeInv'
<1>. SUFFICES ASSUME TypeInv, [Next]_vars PROVE TypeInv'
  OBVIOUS
<1>1. CASE CreateFails
  BY <1>1, ReturnType DEF CreateFails, At
<1>2. CASE Done
  <2>1. Idle \in OpType /\ Idle.pc = "idle"
    BY DEF Idle, OpType
  <2>. QED
    BY <1>2, <2>1 DEF Done, device, TypeInv, TypeOK, Steps, At
<1>3. CASE UNCHANGED vars
  BY <1>3 DEF vars, device, TypeInv, TypeOK, Steps, At, Compared
<1>. QED
  BY <1>1, <1>2, <1>3, BeginType, ReadSectorType, SkipSlotType, RestoreType, PushEntryType,
     CompareType, AbsentType, CreateType, RemoveType DEF Next

(* Whatever the table, the directory and the names: every scan stays on    *)
(* the directory's slots and every comparison in both names (find_child,   *)
(* names_match).                                                           *)
THEOREM TypeCorrect == Spec => []TypeOK
<1>1. TypeInv => TypeOK
  BY DEF TypeInv
<1>. QED
  BY InitType, NextType, <1>1, PTL DEF Spec

-----------------------------------------------------------------------------
(* The table, word by word.                                                *)

(* Which words are the counts of runs, word by word.                       *)
LEMMA CountEquation ==
    ASSUME table \in Seq(Units)
    PROVE  IsCount = [p \in 0..Len(table) |-> p > 1 /\ table[p - 1] = Marker /\ ~IsCount[p - 1]]
<1>. DEFINE n == Len(table)
            S == {0, 1}
            step == [p \in 1..n |-> [s \in S |->
                        IF p > 1 /\ table[p - 1] = Marker /\ s = 0 THEN 1 ELSE 0]]
<1>1. n \in Nat /\ 0 \in S /\ step \in [1..n -> [S -> S]]
  OBVIOUS
<1>. HIDE DEF step, n, S
<1>2. PICK f : Iterates(f, n, S, 0, step)
  BY <1>1, Iteration
<1>3. \A p \in 1..n : p - 1 \in 0..n /\ f[p - 1] \in S
  BY <1>1, <1>2 DEF Iterates
<1>4. \A p \in 1..n : f[p] = IF p > 1 /\ table[p - 1] = Marker /\ f[p - 1] = 0 THEN 1 ELSE 0
  BY <1>2, <1>3 DEF step, Iterates
<1>. DEFINE g == [p \in 0..n |-> f[p] = 1]
<1>5. \A p \in 0..n : g[p] <=> f[p] = 1
  OBVIOUS
<1>6. ASSUME NEW p \in 0..n PROVE g[p] = (p > 1 /\ table[p - 1] = Marker /\ ~g[p - 1])
  <2>1. (g[p] <=> f[p] = 1) /\ g[p] \in BOOLEAN
    OBVIOUS
  <2>2. CASE p = 0
    <3>1. ~(p > 1) /\ f[p] # 1
      BY <1>2, <2>2 DEF Iterates
    <3>. QED
      BY <2>1, <3>1, Zenon
  <2>3. CASE p \in 1..n
    <3>1. p - 1 \in 0..n /\ f[p - 1] \in {0, 1}
      BY <1>3, <2>3 DEF S
    <3>2. (g[p - 1] <=> f[p - 1] = 1)
      BY <3>1
    <3>. HIDE DEF g
    <3>3. f[p] = 1 <=> p > 1 /\ table[p - 1] = Marker /\ f[p - 1] # 1
      BY <1>4, <2>3, <3>1
    <3>. QED
      BY <2>1, <3>2, <3>3, Zenon
  <2>. QED
    BY <1>1, <2>2, <2>3
<1>. HIDE DEF g
<1>7. g = [p \in 0..n |-> p > 1 /\ table[p - 1] = Marker /\ ~g[p - 1]]
  <2>1. g = [p \in 0..n |-> g[p]]
    BY DEF g
  <2>. QED
    BY <1>6, <2>1
<1>. QED
  BY <1>7 DEF IsCount, n

(* A table word by word: what its items are, and how many units each maps. *)
LEMMA TableItems ==
    ASSUME table \in Seq(Units)
    PROVE  /\ Len(table) \in Nat /\ \A p \in 1..Len(table) : table[p] \in Nat
           /\ ~IsCount[1] \/ Len(table) = 0
           /\ \A p \in 1..Len(table) : p > 1 => (IsCount[p] <=> table[p - 1] = Marker /\ ~IsCount[p - 1])
           /\ Items \subseteq 1..Len(table)
           /\ \A p \in Items : Width(p) \in Nat
<1>1. Len(table) \in Nat /\ \A p \in 1..Len(table) : table[p] \in Nat
  BY UpCaseAssumption DEF Units
<1>2. \A p \in 0..Len(table) : IsCount[p] <=> p > 1 /\ table[p - 1] = Marker /\ ~IsCount[p - 1]
  BY CountEquation
<1>3. \A p \in Items : Width(p) \in Nat
  <2>1. \A p \in Items : p \in 1..Len(table) /\ (table[p] = Marker => p + 1 \in 1..Len(table))
    BY <1>1 DEF Items
  <2>. QED
    BY <1>1, <2>1 DEF Width
<1>. QED
  BY <1>1, <1>2, <1>3 DEF Items

(* The units that the first q words map, for every q.                      *)
Sums(B) ==
    /\ B \in [0..Len(table) -> Nat] /\ B[0] = 0
    /\ \A q \in 1..Len(table) : B[q] = B[q - 1] + (IF q \in Items THEN Width(q) ELSE 0)

(* There is a sequence of partial sums.                                    *)
LEMMA SumsExist ==
    ASSUME table \in Seq(Units)
    PROVE  \E B : Sums(B)
<1>. DEFINE n == Len(table)
            step == [q \in 1..n |-> [s \in Nat |-> s + (IF q \in Items THEN Width(q) ELSE 0)]]
<1>1. n \in Nat /\ step \in [1..n -> [Nat -> Nat]]
  <2>1. n \in Nat /\ \A q \in Items : Width(q) \in Nat
    BY TableItems
  <2>2. \A q \in 1..n : \A s \in Nat : s + (IF q \in Items THEN Width(q) ELSE 0) \in Nat
    BY <2>1
  <2>. QED
    BY <2>1, <2>2
<1>. HIDE DEF step
<1>2. PICK B : Iterates(B, n, Nat, 0, step)
  BY <1>1, Iteration
<1>3. \A q \in 1..n : q - 1 \in 0..n /\ B[q - 1] \in Nat
  <2>1. B \in [0..n -> Nat]
    BY <1>2 DEF Iterates
  <2>2. \A q \in 1..n : q - 1 \in 0..n
    BY <1>1
  <2>. HIDE DEF n
  <2>. QED
    BY <2>1, <2>2
<1>4. \A q \in 1..n : B[q] = B[q - 1] + (IF q \in Items THEN Width(q) ELSE 0)
  BY <1>2, <1>3 DEF Iterates, step
<1>. QED
  BY <1>2, <1>4 DEF Iterates, Sums

(* They are numbers, of an item and of the word before it.                 *)
LEMMA SumsType ==
    ASSUME table \in Seq(Units), NEW B, Sums(B)
    PROVE  /\ Len(table) \in Nat /\ \A q \in Items : Width(q) \in Nat
           /\ \A q \in 0..Len(table) : B[q] \in Nat
           /\ \A q \in Items : q \in 1..Len(table) /\ q \in 0..Len(table) /\ q - 1 \in 0..Len(table)
<1>1. Len(table) \in Nat /\ \A q \in Items : Width(q) \in Nat /\ q \in 1..Len(table)
  BY TableItems
<1>2. \A q \in Items : q \in 0..Len(table) /\ q - 1 \in 0..Len(table)
  BY <1>1
<1>3. \A q \in 0..Len(table) : B[q] \in Nat
  BY DEF Sums
<1>. QED
  BY <1>1, <1>2, <1>3

(* FirstUnit adds up the same widths.                                      *)
LEMMA FirstUnitSums ==
    ASSUME table \in Seq(Units), NEW B, Sums(B), NEW p \in 1..Len(table)
    PROVE  FirstUnit(p) = B[p - 1]
<1>. DEFINE g == [q \in 0..(p - 1) |-> B[q]]
            F(h) == [q \in 0..(p - 1) |->
                        IF q = 0 THEN 0 ELSE h[q - 1] + (IF q \in Items THEN Width(q) ELSE 0)]
            f == CHOOSE h : h = F(h)
<1>1. Len(table) \in Nat /\ p \in Nat
  OBVIOUS
<1>2. g = F(g)
  BY <1>1 DEF Sums
<1>. HIDE DEF g
<1>3. f = F(f)
  BY <1>2
<1>. HIDE DEF f
<1>. DEFINE T == {q \in 0..(p - 1) : f[q] = B[q]}
<1>4. 0 \in T
  BY <1>1, <1>3 DEF Sums
<1>5. ASSUME NEW q \in 1..(p - 1), q - 1 \in T PROVE q \in T
  <2>1. f[q - 1] = B[q - 1] /\ q \in 1..Len(table) /\ q \in 0..(p - 1) /\ q # 0
    BY <1>1, <1>5
  <2>2. f[q] = f[q - 1] + (IF q \in Items THEN Width(q) ELSE 0)
    BY <1>3, <2>1
  <2>. QED
    BY <2>1, <2>2 DEF Sums
<1>. HIDE DEF T
<1>6. \A q \in 0..(p - 1) : q \in T
  BY <1>1, <1>4, <1>5, IntervalInduction
<1>7. f[p - 1] = B[p - 1]
  BY <1>1, <1>6 DEF T
<1>. QED
  BY <1>7 DEF FirstUnit, f

(* Later words map later units.                                            *)
LEMMA SumsGrow ==
    ASSUME table \in Seq(Units), NEW B, Sums(B),
           NEW p \in 0..Len(table), NEW q \in 0..Len(table), p <= q
    PROVE  B[p] <= B[q]
<1>. DEFINE T == {k \in 0..(q - p) : B[p] <= B[p + k]}
<1>1. Len(table) \in Nat /\ p \in Nat /\ q \in Nat /\ q - p \in Nat
  OBVIOUS
<1>2. 0 \in T
  BY <1>1 DEF Sums
<1>3. ASSUME NEW k \in 1..(q - p), k - 1 \in T PROVE k \in T
  <2>1. p + k \in 1..Len(table) /\ p + (k - 1) = (p + k) - 1 /\ (p + k) - 1 \in 0..Len(table)
    BY <1>1
  <2>2. B[p] <= B[(p + k) - 1]
    BY <1>3, <2>1
  <2>3. B[p + k] = B[(p + k) - 1] + (IF p + k \in Items THEN Width(p + k) ELSE 0)
    BY <2>1 DEF Sums
  <2>4. (p + k \in Items => Width(p + k) \in Nat) /\ B[p] \in Nat /\ B[(p + k) - 1] \in Nat
    BY <2>1, TableItems DEF Sums
  <2>. QED
    BY <2>2, <2>3, <2>4
<1>. HIDE DEF T
<1>4. \A k \in 0..(q - p) : k \in T
  BY <1>1, <1>2, <1>3, IntervalInduction
<1>5. q - p \in T /\ p + (q - p) = q
  BY <1>1, <1>4
<1>. QED
  BY <1>5 DEF T

(* The items that map a unit: one at most, the one whose units reach it.   *)
Reach(u) == {q \in Items : FirstUnit(q) <= u /\ u < FirstUnit(q) + Width(q)}

(* Behind the item that maps a unit begin greater ones.                    *)
LEMMA OneReaches ==
    ASSUME table \in Seq(Units), NEW B, Sums(B), NEW u \in Nat,
           NEW i \in Items, B[i - 1] <= u, u < B[i]
    PROVE  Reach(u) = {i}
<1>1. /\ Len(table) \in Nat /\ \A q \in Items : Width(q) \in Nat
      /\ \A q \in 0..Len(table) : B[q] \in Nat
      /\ \A q \in Items : q \in 1..Len(table) /\ q \in 0..Len(table) /\ q - 1 \in 0..Len(table)
  BY SumsType
<1>2. \A q \in Items : FirstUnit(q) = B[q - 1] /\ B[q] = B[q - 1] + Width(q)
  BY <1>1, FirstUnitSums DEF Sums
<1>3. ASSUME NEW q \in Items, q # i, B[q - 1] <= u, u < B[q] PROVE FALSE
  <2>1. CASE q < i
    <3>1. B[q] <= B[i - 1]
      BY <1>1, <2>1, SumsGrow
    <3>. QED
      BY <1>1, <1>3, <3>1
  <2>2. CASE i < q
    <3>1. B[i] <= B[q - 1]
      BY <1>1, <2>2, SumsGrow
    <3>. QED
      BY <1>1, <1>3, <3>1
  <2>. QED
    BY <1>1, <1>3, <2>1, <2>2
<1>. QED
  BY <1>1, <1>2, <1>3 DEF Reach

(* Words that map only smaller units, up to the last item.                 *)
LEMMA NoneReaches ==
    ASSUME table \in Seq(Units), NEW B, Sums(B), NEW u \in Nat,
           NEW i \in 0..Len(table), B[i] <= u, \A q \in Items : q <= i
    PROVE  Reach(u) = {}
<1>1. /\ Len(table) \in Nat /\ \A q \in Items : Width(q) \in Nat
      /\ \A q \in 0..Len(table) : B[q] \in Nat
      /\ \A q \in Items : q \in 1..Len(table) /\ q \in 0..Len(table) /\ q - 1 \in 0..Len(table)
  BY SumsType
<1>2. \A q \in Items : FirstUnit(q) = B[q - 1] /\ B[q] = B[q - 1] + Width(q)
  BY <1>1, FirstUnitSums DEF Sums
<1>3. ASSUME NEW q \in Items PROVE ~(u < FirstUnit(q) + Width(q))
  <2>1. B[q] <= B[i]
    BY <1>1, SumsGrow
  <2>. QED
    BY <1>1, <1>2, <2>1
<1>. QED
  BY <1>3 DEF Reach

-----------------------------------------------------------------------------
(* The walk, word by word.                                                 *)

Walks == [i : Nat \ {0}, code : Nat, out : Units \cup {None, Corrupt}]
AtFirst == [i |-> 1, code |-> 0, out |-> None]

(* A step of the walk.                                                     *)
LEMMA AtWordType ==
    ASSUME table \in Seq(Units), NEW u \in Units, NEW w \in Walks
    PROVE  AtWord(w, u) \in Walks
<1>1. /\ Len(table) \in Nat /\ \A p \in 1..Len(table) : table[p] \in Units /\ table[p] \in Nat
  BY UpCaseAssumption DEF Units
<1>2. /\ w.i \in Nat \ {0} /\ w.code \in Nat
  BY DEF Walks
<1>3. CASE w.out # None
  BY <1>3 DEF AtWord
<1>4. CASE w.out = None /\ w.i > Len(table)
  BY <1>4 DEF AtWord, Walks
<1>5. CASE w.out = None /\ w.i <= Len(table)
  <2>1. w.i \in 1..Len(table)
    BY <1>1, <1>2, <1>5
  <2>2. /\ w.i # Len(table) => table[w.i + 1] \in Nat
        /\ table[w.i] \in Units /\ w.i + 1 \in Nat \ {0} /\ w.i + 2 \in Nat \ {0}
        /\ w.code + 1 \in Nat /\ (w.i # Len(table) => w.code + table[w.i + 1] \in Nat)
        /\ w.out \in Units \cup {None, Corrupt}
    BY <1>1, <1>2, <2>1 DEF Walks
  <2>. DEFINE word == table[w.i]
              out(o) == [w EXCEPT !.out = o]
  <2>3. out(Corrupt) \in Walks /\ out(word) \in Walks
    BY <2>2 DEF Walks
  <2>4. [w EXCEPT !.i = @ + 1, !.out = u] \in Walks
    BY <1>2, <2>2 DEF Walks
  <2>5. \A j \in Nat \ {0} : \A c \in Nat : [w EXCEPT !.i = j, !.code = c] \in Walks
    BY DEF Walks
  <2>6. [w EXCEPT !.i = @ + 1, !.code = @ + 1] \in Walks
    BY <2>2, <2>5
  <2>7. w.i # Len(table) => [w EXCEPT !.i = @ + 2, !.code = @ + table[w.i + 1]] \in Walks
    BY <2>2, <2>5
  <2>. QED
    BY <1>5, <2>3, <2>4, <2>6, <2>7 DEF AtWord
<1>. QED
  BY <1>1, <1>2, <1>3, <1>4, <1>5

(* WalkFor takes as many steps as the table has words, and one.            *)
LEMMA WalkSteps ==
    ASSUME table \in Seq(Units), NEW u \in Units
    PROVE  \E walk \in [0..(Len(table) + 1) -> Walks] :
             /\ walk[0] = AtFirst
             /\ \A n \in 1..(Len(table) + 1) : walk[n] = AtWord(walk[n - 1], u)
             /\ WalkFor(u) = walk[Len(table) + 1]
<1>. DEFINE last == Len(table) + 1
            step == [n \in 1..last |-> [w \in Walks |-> AtWord(w, u)]]
            F(h) == [n \in 0..last |-> IF n = 0 THEN AtFirst ELSE AtWord(h[n - 1], u)]
            walk == CHOOSE h : h = F(h)
<1>1. last \in Nat /\ AtFirst \in Walks
  BY UpCaseAssumption DEF AtFirst, Walks, Units
<1>2. \A w \in Walks : AtWord(w, u) \in Walks
  BY AtWordType
<1>3. step \in [1..last -> [Walks -> Walks]]
  BY <1>2
<1>. HIDE DEF step, last
<1>4. PICK f : Iterates(f, last, Walks, AtFirst, step)
  BY <1>1, <1>3, Iteration
<1>5. \A n \in 1..last : n - 1 \in 0..last /\ f[n - 1] \in Walks
  BY <1>1, <1>4 DEF Iterates
<1>6. \A n \in 1..last : f[n] = AtWord(f[n - 1], u)
  BY <1>4, <1>5 DEF step, Iterates
<1>7. f = F(f)
  <2>1. \A n \in 0..last : n = 0 \/ n \in 1..last
    BY <1>1
  <2>2. f = [n \in 0..last |-> f[n]]
    BY <1>4 DEF Iterates
  <2>3. \A n \in 0..last : f[n] = IF n = 0 THEN AtFirst ELSE AtWord(f[n - 1], u)
    BY <1>1, <1>4, <1>6, <2>1 DEF Iterates
  <2>. QED
    BY <2>2, <2>3
<1>8. walk = F(walk)
  BY <1>7
<1>. HIDE DEF walk
<1>9. walk[0] = AtFirst /\ \A n \in 1..last : walk[n] = AtWord(walk[n - 1], u)
  BY <1>1, <1>8
<1>. DEFINE T == {n \in 0..last : walk[n] \in Walks}
<1>10. 0 \in T /\ \A n \in 1..last : n - 1 \in T => n \in T
  BY <1>1, <1>2, <1>9
<1>. HIDE DEF T
<1>11. \A n \in 0..last : n \in T
  BY <1>1, <1>10, IntervalInduction
<1>12. walk \in [0..last -> Walks]
  BY <1>8, <1>11 DEF T
<1>13. WalkFor(u) = walk[last]
  BY DEF WalkFor, walk, last, AtFirst
<1>. QED
  BY <1>9, <1>12, <1>13 DEF last

(* Before it settles, the walk stands on an item, or behind the last word, *)
(* and all the units of the words it has passed are smaller; it settles on *)
(* what the table says.                                                    *)
Settled(u, out) ==
    IF out = Corrupt THEN Reach(u) = {}
    ELSE \E p \in Items : /\ Reach(u) = {p}
                          /\ out = IF table[p] = Marker THEN u ELSE table[p]
WalkInv(u, B, n, w) ==
    /\ w \in Walks
    /\ w.out = None =>
         /\ w.i \in 1..(Len(table) + 1) /\ n < w.i
         /\ w.i <= Len(table) => ~IsCount[w.i]
         /\ w.code = B[w.i - 1] /\ w.code <= u
    /\ w.out # None => Settled(u, w.out)

(* A step keeps that.                                                      *)
LEMMA AtWordWalks ==
    ASSUME table \in Seq(Units), NEW B, Sums(B), NEW u \in Units, NEW n \in Nat, NEW w,
           WalkInv(u, B, n, w)
    PROVE  WalkInv(u, B, n + 1, AtWord(w, u))
<1>. DEFINE v == AtWord(w, u)
            last == Len(table)
            i == w.i
<1>1. /\ last \in Nat /\ \A p \in 1..last : table[p] \in Nat
      /\ \A p \in 1..last : p > 1 => (IsCount[p] <=> table[p - 1] = Marker /\ ~IsCount[p - 1])
      /\ Items \subseteq 1..last
      /\ B \in [0..last -> Nat]
      /\ \A q \in 1..last : B[q] = B[q - 1] + (IF q \in Items THEN Width(q) ELSE 0)
  BY TableItems DEF Sums
<1>2. v \in Walks /\ u \in Nat /\ None \notin Units /\ None # Corrupt /\ Corrupt \notin Units
  BY AtWordType, UpCaseAssumption DEF WalkInv, Units, Corrupt
<1>3. CASE w.out # None
  BY <1>3 DEF WalkInv, AtWord
<1>4. CASE w.out = None /\ (i > last \/ (table[i] = Marker /\ i = last))
  <2>1. v.out = Corrupt
    BY <1>4 DEF AtWord, WalkInv, Walks
  <2>2. /\ i \in 1..(last + 1) /\ i - 1 \in 0..last /\ B[i - 1] <= u
    BY <1>1, <1>4 DEF WalkInv
  <2>3. \A q \in Items : q <= i - 1
    BY <1>1, <1>4, <2>2 DEF Items
  <2>4. Reach(u) = {}
    BY <1>2, <2>2, <2>3, NoneReaches
  <2>. QED
    BY <1>2, <2>1, <2>4 DEF WalkInv, Settled
<1>5. CASE w.out = None /\ i <= last /\ ~(table[i] = Marker /\ i = last)
  <2>1. /\ i \in 1..last /\ n < i /\ ~IsCount[i] /\ w.code = B[i - 1] /\ B[i - 1] <= u
        /\ B[i - 1] \in Nat
    BY <1>1, <1>5 DEF WalkInv
  <2>2. i \in Items /\ B[i] = B[i - 1] + Width(i)
    BY <1>1, <1>5, <2>1 DEF Items
  <2>3. CASE table[i] = Marker
    <3>1. i + 1 \in 1..last /\ Width(i) = table[i + 1] /\ table[i + 1] \in Nat
      <4>1. i + 1 \in 1..last
        BY <1>1, <1>5, <2>1, <2>3
      <4>. QED
        BY <1>1, <2>3, <4>1 DEF Width
    <3>2. CASE InRun(u, w.code, table[i + 1])
      <4>1. v.out = u
        BY <1>2, <1>5, <2>3, <3>2 DEF AtWord, WalkInv, Walks
      <4>2. Reach(u) = {i}
        BY <1>2, <2>1, <2>2, <3>1, <3>2, OneReaches DEF InRun
      <4>. QED
        BY <1>2, <2>2, <2>3, <4>1, <4>2 DEF WalkInv, Settled
    <3>3. CASE ~InRun(u, w.code, table[i + 1])
      <4>1. v.out = None /\ v.i = i + 2 /\ v.code = w.code + table[i + 1]
        BY <1>5, <2>3, <3>3 DEF AtWord, WalkInv, Walks
      <4>2. IsCount[i + 1] /\ i + 1 \notin Items
        BY <1>1, <2>1, <2>3, <3>1 DEF Items
      <4>3. B[i + 1] = B[i] /\ B[i] = v.code
        BY <1>1, <2>1, <2>2, <3>1, <4>1, <4>2
      <4>4. v.code <= u
        BY <1>2, <2>1, <3>1, <3>3, <4>1 DEF InRun
      <4>5. i + 2 <= last => ~IsCount[i + 2]
        BY <1>1, <2>1, <4>2
      <4>6. i + 2 \in 1..(last + 1) /\ n + 1 < i + 2 /\ (i + 2) - 1 = i + 1
        BY <1>1, <2>1, <3>1
      <4>. QED
        BY <1>2, <4>1, <4>3, <4>4, <4>5, <4>6 DEF WalkInv
    <3>. QED
      BY <3>2, <3>3
  <2>4. CASE table[i] # Marker
    <3>1. Width(i) = 1 /\ B[i] = B[i - 1] + 1
      BY <2>2, <2>4 DEF Width
    <3>2. CASE w.code = u
      <4>1. v.out = table[i]
        BY <1>5, <2>1, <2>4, <3>2 DEF AtWord, WalkInv, Walks
      <4>2. Reach(u) = {i}
        <5>1. B[i - 1] <= u /\ u < B[i]
          BY <1>2, <2>1, <3>1, <3>2
        <5>. QED
          BY <1>2, <2>2, <5>1, OneReaches
      <4>3. table[i] \in Units
        BY <2>1
      <4>. QED
        BY <1>2, <2>2, <2>4, <4>1, <4>2, <4>3 DEF WalkInv, Settled
    <3>3. CASE w.code # u
      <4>1. v.out = None /\ v.i = i + 1 /\ v.code = w.code + 1
        BY <1>5, <2>1, <2>4, <3>3 DEF AtWord, WalkInv, Walks
      <4>2. v.code <= u /\ v.code = B[i]
        BY <1>2, <2>1, <3>1, <3>3, <4>1
      <4>3. i + 1 <= last => ~IsCount[i + 1]
        BY <1>1, <2>1, <2>4
      <4>4. i + 1 \in 1..(last + 1) /\ n + 1 < i + 1 /\ (i + 1) - 1 = i
        BY <1>1, <2>1
      <4>. QED
        BY <1>2, <4>1, <4>2, <4>3, <4>4 DEF WalkInv
    <3>. QED
      BY <3>2, <3>3
  <2>. QED
    BY <2>3, <2>4
<1>. QED
  BY <1>1, <1>3, <1>4, <1>5 DEF WalkInv, Walks

(* upcase_unit: whatever the table, the walk settles, and on what the      *)
(* table says.                                                             *)
LEMMA WalkSettles ==
    ASSUME table \in Seq(Units), NEW u \in Units
    PROVE  WalkFor(u).out # None /\ Settled(u, WalkFor(u).out)
<1>. DEFINE last == Len(table) + 1
<1>1. Len(table) \in Nat /\ last \in Nat /\ u \in Nat
  BY UpCaseAssumption DEF Units
<1>2. PICK B : Sums(B)
  BY SumsExist
<1>3. PICK walk \in [0..last -> Walks] :
        /\ walk[0] = AtFirst
        /\ \A n \in 1..last : walk[n] = AtWord(walk[n - 1], u)
        /\ WalkFor(u) = walk[last]
  BY WalkSteps
<1>. DEFINE T == {n \in 0..last : WalkInv(u, B, n, walk[n])}
<1>4. 0 \in T
  <2>1. AtFirst \in Walks /\ AtFirst.out = None /\ AtFirst.i = 1 /\ AtFirst.code = 0
    BY UpCaseAssumption DEF AtFirst, Walks, Units
  <2>2. B[1 - 1] = 0 /\ (1 <= Len(table) => ~IsCount[1])
    BY <1>1, <1>2, TableItems DEF Sums
  <2>. QED
    BY <1>1, <1>3, <2>1, <2>2 DEF WalkInv
<1>5. ASSUME NEW n \in 1..last, n - 1 \in T PROVE n \in T
  <2>1. n - 1 \in Nat /\ (n - 1) + 1 = n /\ WalkInv(u, B, n - 1, walk[n - 1])
    BY <1>1, <1>5
  <2>2. WalkInv(u, B, (n - 1) + 1, AtWord(walk[n - 1], u))
    BY <1>2, <2>1, AtWordWalks
  <2>. QED
    BY <1>1, <1>3, <2>1, <2>2
<1>. HIDE DEF T
<1>6. \A n \in 0..last : n \in T
  BY <1>1, <1>4, <1>5, IntervalInduction
<1>7. WalkInv(u, B, last, WalkFor(u))
  BY <1>1, <1>3, <1>6 DEF T
<1>. QED
  BY <1>1, <1>7 DEF WalkInv, Walks

(* So it maps every unit as the table says, whatever the table.            *)
LEMMA WalkAsTable == TypeOK => AsTable
<1>. SUFFICES ASSUME TypeOK, NEW u \in Units
              PROVE  IF Failed(UpcaseUnit(u)) THEN Mapping(u) = {} ELSE Mapping(u) = {UpcaseUnit(u)}
  BY DEF AsTable
<1>1. Corrupt \notin Units /\ UpcaseTableCorrupt \notin Units /\ \A a \in Ascii : a \in Units
  BY UpCaseAssumption DEF Corrupt, UpcaseTableCorrupt, Units, Ascii
<1>2. CASE u \in Ascii
  <2>1. AsciiUpper[u] \in Units
    BY <1>1, <1>2, UpCaseAssumption
  <2>. QED
    BY <1>1, <1>2, <2>1 DEF UpcaseUnit, Mapping, Failed
<1>3. CASE u \notin Ascii /\ ~valid
  BY <1>3 DEF UpcaseUnit, Mapping, Failed
<1>4. CASE u \notin Ascii /\ valid
  <2>1. table \in Seq(Units) /\ Settled(u, WalkFor(u).out) /\ UpcaseUnit(u) = WalkFor(u).out
    BY <1>4, WalkSettles DEF TypeOK, UpcaseUnit
  <2>2. Mapping(u) = {IF table[p] = Marker THEN u ELSE table[p] : p \in Reach(u)}
    BY <1>4 DEF Mapping, Reach
  <2>3. CASE WalkFor(u).out = Corrupt
    BY <2>1, <2>2, <2>3 DEF Settled, Failed
  <2>4. CASE WalkFor(u).out # Corrupt
    <3>1. PICK p \in Items : /\ Reach(u) = {p}
                             /\ WalkFor(u).out = IF table[p] = Marker THEN u ELSE table[p]
      BY <2>1, <2>4 DEF Settled
    <3>2. p \in 1..Len(table) /\ table[p] \in Units
      BY <2>1, TableItems
    <3>. QED
      BY <1>1, <2>1, <2>2, <3>1, <3>2 DEF Failed
  <2>. QED
    BY <2>3, <2>4
<1>. QED
  BY <1>2, <1>3, <1>4

(* Whatever the table, with runs of any length, cut off or invalid:        *)
(* upcase_unit maps each unit to what the table says of it, and fails for  *)
(* those the table does not reach.                                         *)
THEOREM MapsAsTable == Spec => []UpcaseAsTable
<1>1. TypeInv => UpcaseAsTable
  BY WalkAsTable DEF TypeInv, UpcaseAsTable
<1>. QED
  BY InitType, NextType, <1>1, PTL DEF Spec

-----------------------------------------------------------------------------
(* The walk depends on the table and its checksum alone, which no step     *)
(* changes, and is taken as a function here.                               *)

Walk == [u \in Units |-> UpcaseUnit(u)]

(* No step changes what the walk returns.                                  *)
LEMMA TableKept == table' = table /\ valid' = valid => Walk' = Walk
BY DEF Walk, UpcaseUnit, WalkFor, AtWord, InRun

(* Two names that the walk W takes for one, unit by unit.                  *)
Folds(W, n) == \A k \in DOMAIN n : ~Failed(W[n[k]])
SameUnit(W, l, r) == ~Failed(W[l]) /\ ~Failed(W[r]) /\ W[l] = W[r]
SameBy(W, m, n) == Len(m) = Len(n) /\ \A k \in DOMAIN m : SameUnit(W, m[k], n[k])

(* A walk that maps as the table says folds the names that have an up-case *)
(* form.                                                                   *)
LEMMA FoldsAsTable ==
    ASSUME AsTable, NEW n \in Seq(Units)
    PROVE  /\ Foldable(n) <=> Folds(Walk, n)
           /\ Foldable(n) => Fold(n) = [k \in DOMAIN n |-> Walk[n[k]]]
<1>1. \A k \in DOMAIN n : n[k] \in Units
  OBVIOUS
<1>2. \A k \in DOMAIN n : /\ Walk[n[k]] = UpcaseUnit(n[k])
                          /\ Mapping(n[k]) = IF Failed(Walk[n[k]]) THEN {} ELSE {Walk[n[k]]}
  BY <1>1 DEF AsTable, Walk
<1>3. Foldable(n) <=> Folds(Walk, n)
  BY <1>2 DEF Foldable, Folds
<1>4. ASSUME Foldable(n), NEW k \in DOMAIN n
      PROVE  (CHOOSE u \in Mapping(n[k]) : TRUE) = Walk[n[k]]
  <2>1. Mapping(n[k]) = {Walk[n[k]]}
    BY <1>2, <1>4 DEF Foldable
  <2>. QED
    BY <2>1
<1>. QED
  BY <1>3, <1>4 DEF Fold

(* So it takes those names for one that differ in case alone.              *)
LEMMA SameAsTable ==
    ASSUME AsTable, NEW m \in Seq(Units), NEW n \in Seq(Units)
    PROVE  SameName(m, n) <=> SameBy(Walk, m, n)
<1>1. ASSUME Len(m) = Len(n) PROVE DOMAIN m = DOMAIN n
  BY <1>1
<1>2. ASSUME SameName(m, n) PROVE SameBy(Walk, m, n)
  <2>1. /\ Len(m) = Len(n) /\ Folds(Walk, m) /\ Folds(Walk, n)
        /\ [k \in DOMAIN m |-> Walk[m[k]]] = [k \in DOMAIN n |-> Walk[n[k]]]
    BY <1>2, FoldsAsTable DEF SameName
  <2>2. \A k \in DOMAIN m : Walk[m[k]] = Walk[n[k]]
    BY <2>1
  <2>. QED
    BY <2>1, <2>2, <1>1 DEF SameBy, SameUnit, Folds
<1>3. ASSUME SameBy(Walk, m, n) PROVE SameName(m, n)
  <2>1. Len(m) = Len(n) /\ DOMAIN m = DOMAIN n /\ Folds(Walk, m) /\ Folds(Walk, n)
    BY <1>1, <1>3 DEF SameBy, SameUnit, Folds
  <2>2. [k \in DOMAIN m |-> Walk[m[k]]] = [k \in DOMAIN n |-> Walk[n[k]]]
    BY <1>3, <2>1 DEF SameBy, SameUnit
  <2>. QED
    BY <2>1, <2>2, FoldsAsTable DEF SameName
<1>. QED
  BY <1>2, <1>3

-----------------------------------------------------------------------------
(* What a lookup knows of the directory.                                   *)

(* The sets before the one a scan is on have other names; the units before *)
(* the one that is compared agree; and an answer tells what is there.      *)
Same(i) == SameBy(Walk, directory[i], op.wanted)
Answer ==
    /\ op.out \in {"found", "created"} => op.slot \in Named /\ Same(op.slot)
    /\ op.out = "found" => \A i \in Named : i < op.slot => ~Same(i)
    /\ op.out = "created" => \A i \in Named : Same(i) => i = op.slot
    /\ op.out = "absent" => \A i \in Named : ~Same(i)
    /\ op.out = "error" /\ Places # {} =>
         \/ ~Folds(Walk, op.wanted)
         \/ \E i \in Named : /\ Len(directory[i]) = Len(op.wanted)
                             /\ ~Folds(Walk, directory[i])
EndsLast == \A i, j \in DOMAIN directory : i < j /\ directory[i] = End => directory[j] = End
ScanInv ==
    /\ EndsLast
    /\ ~At("idle") => op.wanted \notin {End, Gone}
    /\ op.pc \in {"sector", "slot", "compare", "restore"} =>
         \A i \in Named : i < op.slot => ~Same(i)
    /\ At("compare") => \A j \in 1..(op.k - 1) : SameUnit(Walk, Compared[j], op.wanted[j])
    /\ At("restore") => ~SameBy(Walk, Compared, op.wanted)
    /\ At("hash") => \A i \in Named : ~Same(i)
    /\ At("done") => Answer

(* The first states.                                                       *)
LEMMA InitScan == Init => ScanInv
BY DirectoriesAssumption DEF Init, Idle, ScanInv, EndsLast, At

(* A step that leaves the device alone leaves what it says of it.          *)
LEMMA DeviceKept ==
    ASSUME UNCHANGED device
    PROVE  /\ Walk' = Walk /\ directory' = directory /\ Named' = Named
           /\ Places' = Places /\ (EndsLast => EndsLast')
BY TableKept DEF device, Named, Places, EndsLast

(* A call begins with no set looked at.                                    *)
LEMMA BeginScan ==
    ASSUME TypeInv, ScanInv, NEW kind \in {"lookup", "create"}, NEW n \in Names, Begin(kind, n)
    PROVE  ScanInv'
<1>1. /\ op'.pc = "sector" /\ op'.wanted = n /\ op'.slot = 1 /\ n \notin {End, Gone}
  BY UpCaseAssumption DEF Begin, Idle
<1>2. \A i \in Named : i \in Nat /\ ~(i < 1)
  BY DEF Named, TypeInv, TypeOK
<1>. QED
  BY <1>1, <1>2, DeviceKept DEF Begin, ScanInv, At

(* find_child reads a sector.                                              *)
LEMMA ReadSectorScan == ASSUME TypeInv, ScanInv, ReadSector PROVE ScanInv'
<1>1. /\ op'.pc = "slot" /\ op'.wanted = op.wanted /\ op'.slot = op.slot
  BY DEF ReadSector, TypeInv, TypeOK, OpType
<1>. QED
  BY <1>1, DeviceKept DEF ReadSector, ScanInv, At, Same

(* It goes on to the next slot, as the one it was on has another name.     *)
LEMMA NextSlotScan ==
    ASSUME TypeInv, ScanInv, op.pc \in {"slot", "restore"}, op' = NextSlot, UNCHANGED device,
           op.slot \in Named => ~Same(op.slot)
    PROVE  ScanInv'
<1>1. /\ op'.pc \in {"sector", "slot"} /\ op'.wanted = op.wanted /\ op'.slot = op.slot + 1
  BY NextSlotType
<1>2. \A i \in Named : i < op.slot + 1 => ~Same(i)
  <2>1. op.slot \in Nat /\ \A i \in Named : i \in Nat
    BY DEF TypeInv, TypeOK, OpType, Named
  <2>2. \A i \in Named : i < op.slot + 1 => i < op.slot \/ i = op.slot
    BY <2>1
  <2>. QED
    BY <2>2 DEF ScanInv
<1>. QED
  BY <1>1, <1>2, DeviceKept DEF ScanInv, At, Same

(* A slot out of use.                                                      *)
LEMMA SkipSlotScan == ASSUME TypeInv, ScanInv, SkipSlot PROVE ScanInv'
BY ParsedIsThere, NextSlotScan DEF SkipSlot, At, Named

(* Back from the up-case table.                                            *)
LEMMA RestoreScan == ASSUME TypeInv, ScanInv, Restore PROVE ScanInv'
BY NextSlotScan DEF Restore, At, ScanInv, Same, Compared

(* A set whose name has another length has another name.                   *)
LEMMA PushEntryScan == ASSUME TypeInv, ScanInv, PushEntry PROVE ScanInv'
<1>1. /\ op'.wanted = op.wanted /\ op'.slot = op.slot /\ op'.k = 1
      /\ op'.pc = IF AsLong(Compared) THEN "compare" ELSE "restore"
  BY ParsedIsThere DEF PushEntry, TypeInv, TypeOK, OpType, Compared
<1>2. ~AsLong(Compared) => ~SameBy(Walk, Compared, op.wanted)
  BY DEF AsLong, SameBy
<1>. QED
  BY <1>1, <1>2, DeviceKept DEF PushEntry, ScanInv, At, Same, Compared

(* names_match: what is compared is a set and the name, up to a unit both  *)
(* have, and the walk gives what each of its units maps to.                *)
LEMMA ComparedUnits ==
    ASSUME TypeInv, At("compare")
    PROVE  /\ op \in OpType /\ op.wanted \in Seq(Units) /\ op.slot \in Named
           /\ Compared = directory[op.slot] /\ Compared \in Seq(Units)
           /\ Len(Compared) = Len(op.wanted)
           /\ op.k \in DOMAIN op.wanted /\ op.k \in DOMAIN Compared
           /\ UpcaseUnit(Compared[op.k]) = Walk[Compared[op.k]]
           /\ UpcaseUnit(op.wanted[op.k]) = Walk[op.wanted[op.k]]
<1>1. /\ op \in OpType /\ op.wanted \in Seq(Units) /\ op.slot \in Named
      /\ Compared = directory[op.slot] /\ Compared \in Seq(Units)
      /\ Len(Compared) = Len(op.wanted)
      /\ op.k \in DOMAIN op.wanted /\ op.k \in DOMAIN Compared
  BY NameInSlot DEF TypeInv, TypeOK, Steps, At, Compared, OpType, Named
<1>2. Compared[op.k] \in Units /\ op.wanted[op.k] \in Units
  BY <1>1
<1>. QED
  BY <1>1, <1>2 DEF Walk

(* A comparison ends with what it found, or with a unit that has no        *)
(* up-case form.                                                           *)
LEMMA CompareScan == ASSUME TypeInv, ScanInv, Compare PROVE ScanInv'
<1>. DEFINE l == Compared[op.k]
            r == op.wanted[op.k]
<1>1. /\ op \in OpType /\ op.wanted \in Seq(Units) /\ op.slot \in Named
      /\ Compared = directory[op.slot] /\ Compared \in Seq(Units)
      /\ Len(Compared) = Len(op.wanted)
      /\ op.k \in DOMAIN op.wanted /\ op.k \in DOMAIN Compared
      /\ UpcaseUnit(l) = Walk[l] /\ UpcaseUnit(r) = Walk[r]
  BY ComparedUnits DEF Compare
<1>2. /\ UNCHANGED device
      /\ IF Failed(Walk[l]) \/ Failed(Walk[r]) THEN Return("error")
         ELSE IF Walk[l] # Walk[r] THEN op' = [op EXCEPT !.pc = "restore"]
         ELSE IF op.k = Len(op.wanted) THEN Return("found")
         ELSE op' = [op EXCEPT !.k = @ + 1]
  BY <1>1 DEF Compare, Equal
<1>3. /\ \A i \in Named : i < op.slot => ~Same(i)
      /\ \A j \in 1..(op.k - 1) : SameUnit(Walk, Compared[j], op.wanted[j])
      /\ op.wanted \notin {End, Gone} /\ EndsLast
  BY DEF Compare, ScanInv, At
<1>4. CASE Failed(Walk[l]) \/ Failed(Walk[r])
  <2>1. op'.pc = "done" /\ op'.out = "error" /\ op'.wanted = op.wanted /\ op'.slot = op.slot
    BY <1>1, <1>2, <1>4 DEF Return, OpType
  <2>2. \/ ~Folds(Walk, op.wanted)
        \/ \E i \in Named : /\ Len(directory[i]) = Len(op.wanted)
                            /\ ~Folds(Walk, directory[i])
    BY <1>1, <1>4 DEF Folds
  <2>. QED
    BY <1>2, <1>3, <2>1, <2>2, DeviceKept DEF ScanInv, At, Answer
<1>5. CASE ~Failed(Walk[l]) /\ ~Failed(Walk[r]) /\ Walk[l] # Walk[r]
  <2>1. op'.pc = "restore" /\ op'.wanted = op.wanted /\ op'.slot = op.slot
    BY <1>1, <1>2, <1>5 DEF OpType
  <2>2. ~SameBy(Walk, Compared, op.wanted)
    BY <1>1, <1>5 DEF SameBy, SameUnit
  <2>. QED
    BY <1>2, <1>3, <2>1, <2>2, DeviceKept DEF ScanInv, At, Same, Compared
<1>6. CASE SameUnit(Walk, l, r)
  <2>1. \A j \in 1..op.k : SameUnit(Walk, Compared[j], op.wanted[j])
    <3>1. \A j \in 1..op.k : j = op.k \/ j \in 1..(op.k - 1)
      BY <1>1
    <3>. QED
      BY <1>3, <1>6, <3>1
  <2>2. CASE op.k = Len(op.wanted)
    <3>1. op'.pc = "done" /\ op'.out = "found" /\ op'.wanted = op.wanted /\ op'.slot = op.slot
      BY <1>1, <1>2, <1>6, <2>2 DEF Return, OpType, SameUnit
    <3>2. Same(op.slot)
      BY <1>1, <2>1, <2>2 DEF Same, SameBy
    <3>. QED
      BY <1>1, <1>2, <1>3, <3>1, <3>2, DeviceKept DEF ScanInv, At, Answer, Same
  <2>3. CASE op.k # Len(op.wanted)
    <3>1. /\ op'.pc = "compare" /\ op'.wanted = op.wanted /\ op'.slot = op.slot
          /\ op'.k = op.k + 1
      BY <1>1, <1>2, <1>6, <2>3 DEF OpType, SameUnit, Compare, At
    <3>2. op'.k - 1 = op.k
      BY <1>1, <3>1
    <3>. QED
      BY <1>2, <1>3, <2>1, <3>1, <3>2, DeviceKept DEF ScanInv, At, Same, Compared
  <2>. QED
    BY <2>2, <2>3
<1>. QED
  BY <1>4, <1>5, <1>6 DEF SameUnit

(* The end of a directory: behind a slot never used there is none in use.  *)
LEMMA AbsentScan == ASSUME TypeInv, ScanInv, Absent PROVE ScanInv'
<1>1. op \in OpType /\ \A i \in Named : i \in DOMAIN directory /\ i \in 1..Len(directory)
  BY DEF TypeInv, TypeOK, Named
<1>2. \A i \in Named : i < op.slot
  <2>1. CASE At("sector") /\ op.slot > Len(directory)
    BY <1>1, <2>1 DEF OpType
  <2>2. CASE At("slot") /\ Parsed = End
    <3>1. op.slot \in DOMAIN directory /\ directory[op.slot] = End /\ op.slot \in Nat
      BY <2>2, ParsedIsThere DEF TypeInv, TypeOK, At
    <3>2. \A i \in Named : i # op.slot /\ ~(op.slot < i)
      BY <1>1, <3>1 DEF ScanInv, EndsLast, Named
    <3>. QED
      BY <1>1, <3>1, <3>2
  <2>. QED
    BY <2>1, <2>2 DEF Absent
<1>3. \A i \in Named : ~Same(i)
  BY <1>2 DEF Absent, At, ScanInv
<1>4. CASE op' = [op EXCEPT !.pc = "hash"]
  <2>1. op'.pc = "hash" /\ op'.wanted = op.wanted
    BY <1>1, <1>4 DEF OpType
  <2>. QED
    BY <1>3, <2>1, DeviceKept DEF Absent, ScanInv, At, Same
<1>5. CASE Return("absent")
  <2>1. op'.pc = "done" /\ op'.out = "absent" /\ op'.wanted = op.wanted
    BY <1>1, <1>5 DEF OpType, Return
  <2>. QED
    BY <1>3, <2>1, DeviceKept DEF Absent, ScanInv, At, Same, Answer
<1>. QED
  BY <1>4, <1>5 DEF Absent

(* create writes the only set with the name.                               *)
LEMMA CreateScan == ASSUME TypeInv, ScanInv, Create PROVE ScanInv'
<1>1. PICK i \in Places :
        /\ \A j \in Places : i <= j
        /\ directory' = [directory EXCEPT ![i] = op.wanted]
        /\ op' = [op EXCEPT !.pc = "done", !.out = "created", !.slot = i]
  BY DEF Create
<1>2. /\ op \in OpType /\ op.wanted \in Seq(Units) /\ op.wanted \notin {End, Gone}
      /\ \A j \in Named : ~Same(j)
  BY DEF Create, TypeInv, TypeOK, OpType, ScanInv, At
<1>3. /\ i \in DOMAIN directory /\ i \notin Named
      /\ DOMAIN directory' = DOMAIN directory /\ directory'[i] = op.wanted
      /\ \A j \in DOMAIN directory : j # i => directory'[j] = directory[j]
      /\ \A j \in DOMAIN directory : j \in Nat
  BY <1>1 DEF Places, Named, TypeInv, TypeOK
<1>4. /\ op'.pc = "done" /\ op'.out = "created" /\ op'.wanted = op.wanted /\ op'.slot = i
  BY <1>1, <1>2 DEF OpType
<1>5. Walk' = Walk /\ Named' = Named \cup {i}
  BY <1>2, <1>3, TableKept DEF Create, Named
<1>6. SameBy(Walk, op.wanted, op.wanted)
  <2>1. \A k \in DOMAIN op.wanted : ~Failed(Walk[op.wanted[k]])
    BY <1>2 DEF Create, Unfoldable, Walk
  <2>. QED
    BY <2>1 DEF SameBy, SameUnit
<1>7. EndsLast'
  <2>. SUFFICES ASSUME NEW a \in DOMAIN directory, NEW b \in DOMAIN directory,
                       a < b, directory'[a] = End
                PROVE  directory'[b] = End
    BY <1>3 DEF EndsLast
  <2>1. a # i /\ directory[a] = End /\ a \in Places
    BY <1>2, <1>3 DEF Places
  <2>2. b # i
    BY <1>1, <1>3, <2>1
  <2>. QED
    BY <1>3, <2>1, <2>2 DEF ScanInv, EndsLast
<1>8. Answer'
  <2>1. i \in Named' /\ SameBy(Walk, directory'[i], op.wanted)
    BY <1>3, <1>5, <1>6
  <2>2. \A j \in Named' : SameBy(Walk, directory'[j], op.wanted) => j = i
    BY <1>2, <1>3, <1>5 DEF Same, Named
  <2>. QED
    BY <1>4, <1>5, <2>1, <2>2 DEF Answer, Same
<1>. QED
  BY <1>2, <1>4, <1>7, <1>8 DEF ScanInv, At

(* A name that the walk cannot fold, or a directory without a place.       *)
LEMMA CreateFailsScan == ASSUME TypeInv, ScanInv, CreateFails PROVE ScanInv'
<1>1. op'.pc = "done" /\ op'.out = "error" /\ op'.wanted = op.wanted
  BY DEF CreateFails, Return, TypeInv, TypeOK, OpType
<1>2. Places # {} => ~Folds(Walk, op.wanted)
  <2>1. op.wanted \in Seq(Units)
    BY DEF TypeInv, TypeOK, OpType
  <2>2. \A k \in DOMAIN op.wanted : Walk[op.wanted[k]] = UpcaseUnit(op.wanted[k])
    BY <2>1 DEF Walk
  <2>. QED
    BY <2>2 DEF CreateFails, Unfoldable, Folds
<1>. QED
  BY <1>1, <1>2, DeviceKept DEF CreateFails, ScanInv, At, Answer

(* Another call removes a set, between two lookups.                        *)
LEMMA RemoveScan == ASSUME TypeInv, ScanInv, Remove PROVE ScanInv'
<1>1. PICK i \in Named : directory' = [directory EXCEPT ![i] = Gone]
  BY DEF Remove
<1>2. EndsLast'
  BY <1>1, UpCaseAssumption DEF Named, ScanInv, EndsLast, TypeInv, TypeOK
<1>. QED
  BY <1>2 DEF Remove, ScanInv, At

(* Each step keeps what is known.                                          *)
LEMMA NextScan == TypeInv /\ ScanInv /\ [Next]_vars => ScanInv'
<1>. SUFFICES ASSUME TypeInv, ScanInv, [Next]_vars PROVE ScanInv'
  OBVIOUS
<1>1. CASE Done
  BY <1>1, DeviceKept DEF Done, Idle, ScanInv, At
<1>2. CASE UNCHANGED vars
  BY <1>2, DeviceKept DEF vars, device, ScanInv, At, Same, Answer, Compared
<1>. QED
  BY <1>1, <1>2, BeginScan, ReadSectorScan, SkipSlotScan, RestoreScan, PushEntryScan,
     CompareScan, AbsentScan, CreateScan, CreateFailsScan, RemoveScan DEF Next

(* What a lookup knows is what it should find.                             *)
LEMMA ScanFinds ==
    ASSUME TypeInv, ScanInv, AsTable
    PROVE  LookupFinds
<1>. DEFINE same == {i \in Named : SameName(directory[i], op.wanted)}
<1>. SUFFICES ASSUME At("done")
              PROVE  /\ op.out \in {"found", "created"} => same # {} /\ op.slot = Least(same)
                     /\ op.out = "created" => same = {op.slot}
                     /\ op.out = "absent" => same = {}
                     /\ op.out = "error" /\ Places # {} =>
                          \/ ~Foldable(op.wanted)
                          \/ \E i \in Named : /\ Len(directory[i]) = Len(op.wanted)
                                              /\ ~Foldable(directory[i])
  BY DEF LookupFinds
<1>1. /\ op.wanted \in Seq(Units) /\ Answer
      /\ \A i \in Named : i \in Nat /\ directory[i] \in Seq(Units)
  BY NameInSlot DEF TypeInv, TypeOK, OpType, Named, ScanInv
<1>2. same = {i \in Named : Same(i)}
  BY <1>1, SameAsTable DEF Same
<1>3. ASSUME op.out \in {"found", "created"} PROVE same # {} /\ op.slot = Least(same)
  <2>1. op.slot \in same /\ \A i \in same : ~(i < op.slot)
    BY <1>1, <1>2, <1>3 DEF Answer
  <2>2. \A i \in same : i \in Nat /\ op.slot <= i
    BY <1>1, <2>1
  <2>3. \A x \in same : (\A y \in same : x <= y) => x = op.slot
    BY <2>1, <2>2
  <2>. QED
    BY <2>1, <2>2, <2>3 DEF Least
<1>4. op.out = "created" => same = {op.slot}
  BY <1>1, <1>2 DEF Answer
<1>5. op.out = "absent" => same = {}
  BY <1>1, <1>2 DEF Answer
<1>6. ASSUME op.out = "error", Places # {}
      PROVE  \/ ~Foldable(op.wanted)
             \/ \E i \in Named : /\ Len(directory[i]) = Len(op.wanted)
                                 /\ ~Foldable(directory[i])
  BY <1>1, <1>6, FoldsAsTable DEF Answer
<1>. QED
  BY <1>3, <1>4, <1>5, <1>6

(* Whatever the table, the directory and the names: find_child and create  *)
(* find the first set with the name, and none only if there is none,       *)
(* although each comparison replaces the directory's sector in the scratch *)
(* memory.                                                                 *)
THEOREM LookupCorrect == Spec => []LookupFinds
<1>1. TypeInv /\ ScanInv => LookupFinds
  BY ScanFinds, WalkAsTable DEF TypeInv
<1>. QED
  BY InitType, NextType, InitScan, NextScan, <1>1, PTL DEF Spec
=============================================================================
