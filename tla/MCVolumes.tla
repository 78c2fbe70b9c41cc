-------------------------------- MODULE MCVolumes --------------------------------
(* Instances of Volumes for TLC: media as other implementations, this one, *)
(* and factories leave them.  Sectors of eight bytes; boot regions of      *)
(* three sectors; four FAT entries, eight bits and four slots a sector.    *)
EXTENDS Volumes, TLC

(* A device with sectors[i] at the i-th place, and zeros.                  *)
Placed(total_, pieces) ==
    [l \in 0..(total_ - 1) |->
        LET here == {p \in pieces : p.at <= l /\ l < p.at + Len(p.sectors)}
        IN  IF here = {} THEN Zero ELSE LET p == CHOOSE p \in here : TRUE IN p.sectors[l - p.at + 1]]

Mbr(entries) == [kind |-> "mbr", entries |-> entries]
Exfat(first, count) == [type |-> "exfat", first |-> first, count |-> count]
OtherPart == [type |-> "other", first |-> 1, count |-> 2]
Protective == [type |-> "protective", first |-> 1, count |-> 9]

BootOf(g) ==
    [kind |-> "boot", sectorBytes |-> SectorBytes, spc |-> g.spc, volumeLength |-> g.count,
     fatOffset |-> g.fatOffset, fatLength |-> g.fatLength, heap |-> g.heap, clusters |-> g.clusters,
     root |-> g.root, fats |-> g.fats, active |-> g.active]
RegionOf(g) ==
    LET region == <<BootOf(g), [kind |-> "oem"]>>
    IN  Append(region, [kind |-> "checksum", of |-> <<[region[1] EXCEPT !.active = 0], region[2]>>])
Fat(values) ==
    [k \in 1..CeilDiv(Len(values), 4) |->
        [kind |-> "fat",
         next |-> [i \in 1..4 |-> IF (k - 1) * 4 + i <= Len(values) THEN values[(k - 1) * 4 + i] ELSE 0]]]
Root(slots) == [kind |-> "root", slots |-> slots]
File(f) == [type |-> "file", name |-> f]
Gone == [type |-> "gone"]
Bits(id) == [type |-> "bitmap", id |-> id, first |-> 3, length |-> 8]
Table(first, parts) ==
    [type |-> "upcase", first |-> first, length |-> 8 * Len(parts), sum |-> parts]
Label == [type |-> "label", text |-> "label"]
Words(k) == [kind |-> "words", part |-> k]
Found(g, b, u, ok, label) ==
    [outcome |-> "ok", geometry |-> g, bitmap |-> b, upcase |-> u, upcaseValid |-> ok, label |-> label]
Lba(g, c) == g.first + g.heap + (c - 2) * g.spc
X == EndOfChain

Blank(n) == [total |-> n, disk |-> Placed(n, {}), expected |-> Failure("InvalidPartitionTable"), files |-> {}]

(* Where format puts its partition: a root of two clusters, the table in   *)
(* two that are apart, two FATs of which the second is in use.             *)
TwoFats ==
    [first |-> 1, count |-> 23, spc |-> 1, fatOffset |-> 6, fatLength |-> 3, fats |-> 2, active |-> 1,
     heap |-> 13, clusters |-> 8, root |-> 4]
OnTwoFats(upcaseParts, ok) ==
    [total |-> 24,
     disk |-> Placed(24, {
        [at |-> 0, sectors |-> <<Mbr(<<Exfat(1, 23)>>)>>],
        [at |-> 1, sectors |-> RegionOf(TwoFats) \o RegionOf(TwoFats)],
        [at |-> 7, sectors |-> Fat(<<X, X, 0, X, X, X, 0, 0, 0, 0>>)],
        [at |-> 10, sectors |-> Fat(<<X, X, 0, X, 6, 8, X, 0, X, 0>>)],
        [at |-> Lba(TwoFats, 4), sectors |-> <<Root(<<Bits(0), Gone, File("old"), File("b")>>)>>],
        [at |-> Lba(TwoFats, 6), sectors |-> <<Root(<<Bits(1), Table(5, <<Words(1), Words(2)>>), Label, EndSlot>>)>>],
        [at |-> Lba(TwoFats, 5), sectors |-> <<upcaseParts[1]>>],
        [at |-> Lba(TwoFats, 8), sectors |-> <<upcaseParts[2]>>]}),
     expected |-> Found(TwoFats, Bits(1), Table(5, <<Words(1), Words(2)>>), ok, "label"),
     files |-> {"old", "b"}]

(* A GPT volume behind another partition.                                  *)
Behind ==
    [first |-> 5, count |-> 15, spc |-> 2, fatOffset |-> 6, fatLength |-> 2, fats |-> 1, active |-> 0,
     heap |-> 9, clusters |-> 3, root |-> 4]
GptEntries ==
    <<[kind |-> "none"], [kind |-> "efi"], [kind |-> "basic", first |-> 5, last |-> 19]>>
OnGpt ==
    [total |-> 21,
     disk |-> Placed(21, {
        [at |-> 0, sectors |-> <<Mbr(<<Protective>>)>>],
        [at |-> 1, sectors |-> <<[kind |-> "gptHeader", at |-> 2, count |-> 3, sum |-> GptEntries]>>],
        [at |-> 2, sectors |-> <<[kind |-> "gptEntries", entries |-> <<GptEntries[1], GptEntries[2]>>],
                                 [kind |-> "gptEntries", entries |-> <<GptEntries[3], [kind |-> "none"]>>]>>],
        [at |-> 5, sectors |-> RegionOf(Behind) \o RegionOf(Behind)],
        [at |-> 11, sectors |-> Fat(<<X, X, X, X, X, 0>>)],
        [at |-> Lba(Behind, 3), sectors |-> <<Words(1), Words(2)>>],
        [at |-> Lba(Behind, 4), sectors |-> <<Root(<<Bits(0), Table(3, <<Words(1), Words(2)>>), File("old"), Gone>>),
                                              Root(<<EndSlot, EndSlot, EndSlot, EndSlot>>)>>]}),
     expected |-> Found(Behind, Bits(0), Table(3, <<Words(1), Words(2)>>), TRUE, NoLabel),
     files |-> {"old"}]

(* A device of the second tier, formatted by this crate and filled.        *)
LargeGeometry == FormatGeometry(30)
Parts == [k \in 1..2 |-> [kind |-> "upcase", part |-> k]]
OwnBits == [type |-> "bitmap", id |-> 0, first |-> 3, length |-> BitmapBytes(LargeGeometry)]
OwnTable == [type |-> "upcase", first |-> UpcaseCluster(LargeGeometry), length |-> 16, sum |-> Parts]
Refilled ==
    [total |-> 30,
     disk |-> Placed(30, {
        [at |-> 0, sectors |-> <<Mbr(<<Exfat(1, 29)>>)>>],
        [at |-> 1, sectors |-> RegionOf(LargeGeometry) \o RegionOf(LargeGeometry)],
        [at |-> 7, sectors |-> Fat(<<X, X, X, X, X, 0>>)],
        [at |-> Lba(LargeGeometry, UpcaseCluster(LargeGeometry)), sectors |-> Parts],
        [at |-> Lba(LargeGeometry, 2), sectors |-> <<Root(<<OwnBits, OwnTable, File("b"), File("c")>>),
                                                     Root(<<File("old"), EndSlot, EndSlot, EndSlot>>)>>]}),
     expected |-> Found(LargeGeometry, OwnBits, OwnTable, TRUE, NoLabel),
     files |-> {"old", "b", "c"}]

(* Media that are no volume: a root that loops without an end marker, two  *)
(* bitmaps for one FAT, a partition that is larger than the device.        *)
Looping == [OnTwoFats(<<Words(1), Words(2)>>, TRUE) EXCEPT
    !.disk = [@ EXCEPT ![11] = [@ EXCEPT !.next = <<6, 8, 4, 0>>],
                       ![Lba(TwoFats, 6)] = [@ EXCEPT !.slots = [@ EXCEPT ![4] = Gone]]],
    !.expected = Failure("RootDirectoryCorrupt")]
Doubled == [OnTwoFats(<<Words(1), Words(2)>>, TRUE) EXCEPT
    !.disk = [@ EXCEPT ![Lba(TwoFats, 4)] = [@ EXCEPT !.slots = [@ EXCEPT ![2] = Bits(1)]]],
    !.expected = Failure("RootDirectoryCorrupt")]
TooLarge == [OnTwoFats(<<Words(1), Words(2)>>, TRUE) EXCEPT
    !.disk = [@ EXCEPT ![0] = Mbr(<<OtherPart, Exfat(1, 24)>>)],
    !.expected = Failure("InvalidPartitionTable")]

AllMedia ==
    {Blank(n) : n \in {14, 15, 20, 21, 22, 25, 29, 44, 48}}
    \cup {OnTwoFats(<<Words(1), Words(2)>>, TRUE), OnTwoFats(<<Words(1), Words(3)>>, FALSE),
          OnGpt, Refilled, Looping, Doubled, TooLarge}
=============================================================================
