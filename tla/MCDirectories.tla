----------------------------- MODULE MCDirectories -----------------------------
(* Instances of Directories for TLC.                                       *)
EXTENDS Directories, TLC

CONSTANTS a, b, c, e, w \* names of one entry (a, b, e), of two (c), wider than a cluster (w)

(* Two units to a name entry: e fills its one entry exactly.               *)
UnitsOf == [n \in Names |-> CASE n \in {a, b} -> 1 [] n = c -> 3 [] n = e -> 2 [] n = w -> 7]

Nothing == [data |-> 0, valid |-> 0]
Full == [data |-> 2, valid |-> 2]
Part == [data |-> 2, valid |-> 1]
OneStream == {Nothing}
WholeStreams == {Nothing, Full}
AllStreams == {Nothing, Part}

RootSlots == <<SystemSlot, SystemSlot, EndSlot, EndSlot>>
OneSystemSlot == <<SystemSlot, EndSlot, EndSlot, EndSlot>>
SubSlots == <<EndSlot, EndSlot, EndSlot, EndSlot>>
(* A directory that another implementation left in two consecutive         *)
(* clusters, with b in the second.                                         *)
TwoClusters ==
    SealedSet(a, Full) \o <<GoneSlot>> \o SealedSet(b, Full) \o <<EndSlot>>

NoRenames == {}
SameOrLonger == {<<a, b>>, <<b, a>>, <<a, c>>}
AnyWidth == {<<a, e>>, <<e, w>>, <<w, a>>}
Longer == {<<a, c>>}
Exact == {<<c, e>>}
Filled == {<<a, e>>}
=============================================================================
