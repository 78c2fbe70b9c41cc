-------------------------------- MODULE MCUpCase --------------------------------
(* Instances of UpCase for TLC.  Units 0 and 1 are A and a, 2 and 3 a      *)
(* letter and its capital outside ASCII, 4 the marker of a run.            *)
EXTENDS UpCase, TLC

UpperA == [u \in 0..1 |-> 0]
NoCase == [u \in 0..1 |-> u]

(* Every table of up to two words; the whole mapping uncompressed, as      *)
(* format writes it too; and tables with runs before, between and behind,  *)
(* cut off behind a marker, and a run that spans a sector's end.           *)
AllTables ==
    UNION {[1..n -> 0..4] : n \in 0..2}
    \cup {<<0, 0, 3, 3>>, <<0, 0, 2, 3, 4>>, <<4, 2, 3, 3>>, <<4, 1, 0, 4, 1, 3>>, <<0, 0, 3, 4, 1>>,
          <<4, 3, 2>>, <<0, 4, 4>>, <<4, 4, 3>>, <<0, 4, 2, 3>>, <<0, 4, 2, 4>>, <<4, 0, 4, 3, 2, 1>>}

AllNames == {<<1>>, <<2>>, <<3>>, <<0, 3>>, <<1, 2>>}
Nothing == <<End, End, End, End>>
WithCase == <<<<1>>, <<3>>, Gone, End>>
Mixed == <<<<1, 3>>, Gone, <<2>>, <<0>>>>
Contents == {Nothing, WithCase, Mixed}
=============================================================================
