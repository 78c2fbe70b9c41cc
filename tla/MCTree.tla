--------------------------------- MODULE MCTree ---------------------------------
(* Instances of Tree for TLC.                                              *)
EXTENDS Tree, TLC

CONSTANTS a, b, w, v \* two short names and two long ones

NameSymmetry == Permutations(Names \ Wide) \cup Permutations(Wide)
=============================================================================
