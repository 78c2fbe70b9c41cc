---------------------------- MODULE MCCachedStreams ----------------------------
(* Instances of CachedStreams for TLC. *)
EXTENDS CachedStreams, TLC

CONSTANTS f1 \* one of Files

(* Each file is written with its own name, so a byte tells its owner.      *)
OwnName == [f \in Files |-> {f}]

NothingThere == [f \in {} |-> NoStream]

FileSymmetry == Permutations(Files)
=============================================================================
