----------------------------- MODULE MCFileStreams -----------------------------
(* Instances of FileStreams for TLC. *)
EXTENDS FileStreams, TLC

CONSTANTS f1 \* one of Files

(* Each file is written with its own name, so a byte tells its owner.      *)
OwnName == [f \in Files |-> {f}]

(* Any file may be written with any value.                                 *)
AnyValue == [f \in Files |-> Values]

NothingThere == [f \in {} |-> NoStream]

(* A contiguous file of another implementation: its data_length is its     *)
(* length in bytes.                                                        *)
ByteLength == [f \in Files |-> [first |-> 3, data |-> 3, valid |-> 3, nofat |-> TRUE]]

FileSymmetry == Permutations(Files)
=============================================================================
