------------------------------- MODULE FileStore -------------------------------
(***************************************************************************)
(* What the file operations promise: a set of named byte sequences, on     *)
(* which a call acts in one step, on its own file alone, with the bytes it *)
(* was given, and after a failure not at all.                              *)
(***************************************************************************)
EXTENDS Naturals, Sequences

CONSTANTS Files, Absent

VARIABLES
    content, \* the bytes of each file, or Absent
    call     \* the call in progress: its kind, file, length and byte

vars == <<content, call>>

Init == DOMAIN content = Files

Present(f) == content[f] # Absent
SetContent(f, bytes) == content' = [content EXCEPT ![f] = bytes]

(* create and remove act as they are called.                               *)
Create(f) == call.kind = "none" /\ ~Present(f) /\ SetContent(f, <<>>)
Remove(f) == call.kind = "none" /\ Present(f) /\ SetContent(f, Absent)

(* truncate, and create of a file that exists, act as they begin.          *)
Truncate ==
    /\ call'.kind \in {"truncate", "create"} /\ Present(call'.file)
    /\ call'.n <= Len(content[call'.file])
    /\ SetContent(call'.file, SubSeq(content[call'.file], 1, call'.n))

(* append acts as it ends.                                                 *)
AppendBytes ==
    /\ call.kind = "append" /\ call'.kind = "none" /\ Present(call.file)
    /\ SetContent(call.file, content[call.file] \o [i \in 1..call.n |-> call.value])

(* A write overwrites a range that exists; it reaches the device a chunk   *)
(* at a time, and each chunk is an overwrite of its own.                   *)
Overwrite ==
    /\ call.kind = "write" /\ Present(call.file)
    /\ \E first, last \in 1..Len(content[call.file]) :
        SetContent(call.file, [i \in 1..Len(content[call.file]) |->
                                IF i \in first..last THEN call.value ELSE content[call.file][i]])

Next ==
    \/ UNCHANGED content
    \/ \E f \in Files : Create(f) \/ Remove(f)
    \/ Truncate \/ AppendBytes \/ Overwrite

Spec == Init /\ [][Next]_vars
=============================================================================
