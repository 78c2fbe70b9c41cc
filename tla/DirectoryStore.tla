---------------------------- MODULE DirectoryStore ----------------------------
(***************************************************************************)
(* What a directory promises its callers: a map from names to the streams  *)
(* of their files (create, remove, rename and the updates of append and    *)
(* truncate, src/fs/operations.rs), on which a call acts in one step, on   *)
(* its own names alone, and never outside the call.                        *)
(***************************************************************************)
CONSTANTS Names, Streams, Empty, Renames, Absent

VARIABLES
    entries, \* the stream of each name, or Absent
    call     \* the call in progress: its kind, its name and its stream

vars == <<entries, call>>

Init == entries \in [Names -> Streams \cup {Absent}]

Present(e) == {n \in Names : e[n] # Absent}
Set(e, n, s) == [e EXCEPT ![n] = s]

(* What a call makes of the map e.  create of a name that exists truncates *)
(* it; rename keeps the stream.                                            *)
Updated(e, c) == {Set(e, n, c.stream) : n \in Present(e) \cap {c.name}}

Renamed(e, c) ==
    {Set(Set(e, p[1], Absent), p[2], e[p[1]]) :
        p \in {q \in Renames : q[2] = c.name /\ q[1] \in Present(e) /\ q[2] \notin Present(e)}}

Effects(e, c) ==
    CASE c.kind = "create" -> {Set(e, c.name, Empty)}
      [] c.kind = "remove" -> {Set(e, c.name, Absent)}
      [] c.kind = "update" -> Updated(e, c)
      [] c.kind = "rename" -> Renamed(e, c)
      [] OTHER -> {}

Next ==
    \E before \in {entries}, after \in {entries'} :
        after = before \/ after \in Effects(before, call)

Spec == Init /\ [][Next]_vars
=============================================================================
