-------------------------------- MODULE PathTree --------------------------------
(***************************************************************************)
(* What the paths of a volume promise: a tree of files and directories on  *)
(* which create_dir_all, create, remove and rename (src/fs/operations.rs)  *)
(* act.  Each change makes or removes one leaf, or moves one subtree, and  *)
(* only while the call that asks for it is in progress.                    *)
(***************************************************************************)
EXTENDS Naturals, Sequences

VARIABLES
    tree, \* the kind, "dir" or "file", of each path that exists
    call  \* the call in progress: its kind, its path and its new name

vars == <<tree, call>>

Parent(p) == SubSeq(p, 1, Len(p) - 1)
Under(p, q) == Len(q) >= Len(p) /\ SubSeq(q, 1, Len(p)) = p
IsDirectory(t, p) == p = <<>> \/ (p \in DOMAIN t /\ t[p] = "dir")
IsLeaf(t, p) == \A q \in DOMAIN t : Under(p, q) => q = p

Made(t, p, kind) ==
    {[q \in DOMAIN t \cup {p} |-> IF q = p THEN kind ELSE t[q]] :
        x \in IF p \notin DOMAIN t /\ IsDirectory(t, Parent(p)) THEN {p} ELSE {}}

(* The call makes some component of its path.                              *)
Directories(t, p) == UNION {Made(t, SubSeq(p, 1, k), "dir") : k \in 1..Len(p)}

Removed(t, p) ==
    {[q \in DOMAIN t \ {p} |-> t[q]] :
        x \in IF p \in DOMAIN t /\ IsLeaf(t, p) THEN {p} ELSE {}}

(* q as it was called before the subtree at p moved to r.                  *)
Before(p, r, q) == IF Under(r, q) THEN p \o SubSeq(q, Len(r) + 1, Len(q)) ELSE q

Moved(t, p, n) ==
    LET r == Append(Parent(p), n)
        rest == {q \in DOMAIN t : ~Under(p, q)}
        below == {r \o SubSeq(q, Len(p) + 1, Len(q)) : q \in {x \in DOMAIN t : Under(p, x)}}
    IN  {[q \in rest \cup below |-> t[Before(p, r, q)]] :
            x \in IF p \in DOMAIN t /\ r \notin DOMAIN t THEN {p} ELSE {}}

Effects(t, c) ==
    CASE c.kind = "mkdir" -> Directories(t, c.path)
      [] c.kind = "create" -> Made(t, c.path, "file")
      [] c.kind = "remove" -> Removed(t, c.path)
      [] c.kind = "rename" -> Moved(t, c.path, c.name)
      [] OTHER -> {}

Init == tree = << >>

Next ==
    \E before \in {tree}, after \in {tree'} :
        after = before \/ after \in Effects(before, call)

Spec == Init /\ [][Next]_vars
=============================================================================
