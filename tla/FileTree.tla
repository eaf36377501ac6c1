------------------------------ MODULE FileTree ------------------------------
(***************************************************************************)
(* What the vfs promises about absolute paths: each denotes nothing, a     *)
(* directory or a file with its contents.  Creating makes one path denote  *)
(* something, writing changes the contents of one, and mounting an empty   *)
(* file system hides what was below the mount point.                       *)
(***************************************************************************)
EXTENDS Naturals, Sequences

CONSTANTS Path, Content
VARIABLE tree

None == "none"
Init == tree = [p \in Path |-> IF p = <<>> THEN "dir" ELSE None]

Above(p) == SubSeq(p, 1, Len(p) - 1)
Below(p, x) == Len(p) < Len(x) /\ SubSeq(x, 1, Len(p)) = p

\* The calls, as relations of the tree s before and the tree t after.
Create(s, t) == \E p \in Path \ {<<>>}, new \in {"dir", "empty"} :
    /\ s[p] = None /\ s[Above(p)] # None
    /\ t = [s EXCEPT ![p] = new]
Write(s, t) == \E p \in Path, v \in Content :
    /\ s[p] \notin {None, "dir"}
    /\ t = [s EXCEPT ![p] = v]
Mount(s, t) == \E p \in Path :
    /\ s[p] # None
    /\ t = [x \in Path |-> IF Below(p, x) THEN None ELSE s[x]]

Next == \E s \in {tree}, t \in {tree'} : s = t \/ Create(s, t) \/ Write(s, t) \/ Mount(s, t)
Spec == Init /\ [][Next]_tree
=============================================================================
