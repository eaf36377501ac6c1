------------------------------- MODULE RbTree -------------------------------
(***************************************************************************)
(* The red-black tree of src/std/rbtree.c, which the path name cache keeps *)
(* its entries in.  The nodes are those of the C code, with parent and     *)
(* child pointers, a colour and a data pointer (abstracted to its key).    *)
(* The shared leaf RB_NIL is a node too: tree_remove stores a parent in it *)
(* and the fix-up walks from it.  A loop of the code is a RECURSIVE        *)
(* operator on the tree, one iteration per unfolding.                      *)
(***************************************************************************)
EXTENDS Integers, FiniteSets

CONSTANTS
    Keys,       \* the hashes inserted, a finite set of integers
    Nodes       \* the addresses kmalloc may return, a finite set of naturals

NIL  == 0       \* RB_NIL, the sentinel
NULL == -1      \* the C null pointer

ASSUME RbTreeAssumption ==
    /\ Keys \subseteq Int
    /\ Nodes \subseteq Nat \ {NIL}
    /\ IsFiniteSet(Nodes)

RB_LEFT  == 0
RB_RIGHT == 1
Direction == {RB_LEFT, RB_RIGHT}

VARIABLE
    tree        \* the root pointer and the fields of every node
vars == <<tree>>

\* The C value of a comparison used as an array index.
Bit(b) == IF b THEN 1 ELSE 0

\* init_root_node, and the static initialiser of the sentinel.
EmptyTree ==
    [root   |-> NIL,
     used   |-> {},
     parent |-> [n \in Nodes \cup {NIL} |-> NULL],
     child  |-> [n \in Nodes \cup {NIL} |-> [d \in Direction |-> NIL]],
     color  |-> [n \in Nodes \cup {NIL} |-> "black"],
     key    |-> [n \in Nodes \cup {NIL} |-> NULL]]

Sibling(t, n, dir) == t.child[t.parent[n]][dir]
Paint(t, n, c) == [t EXCEPT !.color[n] = c]
SetParent(t, n, p) == [t EXCEPT !.parent[n] = p]

\* Mutant: the inner grandchild keeps its old parent pointer.
Rotate_KeepInner(t, subtree, dir) ==
    LET n  == t.child[subtree][1 - dir]
        t1 == [t EXCEPT !.child[subtree][1 - dir] = t.child[n][dir],
                        !.child[n][dir] = subtree,
                        !.parent[n] = t.parent[subtree], !.parent[subtree] = n]
    IN  IF t.parent[subtree] = NULL THEN [t1 EXCEPT !.root = n]
        ELSE [t1 EXCEPT !.child[t.parent[subtree]] =
                 [d \in Direction |-> IF @[d] = subtree THEN n ELSE @[d]]]

\* _rotate(root, subtree, dir): the child on the other side takes the place
\* of subtree, which becomes its child on side dir.
Rotate(t, subtree, dir) ==
    LET n     == t.child[subtree][1 - dir]
        inner == t.child[n][dir]
        above == t.parent[subtree]
        t1 == [t EXCEPT !.child[subtree][1 - dir] = inner]
        t2 == IF inner # NIL THEN SetParent(t1, inner, subtree) ELSE t1
        t3 == IF n # NIL THEN SetParent(t2, n, above) ELSE t2
        t4 == IF above # NULL
              THEN LET lr == IF subtree = t3.child[above][dir] THEN dir ELSE 1 - dir
                   IN  [t3 EXCEPT !.child[above][lr] = n]
              ELSE [t3 EXCEPT !.root = n]
        t5 == [t4 EXCEPT !.child[n][dir] = subtree]
    IN  IF subtree # NIL THEN SetParent(t5, subtree, n) ELSE t5

RECURSIVE InsertFixup(_, _)
\* _insert_fixup: push a red-red conflict up, or rotate it away.
InsertFixup(t, node) ==
    IF node = t.root \/ t.color[t.parent[node]] # "red"
    THEN Paint(t, t.root, "black")
    ELSE
    LET p     == t.parent[node]
        g     == t.parent[p]
        dir   == Bit(p = t.child[g][RB_LEFT])
        uncle == t.child[g][dir]
    IN  IF t.color[uncle] = "red"
        THEN InsertFixup(Paint(Paint(Paint(t, p, "black"), uncle, "black"), g, "red"), g)
        ELSE LET inside == node = t.child[p][dir]
                 nd == IF inside THEN p ELSE node
                 t1 == IF inside THEN Rotate(t, p, 1 - dir) ELSE t
                 p1 == t1.parent[nd]
                 g1 == t1.parent[p1]
             IN  InsertFixup(Rotate(Paint(Paint(t1, p1, "black"), g1, "red"), g1, dir), nd)

RECURSIVE FindFrom(_, _, _)
\* _find_node from node n: the node holding key k, or RB_NIL.
FindFrom(t, n, k) ==
    IF n = NIL \/ t.key[n] = k THEN n
    ELSE FindFrom(t, t.child[n][Bit(k < t.key[n])], k)
FindNode(t, k) == FindFrom(t, t.root, k)

\* tree_find, as whether it returns an element.
TreeFind(t, k) == FindNode(t, k) # NIL

RECURSIVE InsertParent(_, _, _, _)
\* The descent of tree_insert: the node that becomes the parent of key k.
InsertParent(t, curr, parent, k) ==
    IF curr = NIL THEN parent
    ELSE InsertParent(t, t.child[curr][Bit(k < t.key[curr])], curr, k)

\* tree_insert: nothing but a lookup when the key exists; otherwise a red
\* leaf (_new_node) linked under its parent, then _insert_fixup.
TreeInsert(t, k) ==
    IF TreeFind(t, k) THEN t
    ELSE LET parent == InsertParent(t, t.root, NULL, k)
             head   == CHOOSE n \in Nodes \ t.used : \A m \in Nodes \ t.used : n <= m
             t1 == [t EXCEPT !.used = @ \cup {head}, !.key[head] = k,
                             !.color[head] = "red", !.parent[head] = parent,
                             !.child[head] = [d \in Direction |-> NIL]]
             t2 == IF parent # NULL
                   THEN [t1 EXCEPT !.child[parent][Bit(k < t.key[parent])] = head]
                   ELSE [t1 EXCEPT !.root = head]
         IN  InsertFixup(t2, head)

\* Mutant: the loop is dropped, only the final recolouring is left.
RemoveFixup_Once(t, node) == Paint(t, node, "black")

RECURSIVE RemoveFixup(_, _)
\* _remove_fixup: node carries one black too few; recolour the sibling and
\* move up, or rotate the missing black in and stop.
RemoveFixup(t, node) ==
    IF node = t.root \/ t.color[node] # "black"
    THEN Paint(t, node, "black")
    ELSE
    LET dir == Bit(node = t.child[t.parent[node]][RB_LEFT])
        s0  == Sibling(t, node, dir)
        t1  == IF t.color[s0] = "red"
               THEN Rotate(Paint(Paint(t, s0, "black"), t.parent[node], "red"),
                           t.parent[node], 1 - dir)
               ELSE t
        s1  == Sibling(t1, node, dir)
        ColorOf(d) == t1.color[t1.child[s1][d]]
    IN  IF ColorOf(1 - dir) = "black" /\ ColorOf(dir) = "black"
        THEN RemoveFixup(Paint(t1, s1, "red"), t1.parent[node])
        ELSE LET t2 == IF ColorOf(dir) = "black"
                       THEN Rotate(Paint(Paint(t1, t1.child[s1][1 - dir], "black"), s1, "red"),
                                   s1, dir)
                       ELSE t1
                 s2 == Sibling(t2, node, dir)
                 p2 == t2.parent[node]
                 t3 == Paint(Paint(Paint(t2, s2, t2.color[p2]), p2, "black"),
                             t2.child[s2][dir], "black")
                 t4 == Rotate(t3, p2, 1 - dir)
             IN  RemoveFixup(t4, t4.root)

\* Mutant: the right child itself stands in for the in-order neighbour.
Leftmost_Child(t, n) == n

RECURSIVE Leftmost(_, _)
\* The search of tree_remove for the in-order neighbour.
Leftmost(t, n) == IF t.child[n][RB_LEFT] = NIL THEN n ELSE Leftmost(t, t.child[n][RB_LEFT])

\* tree_remove: unlink the node, or its in-order neighbour after moving the
\* neighbour's data into it; the sentinel gets a parent when it fills the gap.
TreeRemove(t, k) ==
    LET n == FindNode(t, k) IN
    IF n = NIL THEN t
    ELSE LET x    == IF t.child[n][RB_LEFT] = NIL \/ t.child[n][RB_RIGHT] = NIL
                     THEN n ELSE Leftmost(t, t.child[n][RB_RIGHT])
             node == t.child[x][Bit(t.child[x][RB_LEFT] = NIL)]
             px   == t.parent[x]
             t1 == SetParent(t, node, px)
             t2 == IF px # NULL
                   THEN [t1 EXCEPT !.child[px][Bit(x # t1.child[px][RB_LEFT])] = node]
                   ELSE [t1 EXCEPT !.root = node]
             t3 == IF x # n THEN [t2 EXCEPT !.key[n] = t.key[x]] ELSE t2
             t4 == IF t.color[x] = "black" THEN RemoveFixup(t3, node) ELSE t3
         IN  \* kfree(x): its fields are cleared here only to merge states
             [t4 EXCEPT !.used = @ \ {x}, !.key[x] = NULL, !.parent[x] = NULL,
                        !.color[x] = "black", !.child[x] = [d \in Direction |-> NIL]]

-----------------------------------------------------------------------------
Init == tree = EmptyTree

Insert(k) ==
    /\ TreeFind(tree, k) \/ tree.used # Nodes
    /\ tree' = TreeInsert(tree, k)

Remove(k) ==
    /\ tree' = TreeRemove(tree, k)

Next == \E k \in Keys : Insert(k) \/ Remove(k)

Spec == Init /\ [][Next]_vars

-----------------------------------------------------------------------------
RECURSIVE Reach(_, _)
\* The nodes of the subtree at n, by the child pointers.
Reach(t, n) ==
    IF n = NIL THEN {}
    ELSE {n} \cup Reach(t, t.child[n][RB_LEFT]) \cup Reach(t, t.child[n][RB_RIGHT])

RECURSIVE BlackHeights(_, _)
\* The numbers of black nodes on the paths from n down to a leaf.
BlackHeights(t, n) ==
    IF n = NIL THEN {0}
    ELSE {h + Bit(t.color[n] = "black") :
            h \in BlackHeights(t, t.child[n][RB_LEFT])
                    \cup BlackHeights(t, t.child[n][RB_RIGHT])}

\* After every insertion and removal the tree keeps what the comments of
\* _insert_fixup and _remove_fixup promise: the root and the leaves are black, a
\* red node has black children, and all paths down from a node hold the same
\* number of black nodes.  So a lookup stays logarithmic.
RedBlack ==
    /\ tree.color[tree.root] = "black"
    /\ tree.color[NIL] = "black"
    /\ \A n \in tree.used : tree.color[n] = "red" =>
           \A d \in Direction : tree.color[tree.child[n][d]] = "black"
    /\ \A n \in tree.used : Cardinality(BlackHeights(tree, n)) = 1

\* The pointers form one tree: every allocated node hangs under the root, knows
\* its parent, and no walk can leave through the shared sentinel, whose child
\* pointers _rotate must never overwrite.
PointersMatch ==
    /\ Reach(tree, tree.root) = tree.used
    /\ \A d \in Direction : tree.child[NIL][d] = NIL
    /\ tree.root # NIL => tree.parent[tree.root] = NULL
    /\ \A n \in tree.used, d \in Direction :
           tree.child[n][d] # NIL => tree.parent[tree.child[n][d]] = n

\* What the users of the tree see is a set of keys: tree_insert adds a key,
\* tree_remove takes it out, and tree_find answers membership.
KeySet == INSTANCE KeySet WITH keys <- {k \in Keys : TreeFind(tree, k)}
ImplementsKeySet == KeySet!Spec
=============================================================================
