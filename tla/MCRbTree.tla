------------------------------ MODULE MCRbTree ------------------------------
(***************************************************************************)
(* Red-black trees over small sets of keys.  TreeView names a node by the  *)
(* key it holds: two states that differ only in the addresses kmalloc      *)
(* handed out are the same state.                                          *)
(***************************************************************************)
EXTENDS RbTree
MCKeys  == 1 .. 8
MCNodes == 1 .. 8

KeyAt(n) == IF n = NULL THEN NULL ELSE tree.key[n]
TreeView ==
    <<KeyAt(tree.root), KeyAt(tree.parent[NIL]),
      {<<tree.key[n], tree.color[n], KeyAt(tree.parent[n]),
         KeyAt(tree.child[n][RB_LEFT]), KeyAt(tree.child[n][RB_RIGHT])>> : n \in tree.used}>>
=============================================================================
