------------------------------- MODULE MCVfs -------------------------------
(***************************************************************************)
(* Three sections that all have the same key, a few files and a second     *)
(* file system; and the calls of vfs_init.                                 *)
(***************************************************************************)
EXTENDS Vfs

MCFreeNames == {"testfile", "testdir", "hohoho"}
MCTypeOf(n) == IF n = "testfile" THEN "VFS_VN_REG" ELSE "VFS_VN_DIR"
MCHash(n) == CASE n \in MCFreeNames -> 1 [] n = "testdir2" -> 3 [] OTHER -> 2

\* The address of an entry makes no difference: an entry is known by its file.
FileOf(e) == IF e = NULL THEN NULL ELSE pnc[e].file
View == <<file, [f \in DOMAIN fs |-> FileOf(fs[f].covered)], step,
          IF step = 0 THEN NULL ELSE hnd,
          {[pnc[e] EXCEPT !.parent = FileOf(@), !.next = FileOf(@), !.prev = FileOf(@),
                          !.tree = [k \in Key |-> FileOf(pnc[e].tree[k])]] : e \in Handle}>>
=============================================================================
