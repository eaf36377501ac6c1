---------------------------- MODULE MCNvmeDriver ----------------------------
(***************************************************************************)
(* A controller with three namespaces, two, one behind an entry that is    *)
(* skipped, two around such an entry, or none; a vector that grows with    *)
(* the third; rings of 15 entries, pages of four bytes and buffers of two, *)
(* inside a page or across two.                                            *)
(***************************************************************************)
EXTENDS NvmeDriver
MCNsList == {<<1, 2, 3>>, <<2, 3, 0>>, <<4, 1, 0>>, <<1, 4, 2>>, <<4, 0, 0>>}
MCDword0 == {<<0, 0>>, <<2, 2>>, <<0, 1>>}
MCFrameOf(p) == IF p = 0 THEN 5 ELSE 2
=============================================================================
