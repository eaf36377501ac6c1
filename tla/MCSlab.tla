------------------------------- MODULE MCSlab -------------------------------
(* Small instances of the kernel heap.                                     *)
EXTENDS Slab, TLC

CONSTANTS c1, c2

(* One cache of small objects, one of objects twice that size.             *)
TwoSizes == [c \in Cache |-> IF c = c1 THEN 1 ELSE 2]
SlabSymmetry == Permutations(Slab)
KeepOne == [c \in Cache |-> 1]
=============================================================================
