------------------------------ MODULE MCBuddy ------------------------------
(***************************************************************************)
(* Instances of Buddy: a few pages, small orders, a memory map whose       *)
(* entries start and end off any alignment.                                *)
(***************************************************************************)
EXTENDS Buddy

order2sizeMC == [o \in Order |-> 2^o]

Range(s, e) == [start |-> s, end |-> e]

(* Two entries with a hole between them, neither end aligned.              *)
MemMapHole == <<Range(1, 8), Range(9, 11)>>
=============================================================================
