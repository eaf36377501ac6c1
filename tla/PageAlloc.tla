----------------------------- MODULE PageAlloc -----------------------------
(***************************************************************************)
(* What page_alloc and page_free promise their callers: blocks of 2^order  *)
(* contiguous pages, aligned to their size, each page given to at most one *)
(* caller at a time (kernel/include/frame_alloc.h: "call this for          *)
(* physically contiguous, pow2 sized blocks").  A failed call changes      *)
(* nothing.                                                                *)
(***************************************************************************)
EXTENDS Integers

CONSTANTS Page, Order, order2size, Usable

VARIABLES avail,  \* the pages nobody has
          held    \* the blocks callers have

vars == <<avail, held>>

Span(p, o) == p..(p + order2size[o] - 1)

Init == avail = Usable /\ held = {}

Alloc(p, o) ==
    /\ p % order2size[o] = 0
    /\ Span(p, o) \subseteq avail
    /\ avail' = avail \ Span(p, o)
    /\ held' = held \cup {<<p, o>>}

Free(p, o) ==
    /\ <<p, o>> \in held
    /\ avail' = avail \cup Span(p, o)
    /\ held' = held \ {<<p, o>>}

Next == \E p \in Page, o \in Order : Alloc(p, o) \/ Free(p, o)

Spec == Init /\ [][Next]_vars
=============================================================================
