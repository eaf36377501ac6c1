------------------------------- MODULE Buddy -------------------------------
(***************************************************************************)
(* The buddy allocator of physical pages: kernel/src/mm/frame_alloc.c.     *)
(* Pages are page indices (page2idx); a block is a pair <<page, order>>.   *)
(* The loops of buddy_init, buddy_alloc and buddy_free are stepped one     *)
(* iteration at a time: pc tells which loop the processor that holds       *)
(* this_lock is in.  The doubly linked free lists are sets: which entry    *)
(* _list_get finds at the head depends only on the order of earlier calls, *)
(* and nothing below depends on which one it is.                           *)
(***************************************************************************)
EXTENDS Integers, Sequences, FiniteSets

CONSTANTS
    NPages,      \* frame_allocator_total: pages 0 .. NPages - 1 have a struct page
    HighOrder,   \* BUDDY_HIGH_ORDER
    order2size,  \* order2size(order): the pages of a block of that order
    MemMap,      \* the usable memmap entries, as page ranges [start, end)
    BootFree     \* frame_allocator_free when buddy_init has run

Order == 0..HighOrder
Page == 0..(NPages - 1)
Block == Page \X Order

(* The pages of block <<p, o>>.                                            *)
Span(p, o) == p..(p + order2size[o] - 1)

Entry(e) == MemMap[e].start..(MemMap[e].end - 1)

Usable == UNION {Entry(e) : e \in DOMAIN MemMap}

ASSUME BuddyAssumption ==
    /\ NPages \in Nat /\ HighOrder \in Nat /\ BootFree \in Int
    /\ order2size \in [Order -> Nat \ {0}]
    /\ order2size[0] = 1
    /\ \A o \in Order : o < HighOrder => order2size[o + 1] = 2 * order2size[o]
    /\ MemMap \in Seq([start : Page, end : 0..NPages])
    /\ \A e \in DOMAIN MemMap : MemMap[e].start < MemMap[e].end
    /\ \A e, f \in DOMAIN MemMap : e # f => Entry(e) \cap Entry(f) = {}

VARIABLES
    list,    \* orders[o].list, as the set of its entries
    bitmap,  \* orders[o].bitmap: one bit per pair of buddies
    free,    \* frame_allocator_free
    owned,   \* the blocks handed out and not yet given back
    pc,      \* "slice", "idle", "find", "split" or "merge"
    ent,     \* buddy_init: the memmap entry being sliced
    page,    \* the local page (buddy_init: current)
    order,   \* the local order
    want     \* the local cpy_order

vars == <<list, bitmap, free, owned, pc, ent, page, order, want>>

-----------------------------------------------------------------------------
(* n >> (order + 1): the bit of the pair that page n of this order is in.  *)
PairOf(n, o) == n \div (2 * order2size[o])

PairIdx == 0..NPages

(* order_status_at and order_flip_at.                                      *)
order_status_at(n, o) == bitmap[o][PairOf(n, o)]

order_flip_at(n, o) == bitmap' = [bitmap EXCEPT ![o][PairOf(n, o)] = ~@]

(* page index XOR order2size(order).                                       *)
get_buddy(n, o) ==
    IF (n \div order2size[o]) % 2 = 0 THEN n + order2size[o] ELSE n - order2size[o]

Aligned(n, o) == n % order2size[o] = 0

(* _slice_range: the largest order whose block is aligned at low and ends  *)
(* at high or below.                                                       *)
Fits(low, high, o) == Aligned(low, o) /\ low + order2size[o] <= high

SliceRange(low, high, o) ==
    /\ Fits(low, high, o)
    /\ \A q \in Order : Fits(low, high, q) => q <= o

Link(n, o) == list' = [list EXCEPT ![o] = @ \cup {n}]

Unlink(n, o) == list' = [list EXCEPT ![o] = @ \ {n}]

-----------------------------------------------------------------------------
(* buddy_init starts with zeroed bitmaps and empty lists.                  *)
Init ==
    /\ list = [o \in Order |-> {}]
    /\ bitmap = [o \in Order |-> [k \in PairIdx |-> FALSE]]
    /\ free = BootFree
    /\ owned = {}
    /\ pc = "slice"
    /\ ent = 1
    /\ page = IF MemMap = <<>> THEN 0 ELSE MemMap[1].start
    /\ order = 0
    /\ want = 0

(* buddy_init: cut the next block off the current entry.                   *)
InitSlice ==
    /\ pc = "slice" /\ ent <= Len(MemMap)
    /\ page < MemMap[ent].end
    /\ \E o \in Order :
          /\ SliceRange(page, MemMap[ent].end, o)
          /\ Link(page, o)
          /\ page' = page + order2size[o]
    /\ UNCHANGED <<bitmap, free, owned, pc, ent, order, want>>

(* buddy_init: the entry is used up, go to the next.                       *)
InitNextEntry ==
    /\ pc = "slice" /\ ent <= Len(MemMap)
    /\ page >= MemMap[ent].end
    /\ ent' = ent + 1
    /\ page' = IF ent < Len(MemMap) THEN MemMap[ent + 1].start ELSE page
    /\ UNCHANGED <<list, bitmap, free, owned, pc, order, want>>

(* buddy_init: flip the pair's bit once for every entry of every list.     *)
InitFlip ==
    /\ pc = "slice" /\ ent > Len(MemMap)
    /\ bitmap' = [o \in Order |-> [k \in PairIdx |->
          Cardinality({n \in list[o] : PairOf(n, o) = k}) % 2 = 1]]
    /\ pc' = "idle"
    /\ UNCHANGED <<list, free, owned, ent, page, order, want>>

(* Mutant: the search starts one order above the requested one.            *)
AllocStart_SkipsOrder(o) ==
    /\ pc = "idle"
    /\ pc' = "find" /\ order' = (IF o < HighOrder THEN o + 1 ELSE o) /\ want' = o
    /\ UNCHANGED <<list, bitmap, free, owned, ent, page>>

(* buddy_alloc(o) takes the lock.  (An o above HighOrder returns NULL      *)
(* before that and changes nothing.)                                       *)
AllocStart(o) ==
    /\ pc = "idle"
    /\ pc' = "find" /\ order' = o /\ want' = o
    /\ UNCHANGED <<list, bitmap, free, owned, ent, page>>

(* The find loop: this order's list has an entry.                          *)
AllocFound ==
    /\ pc = "find"
    /\ \E n \in list[order] :
          /\ Unlink(n, order)
          /\ order_flip_at(n, order)
          /\ page' = n
    /\ pc' = "split"
    /\ UNCHANGED <<free, owned, ent, order, want>>

(* The find loop: try the next order, ...                                  *)
AllocNextOrder ==
    /\ pc = "find" /\ list[order] = {} /\ order < HighOrder
    /\ order' = order + 1
    /\ UNCHANGED <<list, bitmap, free, owned, pc, ent, page, want>>

(* ... or return NULL when there is none.                                  *)
AllocFail ==
    /\ pc = "find" /\ list[order] = {} /\ order = HighOrder
    /\ pc' = "idle"
    /\ UNCHANGED <<list, bitmap, free, owned, ent, page, order, want>>

(* Mutant: the upper half is not linked.                                   *)
AllocSplit_NoLink ==
    /\ pc = "split" /\ order > want
    /\ ~order_status_at(get_buddy(page, order - 1), order - 1)
    /\ order_flip_at(page, order - 1)
    /\ order' = order - 1
    /\ UNCHANGED <<list, free, owned, pc, ent, page, want>>

(* The split loop: give the upper half back, unless its bit says that one  *)
(* of the halves is already free (kpanic, see SplitSafe).                  *)
AllocSplit ==
    /\ pc = "split" /\ order > want
    /\ ~order_status_at(get_buddy(page, order - 1), order - 1)
    /\ Link(get_buddy(page, order - 1), order - 1)
    /\ order_flip_at(page, order - 1)
    /\ order' = order - 1
    /\ UNCHANGED <<free, owned, pc, ent, page, want>>

(* Mutant: the block returned is the buddy of the one set aside.           *)
AllocDone_WrongHalf ==
    /\ pc = "split" /\ order = want
    /\ free' = free - order2size[want]
    /\ owned' = owned \cup {<<get_buddy(page, want), want>>}
    /\ pc' = "idle"
    /\ UNCHANGED <<list, bitmap, ent, page, order, want>>

(* The block is small enough: account for it, unlock and return it.        *)
AllocDone ==
    /\ pc = "split" /\ order = want
    /\ free' = free - order2size[want]
    /\ owned' = owned \cup {<<page, want>>}
    /\ pc' = "idle"
    /\ UNCHANGED <<list, bitmap, ent, page, order, want>>

(* buddy_free(p, o), by the owner of the block, takes the lock.            *)
FreeStart(p, o) ==
    /\ pc = "idle" /\ <<p, o>> \in owned
    /\ owned' = owned \ {<<p, o>>}
    /\ pc' = "merge" /\ page' = p /\ order' = o /\ want' = o
    /\ UNCHANGED <<list, bitmap, free, ent>>

Accounted == free' = free + order2size[want]

(* The merge loop: after the flip the bit is 0, so the buddy is free too.  *)
FreeMerge ==
    /\ pc = "merge" /\ order < HighOrder
    /\ order_flip_at(page, order)
    /\ order_status_at(page, order)
    /\ Unlink(get_buddy(page, order), order)
    /\ page' = IF page < get_buddy(page, order) THEN page ELSE get_buddy(page, order)
    /\ order' = order + 1
    /\ UNCHANGED <<free, owned, pc, ent, want>>

(* The merge loop: after the flip the bit is 1.  Link the block, account   *)
(* for it, unlock.                                                         *)
FreeLink ==
    /\ pc = "merge" /\ order < HighOrder
    /\ order_flip_at(page, order)
    /\ ~order_status_at(page, order)
    /\ Link(page, order)
    /\ Accounted
    /\ pc' = "idle"
    /\ UNCHANGED <<owned, ent, page, order, want>>

(* The merge loop ends at the highest order, whose bits are not used.      *)
FreeLinkTop ==
    /\ pc = "merge" /\ order = HighOrder
    /\ Link(page, order)
    /\ Accounted
    /\ pc' = "idle"
    /\ UNCHANGED <<bitmap, owned, ent, page, order, want>>

(* The steps of a call in progress.                                        *)
Continue ==
    \/ InitSlice \/ InitNextEntry \/ InitFlip
    \/ AllocFound \/ AllocNextOrder \/ AllocFail \/ AllocSplit \/ AllocDone
    \/ FreeMerge \/ FreeLink \/ FreeLinkTop

Next ==
    \/ Continue
    \/ \E o \in Order : AllocStart(o)
    \/ \E b \in owned : FreeStart(b[1], b[2])

Spec == Init /\ [][Next]_vars

-----------------------------------------------------------------------------
TypeOK ==
    /\ list \in [Order -> SUBSET Page]
    /\ bitmap \in [Order -> [PairIdx -> BOOLEAN]]
    /\ free \in Int
    /\ owned \subseteq Block
    /\ pc \in {"slice", "idle", "find", "split", "merge"}
    /\ ent \in 1..(Len(MemMap) + 1)
    /\ page \in 0..NPages
    /\ order \in Order
    /\ want \in Order

(* The blocks in the free lists, and the block the call in progress holds. *)
FreeBlocks == {b \in Block : b[1] \in list[b[2]]}

InHand == IF pc \in {"split", "merge"} THEN {<<page, order>>} ELSE {}

(* The pages buddy_init has not sliced yet.                                *)
Unsliced ==
    IF pc = "slice" /\ ent <= Len(MemMap)
    THEN (page..(MemMap[ent].end - 1))
            \cup UNION {Entry(e) : e \in (ent + 1)..Len(MemMap)}
    ELSE {}

Blocks == FreeBlocks \cup owned \cup InHand

Overlap(a, b) == Span(a[1], a[2]) \cap Span(b[1], b[2]) # {}

(* No page is ever in two places: free blocks, allocated blocks and the    *)
(* block being split or merged are aligned to their size and do not        *)
(* overlap, so page_alloc never hands out a page that is in use.           *)
BlocksDisjoint ==
    /\ \A b \in Blocks : Aligned(b[1], b[2])
    /\ \A a, b \in Blocks : a # b => ~Overlap(a, b)
    /\ owned \cap FreeBlocks = {} /\ InHand \cap (owned \cup FreeBlocks) = {}

(* No page is ever lost or invented: through slicing, splits and merges    *)
(* the blocks cover exactly the usable pages of the memmap.                *)
NoPageLost == (UNION {Span(b[1], b[2]) : b \in Blocks}) \cup Unsliced = Usable

(* buddy_alloc never reaches its panic "trying to split into invalid buddy *)
(* entry": neither half of a block being split is in a free list.          *)
SplitSafe ==
    pc = "split" /\ order > want =>
        ~order_status_at(get_buddy(page, order - 1), order - 1)

(* buddy_free's bit tells the truth: the buddy it unlinks is an entry of   *)
(* that order's free list (_list_unlink would panic on an empty list and   *)
(* corrupt any other).                                                     *)
UnlinkSafe ==
    pc = "merge" /\ order < HighOrder /\ order_status_at(page, order) =>
        get_buddy(page, order) \in list[order]

FreePages == UNION {Span(b[1], b[2]) : b \in FreeBlocks}

(* buddy_alloc returns NULL only if there is no aligned free block of the  *)
(* requested order: the find loop misses nothing.                          *)
FailsOnlyWhenFull ==
    pc = "find" /\ list[order] = {} /\ order = HighOrder =>
        ~\E n \in Page : Aligned(n, want) /\ Span(n, want) \subseteq FreePages

(* The contract of page_alloc and page_free.  A page is available to the   *)
(* callers when no caller owns it; a call takes effect when it returns a   *)
(* block, and when a block is given back.                                  *)
OwnedPages == UNION {Span(b[1], b[2]) : b \in owned}

PA == INSTANCE PageAlloc WITH avail <- Usable \ OwnedPages, held <- owned

(* The buddy allocator implements PageAlloc.                               *)
ImplementsPageAlloc == PA!Spec

=============================================================================
