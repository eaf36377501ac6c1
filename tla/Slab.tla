-------------------------------- MODULE Slab --------------------------------
(***************************************************************************)
(* The kernel heap (kernel/src/mm/slab.c): caches of equal objects carved  *)
(* out of slabs, the slabs cut out of the page allocator.                  *)
(*                                                                         *)
(* A slab's descriptor is the struct page of its first page: it keeps what *)
(* it says after the pages are given back, until somebody else writes it.  *)
(* Each cache has a lock, so an operation is one step; kfree is two,       *)
(* because it may free the slab that it goes on using.                     *)
(***************************************************************************)
EXTENDS Integers, Sequences, FiniteSets

CONSTANTS
    CPU,
    Cache,
    Slab,         \* blocks of pages_per_slab pages that the page allocator owns
    NPages,       \* pages_per_slab
    PageUnits,    \* a page's size, in the size of the smallest object
    ObjSize,      \* obj_size of every cache, in the same unit
    Keep,         \* full slabs that every cache may keep
    NULL

TotalObjs(c) == (NPages * PageUnits) \div ObjSize[c]

ASSUME SlabAssumption ==
    /\ NPages \in Nat \ {0} /\ PageUnits \in Nat \ {0}
    /\ ObjSize \in [Cache -> Nat \ {0}] /\ Keep \in [Cache -> Nat \ {0}]
    /\ \A c \in Cache : TotalObjs(c) \in 2..65535
    /\ NULL \notin Slab \cup CPU \cup Cache

VARIABLES
    h,            \* pool, page flags, composite heads, descriptors, caches
    live,         \* objects that kmalloc returned and nobody has freed
    big,          \* blocks that kmalloc took from the page allocator directly
    lock,         \* the holder of every cache's lock
    freeing       \* what every processor's kfree has still to finish

vars == <<h, live, big, lock, freeing>>

Page == Slab \X (0..(NPages - 1))

Address == Slab \X (0..(NPages * PageUnits - 1))

PageOf(a) == <<a[1], a[2] \div PageUnits>>

Init ==
    /\ h = [pool |-> Slab,
            flags |-> [pg \in Page |-> {}],
            comp_head |-> [pg \in Page |-> NULL],
            slab |-> [s \in Slab |-> [this_cache |-> NULL, freelist |-> <<>>,
                                      used_objs |-> 0, total_objs |-> 0]],
            cache |-> [c \in Cache |-> [full |-> <<>>, partial |-> <<>>, empty |-> <<>>,
                                        full_count |-> 0, partial_count |-> 0,
                                        empty_count |-> 0, total_objs |-> 0,
                                        allocated |-> 0]]]
    /\ live = {} /\ big = {}
    /\ lock = [c \in Cache |-> NULL]
    /\ freeing = [p \in CPU |-> NULL]

-----------------------------------------------------------------------------
_list_link(s, list) == <<s>> \o list

_list_unlink(s, list) == SelectSeq(list, LAMBDA x : x # s)

(* The flags by which kfree finds a slab from the address of an object.    *)
_mark_composite_page(g, s) ==
    [g EXCEPT !.flags = [pg \in Page |-> IF pg[1] # s THEN @[pg]
                                         ELSE IF pg[2] = 0 THEN @[pg] \cup {"head"}
                                         ELSE @[pg] \cup {"tail"}],
              !.comp_head = [pg \in Page |-> IF pg[1] = s /\ pg[2] # 0 THEN s ELSE @[pg]]]

(* Mutant: only the head is unmarked.                                      *)
_unmark_composite_page_HeadOnly(g, s) == [g EXCEPT !.flags[<<s, 0>>] = @ \ {"head"}]

_unmark_composite_page(g, s) ==
    [g EXCEPT !.flags = [pg \in Page |-> IF pg[1] # s THEN @[pg]
                                         ELSE IF pg[2] = 0 THEN @[pg] \ {"head"}
                                         ELSE @[pg] \ {"tail"}]]

(* new_slab: page_alloc has returned s.                                    *)
new_slab(g, c, s) ==
    LET n == TotalObjs(c)
        objs == [i \in 1..n |-> <<s, (i - 1) * ObjSize[c]>>]
    IN  _mark_composite_page(
          [g EXCEPT !.pool = @ \ {s},
                    !.slab[s] = [this_cache |-> c, freelist |-> objs,
                                 used_objs |-> 0, total_objs |-> n],
                    !.cache[c].full = _list_link(s, @),
                    !.cache[c].full_count = @ + 1,
                    !.cache[c].total_objs = @ + n], s)

(* Mutant: the evicted slab stays in the list.                             *)
_attempt_free_full_KeepLinked(g, c) ==
    IF g.cache[c].full_count <= Keep[c] THEN g
    ELSE LET s == Head(g.cache[c].full)
         IN  [_unmark_composite_page(g, s) EXCEPT
                !.cache[c].full_count = @ - 1,
                !.cache[c].total_objs = @ - g.slab[s].total_objs,
                !.pool = @ \cup {s}]

(* _attempt_free_full: give the first full slab back when there are more   *)
(* than the cache keeps.                                                   *)
_attempt_free_full(g, c) ==
    IF g.cache[c].full_count <= Keep[c] THEN g
    ELSE LET s == Head(g.cache[c].full)
         IN  [_unmark_composite_page(g, s) EXCEPT
                !.cache[c].full = _list_unlink(s, @),
                !.cache[c].full_count = @ - 1,
                !.cache[c].total_objs = @ - g.slab[s].total_objs,
                !.pool = @ \cup {s}]

(* Mutant: the freelist is not advanced.                                   *)
TakeObject_NoAdvance(g, c, s) ==
    [g EXCEPT !.slab[s].used_objs = (@ + 1) % 65536,
              !.cache[g.slab[s].this_cache].allocated = @ + 1]

(* The first object of s is handed out.                                    *)
TakeObject(g, c, s) ==
    [g EXCEPT !.slab[s].freelist = Tail(@),
              !.slab[s].used_objs = (@ + 1) % 65536,
              !.cache[g.slab[s].this_cache].allocated = @ + 1]

(* cache_alloc from the first partial slab.                                *)
TakePartial(g, c) ==
    LET s == Head(g.cache[c].partial)
        g1 == TakeObject(g, c, s)
    IN  IF g1.slab[s].used_objs # g1.slab[s].total_objs THEN g1
        ELSE [g1 EXCEPT !.cache[c].partial = _list_unlink(s, @),
                        !.cache[c].partial_count = @ - 1,
                        !.cache[c].empty = _list_link(s, @),
                        !.cache[c].empty_count = @ + 1]

(* cache_alloc at got_full: the first full slab becomes partial.           *)
TakeFull(g, c) ==
    LET s == Head(g.cache[c].full)
    IN  TakeObject([g EXCEPT !.cache[c].full = _list_unlink(s, @),
                             !.cache[c].full_count = @ - 1,
                             !.cache[c].partial = _list_link(s, @),
                             !.cache[c].partial_count = @ + 1], c, s)

-----------------------------------------------------------------------------
(* A processor that is inside kfree does nothing else: interrupts are off. *)
Free(p) == freeing[p] = NULL

Returned(o) == live' = live \cup {o} /\ UNCHANGED <<big, lock, freeing>>

(* kmalloc of a small size.  cache_alloc prefers partial slabs, ...        *)
AllocPartial(p, c) ==
    /\ Free(p) /\ lock[c] = NULL
    /\ h.cache[c].partial # <<>>
    /\ LET list == h.slab[Head(h.cache[c].partial)].freelist
       IN  list # <<>> /\ Returned(Head(list))
    /\ h' = TakePartial(h, c)

(* ... then full ones, ...                                                 *)
AllocFull(p, c) ==
    /\ Free(p) /\ lock[c] = NULL
    /\ h.cache[c].partial = <<>> /\ h.cache[c].full # <<>>
    /\ Returned(Head(h.slab[Head(h.cache[c].full)].freelist))
    /\ h' = TakeFull(h, c)

(* ... and makes a new one when there is none.  (Memory does not run out:  *)
(* the result of page_alloc is not tested.)                                *)
AllocNew(p, c) ==
    /\ Free(p) /\ lock[c] = NULL
    /\ h.cache[c].partial = <<>> /\ h.cache[c].full = <<>>
    /\ \E s \in h.pool :
          LET g == new_slab(h, c, s)
          IN  Returned(Head(g.slab[s].freelist)) /\ h' = TakeFull(g, c)

(* kmalloc of a size above KMALLOC_MAX_CACHE_SIZE.                         *)
AllocBig(p) ==
    /\ Free(p)
    /\ \E s \in h.pool :
          /\ h' = [h EXCEPT !.pool = @ \ {s}, !.flags[<<s, 0>>] = @ \cup {"buddy"}]
          /\ big' = big \cup {s}
    /\ UNCHANGED <<live, lock, freeing>>

(* kfree of such a block.                                                  *)
FreeBig(p, s) ==
    /\ Free(p) /\ s \in big /\ "buddy" \in h.flags[<<s, 0>>]
    /\ h' = [h EXCEPT !.pool = @ \cup {s}, !.flags[<<s, 0>>] = @ \ {"buddy"}]
    /\ big' = big \ {s}
    /\ UNCHANGED <<live, lock, freeing>>

(* The slab that the page of an address belongs to; NULL: kpanic.          *)
_find_corresponding_slab(a) ==
    LET pg == PageOf(a)
    IN  IF "head" \in h.flags[pg] THEN pg[1]
        ELSE IF "tail" \in h.flags[pg] THEN h.comp_head[pg] ELSE NULL

(* Mutant: the slab becomes full one object too late.                      *)
GiveObject_Late(g, c, s, a) ==
    LET g1 == [g EXCEPT !.slab[s].freelist = <<a>> \o @]
    IN  IF g.slab[s].used_objs = g.slab[s].total_objs
        THEN [g1 EXCEPT !.cache[c].empty = _list_unlink(s, @),
                        !.cache[c].empty_count = @ - 1,
                        !.cache[c].partial = _list_link(s, @),
                        !.cache[c].partial_count = @ + 1]
        ELSE g1

(* The object goes to the front of the freelist, the slab to the list of   *)
(* its new fill.                                                           *)
GiveObject(g, c, s, a) ==
    LET g1 == [g EXCEPT !.slab[s].freelist = <<a>> \o @]
    IN  IF g.slab[s].used_objs = g.slab[s].total_objs
        THEN [g1 EXCEPT !.cache[c].empty = _list_unlink(s, @),
                        !.cache[c].empty_count = @ - 1,
                        !.cache[c].partial = _list_link(s, @),
                        !.cache[c].partial_count = @ + 1]
        ELSE IF g.slab[s].used_objs = 1
        THEN _attempt_free_full(
               [g1 EXCEPT !.cache[c].partial = _list_unlink(s, @),
                          !.cache[c].partial_count = @ - 1,
                          !.cache[c].full = _list_link(s, @),
                          !.cache[c].full_count = @ + 1], c)
        ELSE g1

(* kfree, up to the counters.                                              *)
FreeObject(p, a) ==
    /\ Free(p) /\ a \in live /\ "buddy" \notin h.flags[PageOf(a)]
    /\ LET s == _find_corresponding_slab(a)
           c == h.slab[s].this_cache
       IN  /\ s # NULL /\ lock[c] = NULL
           /\ h' = GiveObject(h, c, s, a)
           /\ lock' = [lock EXCEPT ![c] = p]
           /\ freeing' = [freeing EXCEPT ![p] = <<s, c>>]
    /\ live' = live \ {a}
    /\ UNCHANGED big

(* Its end: s may be another's by now, and s->this_cache another cache.    *)
FreeCount(p) ==
    /\ freeing[p] # NULL
    /\ LET s == freeing[p][1]
           c == freeing[p][2]
       IN  /\ h' = [h EXCEPT !.slab[s].used_objs = (@ - 1) % 65536,
                             !.cache[c].allocated = @ - 1]
           /\ lock' = [lock EXCEPT ![h.slab[s].this_cache] = NULL]
    /\ freeing' = [freeing EXCEPT ![p] = NULL]
    /\ UNCHANGED <<live, big>>

Next ==
    \E p \in CPU :
        \/ \E c \in Cache : AllocPartial(p, c) \/ AllocFull(p, c) \/ AllocNew(p, c)
        \/ AllocBig(p) \/ \E s \in Slab : FreeBig(p, s)
        \/ \E a \in Address : FreeObject(p, a)
        \/ FreeCount(p)

Spec == Init /\ [][Next]_vars

-----------------------------------------------------------------------------
Elems(list) == {list[i] : i \in DOMAIN list}

Owned(c) == Elems(h.cache[c].full) \cup Elems(h.cache[c].partial) \cup Elems(h.cache[c].empty)

(* The slab whose counters some processor's kfree has not yet updated.     *)
InFlight(s) == {p \in CPU : freeing[p] # NULL /\ freeing[p][1] = s}

TypeOK ==
    /\ h.pool \subseteq Slab
    /\ h.flags \in [Page -> SUBSET {"head", "tail", "buddy"}]
    /\ h.comp_head \in [Page -> Slab \cup {NULL}]
    /\ \A s \in Slab : /\ h.slab[s].this_cache \in Cache \cup {NULL}
                        /\ Elems(h.slab[s].freelist) \subseteq Address
                        /\ h.slab[s].used_objs \in 0..h.slab[s].total_objs
    /\ \A c \in Cache : h.cache[c].allocated \in Nat /\ h.cache[c].total_objs \in Nat
    /\ live \subseteq Address /\ big \subseteq Slab
    /\ lock \in [Cache -> CPU \cup {NULL}]
    /\ freeing \in [CPU -> (Slab \X Cache) \cup {NULL}]

(* The objects of a slab are those in its freelist, once each, and those   *)
(* in use: kmalloc never returns an object twice and kfree loses none.     *)
ObjectsExact ==
    \A c \in Cache : \A s \in Owned(c) :
        LET list == h.slab[s].freelist
            used == {a \in live : a[1] = s}
        IN  /\ Cardinality(Elems(list)) = Len(list)
            /\ Elems(list) \cap used = {}
            /\ Elems(list) \cup used = {<<s, i * ObjSize[c]>> : i \in 0..(TotalObjs(c) - 1)}

(* A slab is in the list that its fill names and in no other; the counts   *)
(* of the lists, of the cache's objects and of those in use are right.     *)
ListsMatchUse ==
    \A c \in Cache :
        LET k == h.cache[c]
            used(s) == h.slab[s].used_objs - Cardinality(InFlight(s))
        IN  /\ \A s \in Elems(k.full) : used(s) = 0
            /\ \A s \in Elems(k.partial) : used(s) \in 1..(TotalObjs(c) - 1)
            /\ \A s \in Elems(k.empty) : used(s) = TotalObjs(c)
            /\ Len(k.full) = k.full_count /\ Len(k.partial) = k.partial_count
            /\ Len(k.empty) = k.empty_count
            /\ Cardinality(Owned(c)) = k.full_count + k.partial_count + k.empty_count
            /\ k.total_objs = TotalObjs(c) * Cardinality(Owned(c))
            /\ k.allocated = Cardinality({a \in live : a[1] \in Owned(c)})
                   + Cardinality({p \in CPU : freeing[p] # NULL /\ freeing[p][2] = c})

(* Every block of pages is free, or a slab of one cache, or one big        *)
(* allocation: none leaks and none is shared.                              *)
PagesConserved ==
    /\ h.pool \cup big \cup (UNION {Owned(c) : c \in Cache}) = Slab
    /\ h.pool \cap big = {}
    /\ \A c \in Cache : /\ Owned(c) \cap (h.pool \cup big) = {}
                         /\ \A d \in Cache : c # d => Owned(c) \cap Owned(d) = {}

(* From the page flags kfree tells a slab's object from a big block, and   *)
(* finds the slab of every object, on whichever of its pages it lies.      *)
FreeFindsSlab ==
    /\ \A a \in live : "buddy" \notin h.flags[PageOf(a)] /\ _find_corresponding_slab(a) = a[1]
    /\ \A s \in big : h.flags[<<s, 0>>] = {"buddy"}
    /\ \A s \in h.pool, i \in 0..(NPages - 1) : h.flags[<<s, i>>] = {}

(* The sanity checks of cache_alloc: a partial slab has a free object, and *)
(* one whose last object is handed out has none left.                      *)
PartialHasFree ==
    \A c \in Cache : lock[c] = NULL =>
        \A s \in Elems(h.cache[c].partial) :
            /\ h.slab[s].freelist # <<>>
            /\ h.slab[s].used_objs + 1 = h.slab[s].total_objs => Len(h.slab[s].freelist) = 1
=============================================================================
