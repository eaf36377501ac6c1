------------------------------ MODULE PageMap ------------------------------
(***************************************************************************)
(* The kernel's page tables (src/arch/x86-64/mmu.c): four levels of tables *)
(* with Fan entries each, and pages of three sizes.                        *)
(*                                                                         *)
(* Addresses are page numbers.  Level 1 is the page table, 2 the page      *)
(* directory, 3 the pdpt, 4 the pml4; an entry of level n maps             *)
(* Fan^(n-1) pages.  Flags are the set of bits that matter.  A map of the  *)
(* kernel is changed under map_page_lock, by one processor at a time.      *)
(***************************************************************************)
EXTENDS Naturals, Sequences, FiniteSets, FiniteSetsExt

CONSTANTS
    Fan,        \* entries per table (512)
    VA          \* the virtual pages that are looked at

VARIABLES
    pm,         \* the tables, the frames left for tables, the pml4 and, as
                \* history, whether a walk ever left the tables
    want        \* history: what was last asked for each page
pmvars == <<pm, want>>

NoPage == [pa |-> "none"]      \* not mapped
NoMap == [pml4 |-> "none"]     \* before init_kpm
Absent == [present |-> FALSE, ps |-> FALSE]
Span(lvl) == Fan^(lvl - 1)
Index(va, lvl) == (va \div Span(lvl)) % Fan
EmptyTable == [i \in 0 .. Fan - 1 |-> Absent]

\* page_calloc of one page: some frame the buddy allocator has, zeroed.
NewTable(M) ==
    LET f == Min(M.frames) IN
    [M EXCEPT !.frames = @ \ {f}, !.tbl = [t \in DOMAIN @ \union {f} |->
                                             IF t = f THEN EmptyTable ELSE @[t]]]

\* force_walk_pagemap_single_lvl: a present entry is followed whatever it
\* is, an absent one gets a new table.
ForceWalk(M, t, i) ==
    LET f == Min(M.frames)
        N == NewTable(M)
    IN  IF M.tbl[t][i].present THEN [M |-> M, t |-> M.tbl[t][i].addr]
        ELSE [M |-> [N EXCEPT !.tbl[t][i] =
                        [present |-> TRUE, ps |-> FALSE, addr |-> f, bits |-> {"W"}]],
              t |-> f]

\* mmu_map_single_page_4k, _2m, _1g for lvl 1, 2, 3: walk down from the pml4
\* to the level and set the entry.  The walk leaves the tables when it takes
\* a large page for one.
RECURSIVE Descend(_, _, _, _, _, _, _)
Descend(M, t, l, va, pa, lvl, bits) ==
    IF l = lvl
    THEN [M EXCEPT !.tbl[t][Index(va, l)] =
              [present |-> TRUE, ps |-> lvl > 1, addr |-> pa, bits |-> bits]]
    ELSE IF M.tbl[t][Index(va, l)].ps THEN [M EXCEPT !.wild = TRUE]
    ELSE LET r == ForceWalk(M, t, Index(va, l)) IN Descend(r.M, r.t, l - 1, va, pa, lvl, bits)
MapPage(M, va, pa, lvl, bits) ==
    IF va % Span(lvl) # 0 \/ pa % Span(lvl) # 0 THEN [M EXCEPT !.panic = TRUE]
    ELSE Descend(M, M.pml4, 4, va, pa, lvl, bits)

\* The switch of mmu_map_range_linear: the bits of a cache type in an entry
\* for a small or a big page.
CacheBits(ct, big) ==
    CASE ct = "MCT_UNCACHEABLE" -> {"PWT", "PAT"}
      [] ct = "MCT_WRITE_BACK" -> {}
      [] ct = "MCT_WRITE_COMBINING" -> {"PCD", "PAT"}
      [] ct = "MCT_WRITE_PROTECTED" -> IF big THEN {} ELSE {"PCD"}
      [] ct = "MCT_WRITE_THROUGH" -> {"PAT"}

Lower(x, lvl) == x - (x % Span(lvl))
Upper(x, lvl) == Lower(x + Span(lvl) - 1, lvl)

\* One of the loops of mmu_map_range_linear: pages of a level from lo to end.
RECURSIVE MapLoop(_, _, _, _, _, _)
MapLoop(M, lo, end, off, lvl, bits) ==
    IF lo >= end THEN [M |-> M, lo |-> lo]
    ELSE MapLoop(MapPage(M, lo + off, lo, lvl, bits), lo + Span(lvl), end, off, lvl, bits)

\* Mutant: the first 2 MiB pages may run over the end of the range.
MapRange_NoAlignDown(M, vbase, pbase, len, flags, ct) ==
    LET off == vbase - pbase
        limit == pbase + len
        small == flags \union CacheBits(ct, FALSE)
        big == flags \union CacheBits(ct, TRUE)
        a == MapLoop(M, pbase, Min({Upper(pbase, 2), limit}), off, 1, small)
        b == MapLoop(a.M, a.lo, Min({Upper(a.lo, 3), limit}), off, 2, big)
        c == MapLoop(b.M, b.lo, Lower(limit, 3), off, 3, big)
        d == MapLoop(c.M, c.lo, Lower(limit, 2), off, 2, big)
    IN  MapLoop(d.M, d.lo, limit, off, 1, small).M

\* mmu_map_range_linear: small, big, huge, big and small pages.
MapRange(M, vbase, pbase, len, flags, ct) ==
    LET off == vbase - pbase
        limit == pbase + len
        small == flags \union CacheBits(ct, FALSE)
        big == flags \union CacheBits(ct, TRUE)
        a == MapLoop(M, pbase, Min({Upper(pbase, 2), limit}), off, 1, small)
        b == MapLoop(a.M, a.lo, Min({Upper(a.lo, 3), Lower(limit, 2)}), off, 2, big)
        c == MapLoop(b.M, b.lo, Lower(limit, 3), off, 3, big)
        d == MapLoop(c.M, c.lo, Lower(limit, 2), off, 2, big)
    IN  MapLoop(d.M, d.lo, limit, off, 1, small).M

\* mmu_walk_table and virt2phys: the physical page and the bits of the entry,
\* NoPage for the NULL and the 0 they return when there is none.
RECURSIVE WalkTable(_, _, _, _)
WalkTable(M, t, l, va) ==
    LET e == M.tbl[t][Index(va, l)] IN
    IF ~ e.present THEN NoPage
    ELSE IF e.ps \/ l = 1 THEN [pa |-> e.addr + (va % Span(l)), bits |-> e.bits]
    ELSE WalkTable(M, e.addr, l - 1, va)
Virt2Phys(M, va) == WalkTable(M, M.pml4, 4, va)

\* init_kpm: an empty pml4.
PmInit(frames) ==
    LET f == Min(frames) IN
    [tbl |-> [t \in {f} |-> EmptyTable], frames |-> frames \ {f}, pml4 |-> f,
     wild |-> FALSE, panic |-> FALSE]

\* The steps: a range, or single small pages with the bits given.
Asked(vbase, pbase, len, bits) ==
    [va \in VA |-> IF va \in vbase .. vbase + len - 1
                   THEN [pa |-> pbase + (va - vbase), bits |-> bits] ELSE want[va]]
DoMapRange(vbase, pbase, len, flags, ct) ==
    /\ pm' = MapRange(pm, vbase, pbase, len, flags, ct)
    /\ want' = Asked(vbase, pbase, len, flags \union CacheBits(ct, FALSE))
DoMapPages(vbase, pbase, len, bits) ==
    /\ pm' = MapLoop(pm, pbase, pbase + len, vbase - pbase, 1, bits).M
    /\ want' = Asked(vbase, pbase, len, bits)

\* Every virtual page translates to what was last asked for it, with its access
\* rights and the cache bits of a small page, and nothing else is mapped:
\* whatever sizes mmu_map_range_linear picks, mapping one range never changes
\* another, no walk takes a large page for a table, no alignment check panics.
MapExact ==
    pm # NoMap => /\ ~ pm.wild /\ ~ pm.panic
                  /\ \A va \in VA : Virt2Phys(pm, va) = want[va]
=============================================================================
