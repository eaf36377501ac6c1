------------------------------ MODULE EarlyMem ------------------------------
(***************************************************************************)
(* The allocator used before the buddy allocator exists                    *)
(* (src/mm/mem_init.c), driven by allocator_init and buddy_init            *)
(* (src/mm/frame_alloc.c).                                                 *)
(*                                                                         *)
(* Addresses and lengths are in units of which PAGE_SIZE make a page;      *)
(* physical addresses stand for themselves, without the hhdm offset.       *)
(***************************************************************************)
EXTENDS Naturals, Sequences, FiniteSets, FiniteSetsExt, SequencesExt

CONSTANTS
    PAGE_SIZE,
    SizeofEntry,        \* sizeof(struct memmap_entry)
    SizeofPage,         \* sizeof(struct page)
    BUDDY_HIGH_ORDER,
    MaxAllocations,     \* early_mem_max_allocations
    MemoryMaps          \* the memory maps the bootloader may hand over

ASSUME EarlyMemAssumption ==
    \A L \in MemoryMaps : \A i \in DOMAIN L :
        L[i].type = "USABLE" => L[i].start % PAGE_SIZE = 0 /\ L[i].length % PAGE_SIZE = 0

VARIABLES
    limine,     \* the bootloader's memory map
    memmap,     \* the copy, cut by allocations; <<>> before early_mem_init
    copy,       \* where the copy lies
    mappings,   \* early_mem_mappings
    total,      \* early_mem_total_pages
    usable,     \* early_mem_total_pages_usable
    bytes,      \* early_mem_bytes_allocated
    free        \* frame_allocator_free
emvars == <<limine, memmap, copy, mappings, total, usable, bytes, free>>

AlignDown(x, base) == x - (x % base)
AlignUp(x, base) == AlignDown(x + base - 1, base)

EmInit ==
    /\ limine \in MemoryMaps
    /\ memmap = <<>> /\ copy = [start |-> 0, length |-> 0] /\ mappings = <<>>
    /\ total = 0 /\ usable = 0 /\ bytes = 0 /\ free = 0

\* The entries of map L that can hold size units.
Fits(L, size) == {i \in DOMAIN L : L[i].type = "USABLE" /\ L[i].length >= size}

\* Mutant: the length of the entry is not adjusted.
Cut_KeepLength(ent, size) == [ent EXCEPT !.start = @ + size]

\* The rest of an entry after its first size units are taken.
Cut(ent, size) == [ent EXCEPT !.start = @ + size, !.length = @ - size]

\* early_mem_alloc: first fit; what it makes of the copy L.
Alloc(L, size) == LET i == Min(Fits(L, size)) IN [L EXCEPT ![i] = Cut(@, size)]
Taken(L, size) == [start |-> L[Min(Fits(L, size))].start, length |-> size]

\* early_mem_init, with the allocation of the array of struct page.
CopySpace == Len(limine) * SizeofEntry
Place == limine[Min(Fits(limine, CopySpace))].start
TotalPages == Max({limine[i].start + limine[i].length : i \in DOMAIN limine}) \div PAGE_SIZE
Copied == [i \in DOMAIN limine |->
              IF limine[i].start = Place THEN Cut(limine[i], CopySpace) ELSE limine[i]]
UsableUnits(L) == FoldLeft(LAMBDA n, e : n + (IF e.type = "USABLE" THEN e.length ELSE 0), 0, L)

\* early_mem_statistics
Free(u, b) == u - (b \div PAGE_SIZE)

MemInitFails == Fits(Copied, TotalPages * SizeofPage) = {} /\ UNCHANGED emvars
MemInit ==
    LET size == TotalPages * SizeofPage IN
    /\ Fits(Copied, size) # {}
    /\ copy' = [start |-> Place, length |-> CopySpace]
    /\ memmap' = Alloc(Copied, size)
    /\ mappings' = <<Taken(Copied, size)>>
    /\ bytes' = CopySpace + size
    /\ total' = TotalPages
    /\ usable' = UsableUnits(limine) \div PAGE_SIZE
    /\ free' = Free(usable', bytes')
    /\ UNCHANGED limine

\* One round of buddy_init's loop: the bitmap of an order.
BitmapSize(order) == total \div 2^order + 1
BitmapFails(order) ==
    /\ Len(mappings) <= MaxAllocations => Fits(memmap, BitmapSize(order)) = {}
    /\ UNCHANGED emvars
Bitmap(order) ==
    LET size == BitmapSize(order) IN
    /\ Len(mappings) <= MaxAllocations /\ Fits(memmap, size) # {}
    /\ memmap' = Alloc(memmap, size)
    /\ mappings' = Append(mappings, Taken(memmap, size))
    /\ bytes' = bytes + size
    /\ UNCHANGED <<limine, copy, total, usable, free>>

\* early_mem_exit and the statistics taken after it.  Its sanity check panics
\* unless whole pages have been taken: the step would be missing (a deadlock).
Rounding(ent) ==
    IF ent.type = "USABLE" THEN AlignUp(ent.start, PAGE_SIZE) - ent.start ELSE 0
MemExit ==
    /\ memmap' = [i \in DOMAIN memmap |-> Cut(memmap[i], Rounding(memmap[i]))]
    /\ bytes' = bytes + FoldLeft(LAMBDA n, e : n + Rounding(e), 0, memmap)
    /\ bytes' % PAGE_SIZE = 0
    /\ usable' = usable - (bytes' \div PAGE_SIZE)
    /\ free' = Free(usable', bytes')
    /\ UNCHANGED <<limine, copy, mappings, total>>

-----------------------------------------------------------------------------
Units(r) == r.start .. r.start + r.length - 1
UsableRanges(L) == {L[i] : i \in {j \in DOMAIN L : L[j].type = "USABLE"}}
Claims == {copy} \union ToSet(mappings)

\* The copy of the memory map, every early allocation and every usable range that is
\* left are disjoint and lie in memory the bootloader calls usable, and
\* bytes_allocated is exactly what has been taken: early_mem_init and
\* early_mem_alloc cut the first fitting range each time, early_mem_exit rounds.
EarlyExact ==
    memmap # <<>> =>
        /\ \A r, s \in Claims \union UsableRanges(memmap) :
               r # s => Units(r) \intersect Units(s) = {}
        /\ \A r \in Claims \union UsableRanges(memmap) :
               \E u \in UsableRanges(limine) : Units(r) \subseteq Units(u)
        /\ bytes + UsableUnits(memmap) = UsableUnits(limine)
=============================================================================
