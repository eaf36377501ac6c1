-------------------------------- MODULE Boot --------------------------------
(***************************************************************************)
(* The memory side of kernel_entry (src/kmain.c): allocator_init,          *)
(* init_vmm, the mappings of parse_acpi and init_ioapic, boot_other_cores, *)
(* and the mappings that uACPI and the PCI drivers ask for later.          *)
(***************************************************************************)
EXTENDS EarlyMem, PageMap, SmpBoot

CONSTANTS
    Hhdm,           \* hhdm->offset, in pages
    LapicPage,      \* lapic_address
    VirtualBase,    \* kernel_address->virtual_base, in pages
    Sections,       \* the sections of the kernel: start and length, in pages
    AcpiPages,      \* pages of the ACPI tables and I/O APICs, a sequence
    ConfigSpaces,   \* pages of PCI configuration space
    Bars,           \* the registers of NVMe controllers: first page, pages
    UacpiMaps       \* what uACPI maps: address and length, in units

VARIABLES
    stage,          \* of kernel_entry
    order,          \* of buddy_init's loop
    todo            \* the mappings that the current stage has still to make
vars == <<emvars, pmvars, smpvars, stage, order, todo>>

Init ==
    /\ EmInit /\ SmpInit
    /\ pm = NoMap /\ want = [va \in VA |-> NoPage]
    /\ stage = "early" /\ order = 0 /\ todo = <<>>

\* allocator_init and buddy_init.
AllocatorInit ==
    /\ stage = "early" /\ MemInit /\ stage' = "bitmaps"
    /\ UNCHANGED <<pmvars, smpvars, order, todo>>
BuddyBitmap ==
    /\ stage = "bitmaps" /\ order <= BUDDY_HIGH_ORDER
    /\ Bitmap(order) /\ order' = order + 1
    /\ UNCHANGED <<pmvars, smpvars, stage, todo>>
OutOfMemory ==
    /\ \/ stage = "early" /\ MemInitFails
       \/ stage = "bitmaps" /\ order <= BUDDY_HIGH_ORDER /\ BitmapFails(order)
    /\ stage' = "panic"
    /\ UNCHANGED <<pmvars, smpvars, order, todo>>
BuddyExit ==
    /\ stage = "bitmaps" /\ order > BUDDY_HIGH_ORDER
    /\ MemExit /\ stage' = "vmm"
    /\ UNCHANGED <<pmvars, smpvars, order, todo>>

-----------------------------------------------------------------------------
(* init_kpm *)

Page(x) == x \div PAGE_SIZE
Pages(start, length) == Page(AlignUp(start + length, PAGE_SIZE)) - Page(start)
Pagewise(p, n) == [v |-> p + Hhdm, p |-> p, n |-> n, flags |-> {"W"}, ct |-> "none"]
Linear(v, p, n, flags, ct) == [v |-> v, p |-> p, n |-> n, flags |-> flags, ct |-> ct]

\* A small page that is mapped by itself, into the hhdm.
Single(p) == Pagewise(p, 1)

\* The pages of an early allocation.
EarlyRequest(r) == Pagewise(Page(r.start), Pages(r.start, r.length))

\* The framebuffer is rounded to pages, memory is not: mmu_map_range_linear
\* panics when an end of it is off a page boundary.
Rounded(e) ==
    LET p == Page(e.start)
        n == Page(AlignUp(e.length, PAGE_SIZE))
    IN  Linear(p + Hhdm, p, n, {"W", "NX"}, "MCT_WRITE_COMBINING")
Whole(e) ==
    LET p == Page(e.start) IN Linear(p + Hhdm, p, Page(e.length), {"W"}, "MCT_WRITE_BACK")

\* Mutant: everything the memory map names is mapped.
EntryRequest_All(e) == IF e.type = "FRAMEBUFFER" THEN <<Rounded(e)>> ELSE <<Whole(e)>>

\* An entry of the memory map: usable and bootloader memory, the framebuffer.
EntryRequest(e) ==
    CASE e.type = "FRAMEBUFFER" -> <<Rounded(e)>>
      [] e.type \in {"USABLE", "BOOTLOADER_RECLAIMABLE"} -> <<Whole(e)>>
      [] OTHER -> <<>>

\* A section of the kernel, at its place behind the physical base.
PhysicalBase ==
    Page(limine[CHOOSE j \in DOMAIN limine : limine[j].type = "KERNEL_AND_MODULES"].start)
SectionRequest(s) ==
    Linear(VirtualBase + s.start, PhysicalBase + s.start, s.length, s.flags,
           "MCT_WRITE_BACK")

KpmRequests ==
    <<Single(LapicPage)>>
    \o [j \in DOMAIN mappings |-> EarlyRequest(mappings[j])]
    \o FlattenSeq([j \in DOMAIN memmap |-> EntryRequest(memmap[j])])
    \o [j \in DOMAIN Sections |-> SectionRequest(Sections[j])]

\* The frames the buddy allocator has: the pages of the usable ranges.
Frames == UNION {Page(r.start) .. Page(r.start + r.length) - 1 : r \in UsableRanges(memmap)}

\* No entry is mapped off a page boundary (otherwise init_kpm panics: the step
\* would be missing, a deadlock).
MemmapAligned ==
    \A j \in DOMAIN memmap : memmap[j].type \in {"USABLE", "BOOTLOADER_RECLAIMABLE"} =>
        memmap[j].start % PAGE_SIZE = 0 /\ memmap[j].length % PAGE_SIZE = 0
InitVmm ==
    /\ stage = "vmm" /\ MemmapAligned
    /\ pm' = PmInit(Frames) /\ todo' = KpmRequests /\ stage' = "kpm"
    /\ UNCHANGED <<emvars, want, smpvars, order>>

\* One mapping of init_kpm, parse_acpi or init_ioapic.
MapNext ==
    /\ stage \in {"kpm", "acpi"} /\ todo # <<>>
    /\ LET r == Head(todo) IN
       \/ r.ct # "none" /\ DoMapRange(r.v, r.p, r.n, r.flags, r.ct)
       \/ r.ct = "none" /\ DoMapPages(r.v, r.p, r.n, r.flags)
    /\ todo' = Tail(todo)
    /\ UNCHANGED <<emvars, smpvars, stage, order>>

\* mmu_set_ctx, then parse_acpi and init_ioapic.
ParseAcpi ==
    /\ stage = "kpm" /\ todo = <<>>
    /\ stage' = "acpi" /\ todo' = [j \in DOMAIN AcpiPages |-> Single(AcpiPages[j])]
    /\ UNCHANGED <<emvars, pmvars, smpvars, order>>
AcpiDone ==
    /\ stage = "acpi" /\ todo = <<>> /\ stage' = "smp"
    /\ UNCHANGED <<emvars, pmvars, smpvars, order, todo>>

-----------------------------------------------------------------------------
(* boot_other_cores, and kernel_main on the bsp once interrupts are enabled. *)

Smp ==
    /\ stage = "smp" /\ SmpNext
    /\ UNCHANGED <<emvars, pmvars, stage, order, todo>>
Running == stage = "smp" /\ At(Bsp, "running")

\* uacpi_kernel_map
UacpiMap(m) ==
    /\ Running
    /\ DoMapRange(Page(m.addr) + Hhdm, Page(m.addr), Page(AlignUp(m.len, PAGE_SIZE)), {"W"},
                  "MCT_WRITE_BACK")
    /\ UNCHANGED <<emvars, smpvars, stage, order, todo>>

\* pci_dev_calc_phys: the configuration space of a function.
MapConfigSpace(p) ==
    /\ Running
    /\ DoMapPages(p + Hhdm, p, 1, {"W", "NX", "PCD"})
    /\ UNCHANGED <<emvars, smpvars, stage, order, todo>>

\* init_nvme_controller: the registers behind bar 0.
MapRegisters(bar) ==
    /\ Running
    /\ DoMapPages(bar.page + Hhdm, bar.page, bar.n, {"W", "NX", "PCD"})
    /\ UNCHANGED <<emvars, smpvars, stage, order, todo>>

Panic == (stage = "panic" \/ cpus[Bsp].pc = "panic") /\ UNCHANGED vars

Next ==
    \/ AllocatorInit \/ BuddyBitmap \/ OutOfMemory \/ BuddyExit \/ InitVmm \/ MapNext
    \/ ParseAcpi \/ AcpiDone \/ Smp \/ Panic
    \/ \E m \in UacpiMaps : UacpiMap(m)
    \/ \E p \in ConfigSpaces : MapConfigSpace(p)
    \/ \E bar \in Bars : MapRegisters(bar)
Spec == Init /\ [][Next]_vars

-----------------------------------------------------------------------------
\* The frames of the kernel's code are reached through no writable mapping: neither
\* an early allocation, a usable range, a table of the page map nor a later
\* mapping of uACPI or a driver overlaps what init_kpm maps without MAF_WRITE.
TextReadOnly ==
    pm # NoMap =>
        LET text == PhysicalBase + Sections[1].start ..
                        PhysicalBase + Sections[1].start + Sections[1].length - 1 IN
        /\ \A va \in VA : LET t == Virt2Phys(pm, va) IN
              t # NoPage /\ t.pa \in text => "W" \notin t.bits
        /\ DOMAIN pm.tbl \intersect text = {}

\* early_mem_statistics "can be called even after early_mem_exit()": what buddy_init
\* takes as frame_allocator_free is the number of pages that are free.
FreePagesExact ==
    stage = "vmm" => free * PAGE_SIZE = UsableUnits(memmap)
=============================================================================
