------------------------------- MODULE MCBoot -------------------------------
(***************************************************************************)
(* A machine with 52 pages of 16 units; a big page is 4 pages, a huge one  *)
(* 16.  The memory maps differ in where the ranges meet the boundaries of  *)
(* big pages, and two have too little memory.                              *)
(***************************************************************************)
EXTENDS Boot

MCVA == 60 .. 139

Ent(type, from, to) == [type |-> type, start |-> from * PAGE_SIZE, length |-> (to - from) * PAGE_SIZE]
Layout(a, k, b, f) == <<
    Ent("USABLE", 0, a), Ent("ACPI_RECLAIMABLE", a, a + 2), Ent("USABLE", a + 2, k),
    Ent("KERNEL_AND_MODULES", k, k + 7), Ent("BOOTLOADER_RECLAIMABLE", k + 7, k + 7 + b),
    Ent("USABLE", k + 7 + b, f - 1), Ent("FRAMEBUFFER", f, 52)>>
MCMemoryMaps ==
    {Layout(a, k, b, f) : a \in {1, 3}, k \in {8, 10}, b \in {1, 6}, f \in {48, 49}}
    \union {<<Ent("USABLE", 0, a), Ent("KERNEL_AND_MODULES", a, a + 7),
              Ent("USABLE", a + 7, a + 9), Ent("FRAMEBUFFER", 30, 34)>> : a \in {2, 3}}

MCSections == <<[start |-> 0, length |-> 2, flags |-> {}],
                [start |-> 3, length |-> 1, flags |-> {"NX"}],
                [start |-> 5, length |-> 2, flags |-> {"W", "NX"}]>>
MCAcpiPages == <<3, 57>>
MCBars == {[page |-> 52, n |-> 2]}
MCUacpiMaps == {[addr |-> 3 * PAGE_SIZE + 5, len |-> 8], [addr |-> 58 * PAGE_SIZE, len |-> 6 * PAGE_SIZE]}
=============================================================================
