---------------------------- MODULE DiskPartition ----------------------------
(***************************************************************************)
(* Partitions of an NVMe drive (src/driver/disk_partition.c, device.c):    *)
(* partition_disk_device reads the partition table through the cached      *)
(* device of NvmeCache and creates a device for each partition; afterwards *)
(* the partitions' read and write functions share the drive's device.      *)
(*                                                                         *)
(* How a table is encoded in bytes is given by GptHeader, GptEntry and     *)
(* Mbr.                                                                    *)
(***************************************************************************)
EXTENDS NvmeCache

CONSTANTS
    GptHeader(_),   \* bytes of LBA 1 -> [gpt, pea, count, esize]
    GptEntry(_),    \* bytes of an entry -> [used, start, end]
    Mbr(_),         \* bytes of LBA 0 -> [valid, entries], four of [used, start, nsectors]
    PartRequest     \* the calls of the partitions' read and write: [p, op, off, count, val]

VARIABLES
    table,      \* where partition_disk_device is, with its locals
    parts,      \* the partition devices, by partition number
    owner       \* the partition whose request holds the drive, or 0
pvars == <<vars, table, parts, owner>>

\* The block size of the drive's device (device_init in init_nvme_controller),
\* which its partitions inherit: a logical block, not a cached one.
bsize == LbaSize

PartInit ==
    /\ Init
    /\ table = [at |-> "start"] /\ parts = <<>> /\ owner = 0

Read(off, count) == [op |-> "read", off |-> off, count |-> count, val |-> NoData[0]]

\* device_init of struct partition_device, for partition number n.
NewPart(n, start, bcount) == (n :> [start |-> start, bcount |-> bcount])

ReadHeader ==
    /\ table.at = "start"
    /\ Begin(Read(bsize, bsize))
    /\ table' = [at |-> "header"]
    /\ UNCHANGED <<parts, owner>>

\* The signature decides between the two kinds of table.
HeaderRead ==
    /\ table.at = "header"
    /\ Return
    /\ LET h == GptHeader(buf) IN
       table' = IF h.gpt THEN [at |-> "entry", i |-> 0, pos |-> h.pea * bsize, h |-> h]
                         ELSE [at |-> "mbr"]
    /\ UNCHANGED <<parts, owner>>

ReadEntry ==
    /\ table.at = "entry" /\ table.i < table.h.count
    /\ Begin(Read(table.pos, table.h.esize))
    /\ UNCHANGED <<table, parts, owner>>

\* Mutant: the length of a partition leaves out its last block.
EntryRead_Short ==
    /\ table.at = "entry"
    /\ Return
    /\ LET e == GptEntry(buf) IN
       parts' = IF e.used THEN NewPart(table.i + 1, e.start, e.end - e.start) @@ parts ELSE parts
    /\ table' = [table EXCEPT !.i = @ + 1, !.pos = @ + table.h.esize]
    /\ UNCHANGED owner

\* An entry with a zero type is skipped.
EntryRead ==
    /\ table.at = "entry"
    /\ Return
    /\ LET e == GptEntry(buf) IN
       parts' = IF e.used THEN NewPart(table.i + 1, e.start, e.end - e.start + 1) @@ parts ELSE parts
    /\ table' = [table EXCEPT !.i = @ + 1, !.pos = @ + table.h.esize]
    /\ UNCHANGED owner

EntriesDone ==
    /\ table.at = "entry" /\ table.i = table.h.count
    /\ table' = [at |-> "done"]
    /\ UNCHANGED <<vars, parts, owner>>

ReadMbr ==
    /\ table.at = "mbr"
    /\ Begin(Read(0, bsize))
    /\ UNCHANGED <<table, parts, owner>>

MbrRead ==
    /\ table.at = "mbr"
    /\ Return
    /\ LET t    == Mbr(buf)
           Used == {i \in 1 .. 4 : t.valid /\ t.entries[i].used}
       IN  parts' = [i \in Used |-> [start |-> t.entries[i].start, bcount |-> t.entries[i].nsectors]]
    /\ table' = [at |-> "done"]
    /\ UNCHANGED owner

DivRoundup(x, y) == (x + y - 1) \div y

\* Mutant: the request is not moved to the partition's start.
PartDev_NoShift(r) ==
    /\ table.at = "done" /\ r.p \in DOMAIN parts
    /\ DivRoundup(r.off + r.count, bsize) <= parts[r.p].bcount
    /\ Begin([op |-> r.op, off |-> r.off, count |-> r.count, val |-> r.val])
    /\ owner' = r.p
    /\ UNCHANGED <<table, parts>>

\* partition_dev_read and partition_dev_write up to the drive's function; a
\* request past the end of the partition returns -1 and changes nothing.
PartDev(r) ==
    /\ table.at = "done" /\ r.p \in DOMAIN parts
    /\ DivRoundup(r.off + r.count, bsize) <= parts[r.p].bcount
    /\ Begin([op |-> r.op, off |-> r.off + parts[r.p].start * bsize,
              count |-> r.count, val |-> r.val])
    /\ owner' = r.p
    /\ UNCHANGED <<table, parts>>

PartReturn == table.at = "done" /\ Return /\ owner' = 0 /\ UNCHANGED <<table, parts>>

InDrive == (Front \/ Full \/ Behind) /\ UNCHANGED <<table, parts, owner>>

PartStep == \/ InDrive \/ ReadHeader \/ HeaderRead \/ ReadEntry \/ EntryRead \/ EntriesDone
            \/ ReadMbr \/ MbrRead \/ PartReturn
PartNext == PartStep \/ \E r \in PartRequest : PartDev(r)
PartSpec == PartInit /\ [][PartNext]_pvars

-----------------------------------------------------------------------------
\* A step changes a byte that readers see only for a write through the partition
\* the byte belongs to: neither the range check and shift of partition_dev_write,
\* nor eviction and write-back on behalf of another partition, nor reading the
\* tables, ever changes a foreign partition or the partition tables.
PartitionConfined == [][
    \A a \in 0 .. Capacity - 1 : Contents'[a] # Contents[a] =>
        /\ owner # 0 /\ req.op = "write"
        /\ a \div bsize - parts[owner].start \in 0 .. parts[owner].bcount - 1]_pvars

\* When partitioning ends, the partition devices are exactly the used entries of the
\* table on the drive, with all blocks from first to last: reading the entries one
\* by one through the cache, whole or in parts of blocks, loses or shifts none.
PartitionsMatchTable ==
    table.at = "done" =>
    LET At(o, n) == [j \in 1 .. n |-> disk[o + j - 1]]
        h        == GptHeader(At(bsize, bsize))
        G(i)     == GptEntry(At(h.pea * bsize + (i - 1) * h.esize, h.esize))
        t        == Mbr(At(0, bsize))
        First(i) == IF h.gpt THEN G(i).start ELSE t.entries[i].start
        Last(i)  == IF h.gpt THEN G(i).end ELSE t.entries[i].start + t.entries[i].nsectors - 1
    IN  /\ DOMAIN parts = IF h.gpt THEN {i \in 1 .. h.count : G(i).used}
                          ELSE {i \in 1 .. 4 : t.valid /\ t.entries[i].used}
        /\ \A i \in DOMAIN parts : /\ parts[i].start = First(i)
                                   /\ parts[i].start + parts[i].bcount - 1 = Last(i)
=============================================================================
