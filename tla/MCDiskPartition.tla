--------------------------- MODULE MCDiskPartition ---------------------------
(***************************************************************************)
(* A drive of eight blocks of two bytes with three cached blocks.  Blocks  *)
(* 0 to 3 hold the tables; partition 1 is blocks 4 to 6 and the other one  *)
(* block 7.  The GPT has three entries of a byte, the second one empty.    *)
(***************************************************************************)
EXTENDS DiskPartition

MCHash(b) == IF b = 5 THEN 1 ELSE 0
MCByte == {0, 1, 2}
MCGptHeader(b) == [gpt |-> b[1] = 2, pea |-> 2, count |-> 3, esize |-> 1]
MCEntry(x) == [used |-> x # 0, start |-> IF x = 1 THEN 4 ELSE 7, end |-> IF x = 1 THEN 6 ELSE 7]
MCGptEntry(b) == MCEntry(b[1])
MCMbr(b) == [valid |-> b[1] = 1,
             entries |-> [i \in 1 .. 4 |-> [used |-> i \in {1, 4}, start |-> IF i = 1 THEN 4 ELSE 7,
                                            nsectors |-> IF i = 1 THEN 3 ELSE 1]]]
Disk(mbr, sig) == [a \in 0 .. 15 |->
    CASE a = 0 -> mbr [] a = 2 -> sig [] a = 4 -> 1 [] a = 6 -> 2 [] OTHER -> 0]
MCInitialDisk == {Disk(0, 2), Disk(1, 0), Disk(0, 0)}

Part(p, op, off, count, val) == [p |-> p, op |-> op, off |-> off, count |-> count, val |-> val]
\* Whole-block writes, reads of parts of blocks, and one request past an end.
MCPartRequest ==
    {Part(1, "read", 3, 3, 0), Part(3, "read", 0, 2, 0), Part(4, "read", 1, 1, 0),
     Part(1, "write", 0, 2, 1), Part(1, "write", 2, 4, 1),
     Part(3, "write", 0, 2, 1), Part(3, "write", 0, 2, 2), Part(4, "write", 0, 2, 1),
     Part(3, "write", 1, 2, 1)}
MCRequest ==
    {[op |-> r.op, off |-> r.off + (IF r.p = 1 THEN 8 ELSE 14), count |-> r.count, val |-> r.val] :
        r \in MCPartRequest}
    \cup {Read(2, 2), Read(0, 2), Read(4, 1), Read(5, 1), Read(6, 1)}
=============================================================================
