------------------------------ MODULE NvmeCache ------------------------------
(***************************************************************************)
(* The block cache of the NVMe driver and the read and write functions of  *)
(* its devices (src/driver/nvme.c): NCaches cached blocks in a doubly      *)
(* linked list in order of use, a hash map with chains from block numbers  *)
(* to cached blocks, write-back of dirty blocks on eviction.               *)
(*                                                                         *)
(* A device request holds dev->lock from its first to its last step, so    *)
(* there is one request at a time; each call of nvme_read_block or         *)
(* nvme_prep_write_full_block with the copy that follows is one step.      *)
(***************************************************************************)
EXTENDS Integers, Sequences, FiniteSets, TLC

CONSTANTS
    NCaches,        \* NVME_NCACHES
    HashSize,       \* NVME_HASHMAP_SIZE
    Hash(_),        \* nvme_cache_hash_func
    NBlocks,        \* blocks of the namespace
    BlockSize,      \* NVME_BLOCK_SIZE, in bytes
    LbaSize,        \* ns->lba_size, in bytes
    SizeT,          \* 2^w of size_t
    Byte,           \* the values of a byte
    Request,        \* the calls of dev->read and dev->write
    InitialDisk,    \* what the drive may hold at first
    WriteMayFail,   \* whether a write to the drive may fail
    ReadMayFail     \* whether a read from the drive may fail

IDX_INV == -1       \* NVME_IDX_INV, also the null pointer of the lists
NoReq   == [op |-> "none"]
Index   == 0 .. NCaches - 1
Bucket  == 0 .. HashSize - 1
Block   == 0 .. NBlocks - 1
Capacity == NBlocks * BlockSize
Offset  == 0 .. BlockSize - 1

ASSUME NvmeCacheAssumption ==
    /\ NCaches \in Nat \ {0} /\ NBlocks \in Nat \ {0} /\ HashSize \in Nat \ {0}
    /\ \A b \in Block : Hash(b) \in Bucket
    /\ BlockSize \in Nat \ {0} /\ LbaSize \in Nat \ {0} /\ BlockSize % LbaSize = 0
    /\ Request \subseteq [op : {"read", "write"}, off : Nat, count : Nat, val : Byte]
    /\ InitialDisk \subseteq [0 .. Capacity - 1 -> Byte]

VARIABLES
    c,          \* struct nvme_cache_container: cache, LRU list, hash map
    disk,       \* the bytes on the drive
    req,        \* the request that holds dev->lock, or NoReq
    pc, blk,    \* where the request is, and the block its loop is at
    buf,        \* what a read has copied into its buffer
    done        \* bytes_read or bytes_written
vars == <<c, disk, req, pc, blk, buf, done>>

-----------------------------------------------------------------------------
(* The LRU list and the hash map. *)

NoData == [o \in Offset |-> CHOOSE x \in Byte : \A y \in Byte : x <= y]

\* nvme_cache_container_init: the loop pushes 0, 1, ... at the front.
ContainerInit ==
    [status |-> [i \in Index |-> "EMPTY"],
     bid    |-> [i \in Index |-> IDX_INV],
     data   |-> [i \in Index |-> NoData],
     next   |-> [i \in Index |-> i - 1],
     prev   |-> [i \in Index |-> IF i = NCaches - 1 THEN IDX_INV ELSE i + 1],
     head   |-> NCaches - 1,
     tail   |-> 0,
     slot   |-> [h \in Bucket |-> [bid |-> IDX_INV, index |-> IDX_INV]],
     chain  |-> [h \in Bucket |-> <<>>]]

\* nvme_cache_lru_evict: the tail, given a zeroed block on its first use.
LruEvict(k) ==
    IF k.status[k.tail] = "EMPTY"
    THEN [k EXCEPT !.data[k.tail] = NoData, !.status[k.tail] = "VALID"]
    ELSE k

\* Mutant: the tail pointer is not moved when the tail is used.
InformUsage_KeepTail(k, i) ==
    LET p == k.prev[i]
        n == k.next[i]
        k1 == [k EXCEPT !.next = [j \in Index |-> IF j = p THEN n ELSE @[j]],
                        !.prev = [j \in Index |-> IF j = n THEN p ELSE @[j]]]
    IN  IF i = k.head THEN k
        ELSE [k1 EXCEPT !.next[i] = k.head, !.prev[i] = IDX_INV,
                        !.prev[k.head] = i, !.head = i]

\* nvme_cache_inform_usage: unlink the node and put it at the front.
InformUsage(k, i) ==
    LET p == k.prev[i]
        n == k.next[i]
        k1 == [k EXCEPT !.next = [j \in Index |-> IF j = p THEN n ELSE @[j]],
                        !.prev = [j \in Index |-> IF j = n THEN p ELSE @[j]],
                        !.tail = IF i = @ THEN p ELSE @]
    IN  IF i = k.head THEN k
        ELSE [k1 EXCEPT !.next[i] = k.head, !.prev[i] = IDX_INV,
                        !.prev[k.head] = i, !.head = i]

\* The first node of a chain whose block number is b.
ChainPos(ch, b) == CHOOSE j \in DOMAIN ch : ch[j].bid = b /\ \A m \in 1 .. j - 1 : ch[m].bid # b

\* nvme_cache_hashmap_find
HashmapFind(k, b) ==
    LET h == Hash(b) IN
    IF k.slot[h].bid = b THEN k.slot[h].index
    ELSE IF \E j \in DOMAIN k.chain[h] : k.chain[h][j].bid = b
         THEN k.chain[h][ChainPos(k.chain[h], b)].index
         ELSE IDX_INV

\* The first half of nvme_cache_hashmap_update: forget old.
HashmapDrop(k, old) ==
    LET h  == Hash(old)
        ch == k.chain[h]
    IN  IF old = IDX_INV THEN k
        ELSE IF k.slot[h].bid = old
        THEN [k EXCEPT !.slot[h] = [bid |-> IDX_INV, index |-> IDX_INV]]
        ELSE LET j == ChainPos(ch, old) IN
             [k EXCEPT !.chain[h] = SubSeq(ch, 1, j - 1) \o SubSeq(ch, j + 1, Len(ch))]

\* nvme_cache_hashmap_update: forget old, then map b to i, in the array if
\* its place is free, else at the front of the chain.
HashmapUpdate(k, old, b, i) ==
    LET k1 == HashmapDrop(k, old)
        h  == Hash(b)
    IN  IF k1.slot[h].bid = IDX_INV
        THEN [k1 EXCEPT !.slot[h] = [bid |-> b, index |-> i]]
        ELSE [k1 EXCEPT !.chain[h] = <<[bid |-> b, index |-> i]>> \o @]

-----------------------------------------------------------------------------
(* Blocks between cache and drive. *)

\* The first byte on the drive of block b, as nvme_rw_blocking's callers
\* compute its first LBA (all blocks would start at 0 if LBAs were larger).
FirstByte(b) == (BlockSize \div LbaSize) * b * LbaSize

\* nvme_rw_blocking of block b in the two directions, when it succeeds.
DiskRead(d, b) == [o \in Offset |-> d[FirstByte(b) + o]]
DiskWrite(d, b, data) ==
    [a \in DOMAIN d |-> IF a - FirstByte(b) \in Offset THEN data[a - FirstByte(b)] ELSE d[a]]

\* The outcomes of a transfer: the drive refuses a block past its end.
Succeeds(b, mayFail) ==
    {ok \in BOOLEAN : IF ok THEN b \in Block ELSE mayFail \/ b \notin Block}

\* Mutant: a dirty victim is dropped.
WriteBack_Skip(k, d, i) == {[ok |-> TRUE, d |-> d]}

\* The write-back of a dirty victim i: its outcomes.
WriteBack(k, d, i) ==
    IF k.status[i] # "DIRTY" THEN {[ok |-> TRUE, d |-> d]}
    ELSE {[ok |-> ok, d |-> IF ok THEN DiskWrite(d, k.bid[i], k.data[i]) ELSE d] :
             ok \in Succeeds(k.bid[i], WriteMayFail)}

\* The victim i becomes block b with the given status.
Install(k, i, b, status) ==
    InformUsage([HashmapUpdate(k, k.bid[i], b, i) EXCEPT !.bid[i] = b, !.status[i] = status], i)

\* nvme_read_block: its outcomes, the failed ones with idx = IDX_INV.  A
\* read that fails may have overwritten the victim's block.
ReadBlock(k, d, b) ==
    LET hit == HashmapFind(k, b)
        k1  == LruEvict(k)
        i   == k.tail
    IN  IF hit # IDX_INV THEN {[idx |-> hit, k |-> InformUsage(k, hit), d |-> d]}
        ELSE UNION {
            IF ~ w.ok THEN {[idx |-> IDX_INV, k |-> k1, d |-> d]}
            ELSE {IF ok
                  THEN [idx |-> i, d |-> w.d,
                        k |-> Install([k1 EXCEPT !.data[i] = DiskRead(w.d, b)], i, b, "VALID")]
                  ELSE [idx |-> IDX_INV, d |-> w.d, k |-> k1]
                  : ok \in Succeeds(b, ReadMayFail)}
                 \cup {[idx |-> IDX_INV, d |-> w.d, k |-> [k1 EXCEPT !.data[i] = DiskRead(w.d, b)]]
                  : x \in {b} \cap (IF ReadMayFail THEN Block ELSE {})}
            : w \in WriteBack(k1, d, i)}

\* nvme_prep_write_full_block: as ReadBlock, without reading; dirty.
PrepWriteFullBlock(k, d, b) ==
    LET hit == HashmapFind(k, b)
        k1  == LruEvict(k)
        i   == k.tail
    IN  IF hit # IDX_INV
        THEN {[idx |-> hit, d |-> d,
               k |-> InformUsage([k EXCEPT !.status[hit] = IF @ = "VALID" THEN "DIRTY" ELSE @], hit)]}
        ELSE {IF w.ok THEN [idx |-> i, k |-> Install(k1, i, b, "DIRTY"), d |-> w.d]
                      ELSE [idx |-> IDX_INV, k |-> k1, d |-> d]
              : w \in WriteBack(k1, d, i)}

-----------------------------------------------------------------------------
(* nvme_read and nvme_write. *)

AlignDown(x) == (x \div BlockSize) * BlockSize
AlignUp(x)   == AlignDown(x + BlockSize - 1)
Least(a, b)  == IF a < b THEN a ELSE b

BlockLo(r) == AlignUp(r.off) \div BlockSize
BlockHi(r) == (AlignDown(r.off + r.count) \div BlockSize - 1) % SizeT

Init ==
    /\ c = ContainerInit
    /\ disk \in InitialDisk
    /\ req = NoReq /\ pc = "idle" /\ blk = 0 /\ buf = <<>> /\ done = 0

\* spin_lock_global(&dev->lock) and the bounds.
Begin(r) ==
    /\ pc = "idle"
    /\ req' = r /\ pc' = "front" /\ blk' = BlockLo(r) /\ done' = 0 /\ buf' = <<>>
    /\ UNCHANGED <<c, disk>>

\* The memcpy between bytes from .. from + n - 1 of cached block i and the
\* request's buffer.
Copy(r, i, from, n) ==
    /\ done' = done + n
    /\ IF req.op = "read"
       THEN /\ buf' = buf \o [j \in 1 .. n |-> r.k.data[i][from + j - 1]]
            /\ c' = r.k
       ELSE /\ c' = [r.k EXCEPT !.data[i] =
                        [o \in Offset |-> IF from <= o /\ o < from + n THEN req.val ELSE @[o]]]
            /\ UNCHANGED buf

\* One block of the request: get it into the cache by way of its outcomes,
\* copy n bytes and go to then; a failure ends the request.
UseBlock(outcomes, from, n, then) ==
    \E r \in outcomes :
        /\ disk' = r.d
        /\ IF r.idx = IDX_INV
           THEN c' = r.k /\ pc' = "end" /\ UNCHANGED <<buf, done>>
           ELSE Copy(r, r.idx, from, n) /\ pc' = then

\* The unaligned bytes in front, always by nvme_read_block.
Front ==
    /\ pc = "front"
    /\ IF req.off % BlockSize = 0
       THEN pc' = "full" /\ UNCHANGED <<c, disk, buf, done>>
       ELSE UseBlock(ReadBlock(c, disk, req.off \div BlockSize), req.off % BlockSize,
                     Least(req.count, BlockSize - (req.off % BlockSize)), "full")
    /\ UNCHANGED <<req, blk>>

\* The loop over the full blocks.
Full ==
    /\ pc = "full" /\ blk <= BlockHi(req)
    /\ UseBlock(IF req.op = "read" THEN ReadBlock(c, disk, blk)
                                   ELSE PrepWriteFullBlock(c, disk, blk),
                0, BlockSize, "full")
    /\ blk' = blk + 1
    /\ UNCHANGED req

\* The block of the bytes behind the full ones, as both functions compute it.
Rest(r) == (BlockHi(r) + 1) % SizeT

\* The bytes behind the last full block, always by nvme_read_block.
Behind ==
    /\ pc = "full" /\ blk > BlockHi(req)
    /\ IF done < req.count
       THEN UseBlock(ReadBlock(c, disk, Rest(req)), 0, req.count - done, "end")
       ELSE pc' = "end" /\ UNCHANGED <<c, disk, buf, done>>
    /\ UNCHANGED <<req, blk>>

\* fail: unlock and return the number of bytes.
Return ==
    /\ pc = "end"
    /\ req' = NoReq /\ pc' = "idle" /\ blk' = 0 /\ buf' = <<>> /\ done' = 0
    /\ UNCHANGED <<c, disk>>

Step == Front \/ Full \/ Behind \/ Return
Next == (\E r \in Request : Begin(r)) \/ Step
Spec == Init /\ [][Next]_vars /\ WF_vars(Step)

-----------------------------------------------------------------------------
\* The entries of the LRU list from i on, along next.
Listed[i \in Index \cup {IDX_INV}, n \in 0 .. NCaches] ==
    IF i = IDX_INV \/ n = 0 THEN <<>> ELSE <<i>> \o Listed[c.next[i], n - 1]

\* Whatever order blocks are used, evicted and collide in, the list links every
\* entry exactly once between head and tail in both directions, so that
\* nvme_cache_lru_evict takes the least recently used one, and the hash map finds
\* a block exactly at the entry that holds it: no block is cached twice, which
\* would let the two copies drift apart.
CacheConsistent ==
    LET l == Listed[c.head, NCaches] IN
    /\ Len(l) = NCaches
    /\ {l[j] : j \in 1 .. NCaches} = Index
    /\ l[NCaches] = c.tail
    /\ c.next[c.tail] = IDX_INV /\ c.prev[c.head] = IDX_INV
    /\ \A j \in 1 .. NCaches - 1 : c.prev[l[j + 1]] = l[j]
    /\ \A b \in Block, i \in Index : (HashmapFind(c, b) = i) <=> (c.bid[i] = b)

\* The bytes a reader should see: cached ones before those of the drive.
Contents == [a \in 0 .. Capacity - 1 |->
    LET i == HashmapFind(c, a \div BlockSize) IN
    IF i = IDX_INV THEN disk[a] ELSE c.data[i][a % BlockSize]]

\* The cache is invisible: through hits, misses, evictions, write-backs and
\* failed write-backs, the device behaves as an array of bytes in which only
\* write requests change bytes and reads return them (the comments of nvme_read
\* and nvme_write: "Read count bytes starting at off into buf", "Write count bytes
\* starting at off").  It is checked for reads of any part of the drive and writes
\* of whole blocks, on a drive whose reads succeed.
BD == INSTANCE BlockDev WITH contents <- Contents
ImplementsBlockDev == BD!Spec
=============================================================================
