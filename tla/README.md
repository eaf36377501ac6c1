# TLA+ models of MunkOS

MunkOS is a preemptive, SMP-enabled x86-64 kernel. This directory holds TLA+
models of its concurrent, allocating and pointer-heavy parts, the TLC
configurations that check them on small instances, and TLAPS proofs of the most
important facts for instances of every size. Paths below are relative to
`kernel/src`.

## 1. The system and its parts

| Part | Source | State | Operations | Model |
|---|---|---|---|---|
| Locking primitives | `std/locking.c` | lock word, saved interrupt flag, IF of each processor | preempt brackets, `spin_lock_global`, `spin_unlock_global`, `spin_lock_timeout` | `Spinlock` |
| Page allocator | `mm/frame_alloc.c` | a free list and a bitmap per order | `buddy_init`, `buddy_alloc`, `buddy_free` | `Buddy`, contract `PageAlloc` |
| Kernel heap | `mm/slab.c` | caches with full/partial/empty slabs, free lists, flags in `struct page` | `kmalloc`, `kfree` | `Slab` |
| Run queues | `proc/scheduler.c:38-136` | head, tail, count per queue, one pair of links per task | insert front/back, remove, pop | `RunQueue` |
| Scheduler | `proc/scheduler.c` | task states, queues, current thread of each processor | preempt, select, switch, sleep, wake, yield, exit, reap, create | `Scheduler` |
| Kernel events | `misc/kevent.c` | subscribers, unprocessed launches, lock of each event | poll, subscribe, unsubscribe, launch | `Scheduler` |
| System timers | `misc/time.c` | binary min-heap of timers, tick counter | register, tick handler | `TimerHeap`, contract `TimerQueue`; armed timers in `Scheduler` |
| Red-black tree | `std/rbtree.c` | nodes, colours, the shared leaf | insert, remove, find | `RbTree`, contract `KeySet` |
| Block cache | `driver/nvme.c:100-300, 730-820` | LRU list, hash map with chains, dirty blocks | read, write, evict | `NvmeCache`, contract `BlockDev` |
| Partitions | `driver/disk_partition.c`, `driver/device.c` | partition devices over the cached drive | read GPT or MBR, partition read and write | `DiskPartition` |
| NVMe queues, controller | `driver/nvme.c:300-730` | submission and completion rings, phase tags | initialise, submit, poll, blocking transfer | `NvmeQueue`, `NvmeDriver` |
| VFS, ramfs, path cache | `fs/`, `std/pathn.c` | vnodes, cache entries with chains, mounted file systems | mount, create, look up, read, write, evict | `Vfs`, contract `FileTree` |
| Early memory allocator | `mm/mem_init.c` | copy of the memory map, list of allocations | init, alloc, exit, statistics | `EarlyMem` |
| Page maps | `arch/x86-64/mmu.c` | four levels of tables | map a page of each size, map a range, walk, `init_kpm` | `PageMap` |
| Processor start-up | `arch/x86-64/smp.c`, `cpu/apic.c` | start-up counter, calibration state, routing, vector | processor entry, calibration, wait | `SmpBoot` |
| Kernel entry | `kmain.c` | stage of the boot | allocator, paging, ACPI, processors, later mappings | `Boot` (composes the three above) |

`PROJECT.json` lists the remaining parts (formatting, port I/O, descriptor
tables, empty file systems) with the reason why each is left out.

How they interact: everything that shares state does so under spinlocks that
also turn interrupts off. `kmalloc` sits on the page allocator, which starts from
what the early allocator leaves. A thread sleeps by registering a timer and
polling the timer's event; the timer interrupt (on the boot processor only) pops
the heap and launches the event, which wakes its subscribers through the
scheduler. An exiting thread launches `reap_event`; the reaper thread, above all
workers in priority, frees it. Partitions share the drive's cached device, which
moves blocks with blocking transfers over the namespace's queue pair. The path
name cache keeps the entries of a directory in a red-black tree by hash.

What makes it hard: interrupts between any two instructions that run with IF
set; several processors between any two accesses to shared memory; a wake-up
that races going to sleep; memory that is reused while somebody still holds a
pointer; rings whose entries are told apart by one phase bit; a cache that must
be invisible while write-backs fail; structures whose correctness depends on a
long history (a single bit per pair of buddies, one pair of links for all
queues, flags left in `struct page`, a sentinel that remembers a parent).

## 2. Modules

Each module has its state, `Init`, one action per operation or step, `Next`,
`Spec`, and its properties at the end. `X_Y` next to a definition `X` is a
mutated form of it that represents a plausible mistake; no specification uses it.

**Spinlock.** Every processor has a stack of open brackets (preempt bracket,
locked region, interrupt handler, uACPI mutex). The grain is one access to
shared memory: `spin_lock_global` writes `old_state` (`SpinLockGlobal`), then
wins the word (`SpinLock`); `spin_unlock_global` clears the word (`SpinUnlock`),
then reads `old_state` back (`SpinUnlockGlobal`). Callers are abstracted to the
constants `CallSites` (lock and IF at the call) and `Nests` (lock taken below
another). The panic after ten million failed attempts is not an action;
`NoSelfDeadlock` states that the situation it reports does not arise.

**Buddy / PageAlloc.** `PageAlloc` is the contract of `page_alloc`/`page_free`:
blocks handed out are aligned, usable, and disjoint. `Buddy` takes one
loop iteration of `buddy_init`, `buddy_alloc` and `buddy_free` per step; free
lists are sets (the order in which equal blocks are handed out is irrelevant to
callers), the bitmaps are functions from pairs to bits, as in the code. The lock
is held throughout, so one call is active at a time. Orders are arbitrary
(`order2size`).

**Slab.** Descriptors live in the `struct page` of a slab's first page and keep
what they say after the pages are given back, as in the code. `kmalloc` is one
step (the cache's lock is held, interrupts are off); a request above the
largest cache gets a block of pages whatever its size (`AllocBig`); `kfree` is two, because
`_attempt_free_full` may free the slab that `kfree` goes on using (`FreeObject`,
then `FreeCount`). Page blocks are the model values `Slab`; the page allocator
gives any free one.

**RunQueue / Scheduler.** `RunQueue` has the four queue operations as functions
from links to links. In `Scheduler`, `at[t]` is where a thread's code is, and its
saved context while nobody runs it. `cpu[c]` is what a processor executes: the
code of the thread whose stack it is on, or kernel code on top of that stack. A
step is one critical section or one access to shared state, so a task passes
visibly between queues (`PreemptEnqueue`, `WakeRemove`, `WakeReady`,
`WakeInsert`, ...). `IntrOn` says where interrupts are accepted: nowhere inside
`kevents_poll`, exit or a handler. That is what the code's brackets intend, and
what they achieve on one processor (`PreemptionRestoredHolds`). On several, a waiter
that overwrites `old_state` (section 5) may turn interrupts on earlier, upon which
`switch_to_next_task` or `switch2task` panics; so no property is claimed there, and
two processors appear only in a run that ends in a violation, whose steps involve no
contended lock. Each worker's timer event carries the worker's name. `EagerTimers = FALSE` restricts timers to those that expire after their
thread has subscribed, i.e. to time-outs longer than the thread's way from
`register_system_timer` to the subscription; `TRUE` drops that restriction.
`scheduler_preempt`'s branch for KILLED threads has no action: a thread is marked by
its own exit, with interrupts off until it is gone, or when its parent is cleaned up,
and the parent of all is `kernel_task`, which never exits. The
workload (`Ops`) is that of `kmain.c`: threads sleep, create threads and exit.

**TimerHeap / TimerQueue.** `TimerQueue` is the promise: a registered timer is
launched by the first tick at which it is due, earlier ones first. `TimerHeap`
does one swap of the sift-up or of `min_heapify` per step, so that an insertion
on another processor can fall in between: `timer_insert` takes no lock (it is
commented out). A read of an entry that is no timer returns any value.

**RbTree / KeySet.** The nodes of the C code with parent and child pointers,
including the shared leaf `RB_NIL`, in which `tree_remove` stores a parent that
the fix-up starts from. An operation is one step; its loops are recursive
operators, one iteration per unfolding. `KeySet` is a set of keys. `Vfs` uses the
tree as a map from keys to chains, which this refinement justifies.

**BlockDev / NvmeCache / DiskPartition.** `BlockDev` is a device as its callers
see it: an array of bytes under one request at a time. In `NvmeCache` every call
of `nvme_read_block` or `nvme_prep_write_full_block`, with the eviction and
write-back in it and the copy that follows, is one step; the refinement mapping
reads the cached blocks over the drive. A transfer to the drive may fail at each
of these. `DiskPartition` runs `partition_disk_device` over that device, reading
the table through the cache, and afterwards the partitions' own
requests, with the checks of their bounds, in logical blocks (`bsize`).
`NvmeCacheAssumption` has these no larger than a cached block. How a table is encoded is a parameter.

**NvmeQueue / NvmeDriver.** The driver's half of a queue pair (`q`), the rings in
memory (`ring`) and the controller's half (`ctl`, external: modelled from how the
driver uses it). The controller fetches commands in order, completes them in any
order, posts completions with its phase bit, and may let the driver's poll run
into its time-out. A command identifies itself by a tag, because the identifier
the driver assigns never reaches the ring. `NvmeDriver` is `init_nvme_controller`
command by command, then transfers on the device made last, the only one that is
handed on (`tempdev`), with the data pointers computed from the page frames of a
buffer. The device finds its namespace by a pointer into a vector that may have
moved: `vec.gen` counts the moves. If the pointer leads nowhere, nothing is said of
what follows (`RwUndefined`).

**FileTree / Vfs.** `FileTree` is what absolute paths denote: nothing, a
directory, or a file with contents. `Vfs` has `vfs_create`, `vfs_lookup`,
`vfs_mount` and ramfs reads and writes over cache entries with their chains of
equal hashes; a path is the sequence of its sections. `step` runs the self-test
of `vfs_init` with its own handles; `tree` is a history variable for the
refinement.

**EarlyMem / PageMap / SmpBoot / Boot.** `EarlyMem` cuts allocations from the
front of the memory map's entries as `early_mem_alloc` does. `PageMap` chooses
the page size as `mmu_map_range` does, creates tables on the way and keeps what
was last asked for each page (`want`, history). `SmpBoot` runs
`processor_core_entry` on every processor: `startup_checksum++` is a load and a
store; the I/O APIC entry is written in two halves, between which the interrupt
goes to the processor with local APIC id 0 (`Lapic0`); the PIT interrupt is pending
until its processor enables interrupts, for the calibration or for good
(`EnableInterrupts`); without a handler it ends in `kpanic`, which halts the
others by an interrupt. `Boot` composes the three along
`kernel_entry`: the early allocator's leftovers are the frames that page tables
are made of, the early allocations and the remaining map are what `init_kpm` maps,
and the processors start on that map; afterwards uACPI and drivers map more, while
the other processors run. The `kpanic`s of `early_mem_exit` and
`mmu_map_range_linear` for unaligned memory are guards (`MemExit`, `MemmapAligned`):
they are shown not to happen by the absence of deadlock.

`MC*` modules instantiate these for TLC. `*Proofs` modules hold theorems.

## 3. What the runs check

| Run | Instance | Shows |
|---|---|---|
| `spinlock_uniform` | 2 processors, 2 nested locks, 1 mutex, 4 open brackets | one owner per lock (`MutualExclusion`); each processor's IF is what its own brackets say (`PreemptionRestored`); nobody spins on a lock that its own processor holds (`NoSelfDeadlock`) |
| `buddy_hole` | 11 pages, orders 0-2, two unaligned entries with a hole | boot and every sequence of calls: no page is lost, a call fails only when no block is large enough, `Buddy` implements `PageAlloc` |
| `scheduler_up` | 1 processor, 3 workers, reaper | queues, their links and task states agree; no launch without subscriber; a thread wakes by its own event; reaper's accounts; nothing freed is used; every sleeper wakes, every dead thread is freed |
| `scheduler_smp` | 2 processors, 3 workers that sleep and create one another | `YieldNotEnqueued` fails (section 5) |
| `scheduler_early_timer` | 1 processor, `EagerTimers` | `LaunchHasSubscriber` fails (section 5) |
| `slab_up` | 1 processor, 2 caches, 3 slabs of 2 pages | every object once, lists and counters by fill, page flags, pages conserved, `kfree` finds the right slab |
| `timerheap_up` | 1 processor, 5 timers, 4 ticks, room in the array | no timer lost, implements `TimerQueue` |
| `rbtree` | 8 keys | red-black rules, pointers match in both directions, implements `KeySet` |
| `nvme_cache` | 8 blocks of 2 bytes, 3 cached, GPT, MBR or no table | LRU list, hash map and dirty flags consistent; partitions are those of the table; the cached drive implements `BlockDev`; no partition touches another |
| `nvme_queue` | 3 pairs beside the admin pair, rings of 15, 5 namespace lists | a completion that is taken is fresh and the one waited for; no command lost or taken twice; the device points to its own context exactly when no list entry was skipped before it; data pointers cover the buffer |
| `vfs` | 3 names of one hash, 2 file systems; or the self-test | cache chains exact, backtraces lead back, the self-test's asserts, implements `FileTree` |
| `bootmem` | 18 memory maps, 3 processors, the bsp not the first | early memory carved up exactly, every page maps to what was last asked, kernel text reached through no writable mapping, processors ready when the bsp goes on, each calibrated on its own timer |

Why the bounds are enough to be of interest: two processors suffice for every
pairwise race; depth 4 lets an interrupt handler nest two locks on top of an
interrupted critical section; orders 0-2 give splits and merges over two levels,
and the hole gives blocks with no buddy; three workers are one to sleep, one to
run and one to be created or reaped; slabs of two to four objects pass through
full, partial and empty and exceed the limit of kept slabs; five timers give a
heap with three levels, a missing right child and ties; eight keys give trees of
up to four levels, with repairs that climb; three cached blocks in two hash
buckets give chains, moves within the LRU list and dirty victims; rings of 15 are
the least that the commands for three namespaces fit into, as the admin ring must
not wrap (`NvmeDriverAssumption`), and transfers go around the others again and
again (they are never full: the driver has at most two commands outstanding); three equal hashes give first, middle and
last of a chain; memory maps place range ends on, before and behind boundaries of
big pages. `MaxDepth`, `MaxTick`, `NSlots`, `MaxNs`, `MaxEntry`, `MaxFs` and
`FreeFiles` are the only bounds on counters. `rbtree` and `vfs` compare states
by a `VIEW` that leaves out node addresses, which no operation looks at.
Deadlock is checked except in `timerheap_up`, whose behaviours end at `MaxTick`,
and `nvme_cache`, where a drive without a table gets no further request.

**Fairness** (`scheduler_up`). A processor inside the kernel goes on (weak
fairness of `Kernel`); time passes (`Expire`); the tick interrupt, which stays
pending while IF is off, is taken if IF is on again and again (strong fairness of
`Tick`); a thread that stays on its processor is preempted (weak fairness of
`Preempt`: the one-shot timer is armed anew by every `switch2task`, so a thread
that leaves earlier is not counted); a thread that gets the processor again and
again makes progress in its slice (strong fairness of `Code`). Nothing is assumed
about when threads decide to sleep or exit.

## 4. What is proved

For every value of the constants that the named assumptions allow
(`ConstantsAssumption`, `BuddyAssumption`, `SmpAssumption`,
`TimerHeapAssumption`):

* `SpinlockProofs`: `TypeCorrect`; `MutualExclusionHolds` without any condition on
  callers; `PreemptionRestoredHolds` and `NoSelfDeadlockHolds` under
  `PreemptionSafe`: one processor, or one interrupt context per lock. So the
  primitive is right on one processor whatever the callers do, and its failure
  on several (section 5) needs a lock that is requested in both contexts.
  The first invariant counts owners: the word of a lock is set iff exactly one
  bracket owns it. The second says, for each bracket, which IF value the
  interrupted code below it had, and that a lock's `old_state`, from request to
  restore, is that value; it is needed because `old_state` is read only after
  the word has been released.
* `BuddyProofs`: `BuddyTypeCorrect`, `BuddyBlocksDisjoint`, `BuddyNoPageLost`,
  `BuddySplitSafe`, `BuddyUnlinkSafe` and `BuddyImplements` (refinement of
  `PageAlloc`). The inductive invariant `IInv`: the blocks (free, handed out, or
  in the hands of the running call) tile exactly the pages sliced so far; the
  pages not yet sliced are separate from them; the bit of every pair is the
  exclusive or of "its lower half is free" and "its upper half is free", except
  for the pair the running loop is about to flip (`LoopInv`). Disjointness alone
  is not inductive: that `buddy_free` may unlink its buddy follows only from the
  bits.
* `TimerHeapProofs`: `NoTimerLostHolds` and `HeapImplements` (refinement of
  `TimerQueue`) under `Unpressed`: one processor, and no more timers than the
  array has room for before it is reallocated (3000, and `MIN_TIMER_HEAP_SIZE` + 1
  before it may shrink). `IInv` says what the heap holds (each pending timer once,
  but for the one on its way in or out), its order except around the entry that
  moves (with the condition on that entry's parent and children that one
  exchange needs, `Skips`), and that nothing is due between ticks. `SiftUp` and
  `SiftDown` are the exchange steps for arbitrary keys; `RootLeast` derives from
  the order of neighbours that the root is the earliest, by the least
  counterexample. Both conditions are needed (section 5).
* `SmpBootProofs`: `SmpInvariant`, `AllReadyHolds` and `CalibrationExactHolds` for
  any number of processors, any bsp and any number of probes. `SInv`: the value of
  `startup_checksum`, and the value that any processor has loaded from it, is at
  most the number of processors that are done, so a lost update may keep the bsp
  waiting but never lets it go on early. `KInv`: who holds `somelock` at which step,
  where the entry is routed and whether the vector is registered then, that
  interrupts are on for the holder in between and for processors that have finished
  start-up, and, as long as no tick went astray, that one is pending only at the
  holder. `CalibrationExact` excuses a stray tick (section 5), except that with the bsp
  as local APIC 0 no frequency is mixed up even then: its second half needs, in
  addition, that the bsp's interrupts stay off after its own calibration until all are done. The proofs are about `SmpBoot` by itself; `Boot` runs
  the same actions as one of its stages, but reaches recursive operators through
  `PageMap`, so that composition is model-checked.

Only model-checked: everything about `Slab`, `RunQueue`, `Scheduler`, `RbTree`,
`NvmeCache`, `DiskPartition`, `NvmeQueue`, `NvmeDriver`, `Vfs`, `EarlyMem`,
`PageMap`; of `Buddy`, `FailsOnlyWhenFull` (it does not hold for every memory
map: two entries that touch inside a block leave two free buddies whose bit is 0,
which are never merged). Liveness (`SleepersWake`, `ExitedReaped`) and the loops
of `RbTree`, `Vfs` and `PageMap`, which are recursive operators, are out of the
prover's reach.

## 5. Findings and further observations

`scheduler_early_timer`: `scheduler_sleep_for` registers its timer before it
subscribes; preempted in between, it lets the timer launch an event without
subscribers, and `kevent_launch` panics; a time-out that ends with the next tick
needs no preemption.

`scheduler_smp`: going to sleep takes three critical sections (state, sleep queue,
`scheduler_yield`), and on two processors the timer interrupt's `kevent_launch` falls
in between: it wakes the thread, which then yields while READY and enqueued, and
`scheduler_yield` panics. The comment there excludes that case. `PROJECT.json` has the
quoted lines.

The following were met while modelling. Where a property is named, the module
states it and TLC finds it violated on the instance given; the passing runs
avoid that instance, as stated.

*Locks.*
* `spin_lock_global` saves the caller's IF in the lock before it owns the lock
  (`std/locking.c:63`, `:70`); a waiting processor overwrites the owner's flag.
  `PreemptionRestored` and `NoSelfDeadlock` fail for `MCSpinlock` with
  `Lock = {cache, buddy}`, `Nests <- MixedNests`, `CallSites <- MixedSites`,
  `MaxDepth = 3`, two processors. `locking.c:14` says that the pair
  "disables/restores preemption".
* `MutexExclusion` fails with one mutex: `uacpi_kernel_acquire_mutex` ignores the
  result of `spin_lock_timeout` and reports success.

*Scheduler.* On two processors (`IdleSmp`):
* `NoLostWakeup` fails with `Ops = {"sleep", "spawn"}`: a launch that falls between
  subscription and `SLEEPING` wakes nobody (`proc/scheduler.c:357`), while
  `misc/time.c:150` says "the thread will be woken up when the timer expired".
* `StackPrivate` fails with `Ops = {"spawn"}`: `scheduler_preempt` queues the thread
  while still executing on its stack.
* `LaunchHasSubscriber` fails with exiting workers (the reaper has not subscribed yet).
* `runqueue_insert_back` has a comment (`:95`) that testing `rq->head` instead of `rq->tail`
  "fails": once a wake-up has fallen in between as in `scheduler_smp`, TLC reaches a queue
  of which only one of the two is NULL.

On one processor `RoundRobin` fails under `FairSpec` with three sleeping workers:
woken threads go to the front of the queue and every switch restarts the slice.
`scheduler_yield` of a RUNNING thread (only `mutex_lock` does this, which nobody
calls) puts a thread that is not READY into a run queue.

*Kernel heap.* `PartialHasFree` fails for `CPU = {p1, p2}` in the instance of
`slab_up`: `kfree` goes on using a slab's descriptor after it has given the slab
back (`mm/slab.c:491`), when another cache may have taken the pages; the code
panics at `slab.c:274` in that case. `psize2order` halves a size and drops the
remainder, so that a size just above a power of two gets the order below it, while
`include/frame_alloc.h:138` says "in case of unalignment, returns the higher order";
`AllocBig` does not tell sizes apart.

*Timers.* `NoTimerLost` fails when the array is reallocated (`Timer` of three,
`InitCap = 2`): `krealloc` copies `MIN(pg->order, size)` bytes of a block of pages
(`slab.c:509`). It also fails on two processors: `timer_insert` is not locked.

*NVMe.*
* A write of a part of a block does not mark it dirty (`driver/nvme.c:792`), and the
  next eviction drops it: `ImplementsBlockDev` fails with
  `Part(1, "write", 1, 1, 1)` added to `MCPartRequest`. It also fails with
  `ReadMayFail = TRUE`: a failed read leaves anything in the buffer of a block that
  the hash map still names (`:212`).
* `EveryNamespaceHasQueue` fails in `NvmeDriver.cfg`: the number of queues is taken
  from `cqe`, not from the completion `queues_cqe` of the command (`:551`), while `:618` says "allocate 1
  sq and cq per namespace (for now)".
* The number of the last full block wraps for a request that ends inside the first
  block (`:744`); the
  command identifier is set after the copy into the ring; the admin ring is one
  entry larger for the controller than for the driver (`NvmeDriverAssumption` keeps
  it from wrapping); more than eight namespaces move the vector that earlier devices
  point into, which nothing uses; with no namespace `partition_disk_device` gets NULL.
* The device's pointer is taken with the list's index (`:610`), its context is at the
  vector's: they differ behind an entry that is skipped (`DeviceUsable` says exactly when).
* `NVME_BLOCK_SIZE / lba_size` is 0 for logical blocks above 512 bytes (`:204`, `:212`): every
  block would be transferred from LBA 0.

*VFS.*
* `vn_lookup` of the ramfs gives a directory the type `VFS_VN_NON` (`fs/ramfs.c:221`),
  which is seen once entries are evicted and looked up again.
* Creating a name that exists returns the old entry, whatever its type; callers must
  look up first, as the model's do.
* A lookup crosses mounts at its start and on its way but not at its last section.
* Eviction of an entry with children leaves them pointing to it. Nothing in the kernel
  evicts; `Evict` is `pnc_evict_section` on entries without children or mounts.
* `_pathn_bt_print` uses its variable in that variable's own initialiser; a path
  with a trailing slash on a file leaves the result unset; reading a file that was
  never written copies from NULL.

*Boot.*
* `FreePagesExact` of `Boot` fails: `early_mem_statistics` subtracts allocations
  from pages that were already counted without them (`mm/mem_init.c:170`, `:176`).
  Only statistics use the value.
* Two processors that increment `startup_checksum` together may lose a count, and
  the bsp then waits forever: `AllReady` is what remains true.
* The I/O APIC entry is written in two halves (`cpu/apic.c:174`): a tick in between goes
  to local APIC 0. If that processor has been calibrated, the tick stays pending until
  its interrupts are enabled, and then meets the calibration of another processor or
  the default handler, which panics. If it is not the bsp's and there are three
  processors, its timer may be read for another one's frequency: `OwnTimer` fails
  for `Lapic0` other than `Bsp`.
* `uacpi_kernel_map` and the mapping of the framebuffer ignore an offset inside the
  first page when they count pages; `force_walk_pagemap_single_lvl` would follow a
  large page as if it were a table (no mapping of the kernel does this: `MapExact`);
  a mapping flushes the TLB of its own processor only.
* `early_mem_alloc` tests its limit with `>` (`mem_init.c:105`), one too late; the
  kernel makes far fewer allocations.

## 6. What is not modelled

* Code that is compiled out or never called: the bitmap allocator, sanitizers,
  `nvme_flush_blocks`, `k_mutex_t`; operations that return a fixed status
  (`vfs_open`, `vfs_statfs`, ...); `mmu_unmap_single_page`, which is empty; stubs of
  file systems and of processes.
* Printing, formatting, port and register I/O, descriptor tables, MSRs, CPUID, the
  scan of the PCI bus, keyboard and serial line: no state that a property would
  tell apart. Third-party code (uACPI) appears only through the shims it calls.
* Out-of-memory in `kmalloc`, in page tables and in the VFS: the code dereferences
  the result unchecked, so there is no handling to model.
* Thread groups and sibling lists; the pool of event subscriber nodes (`subs` is a
  sequence per event; the pool is one list for all events, changed under the lock of
  a single event, `misc/kevent.c:21`); polling several events at once (no caller does).
* TLBs: after boot no mapping is changed to another physical page.
* `krealloc` appears as what it copies, in `TimerHeap`; `kcalloc` adds a `memset`.
