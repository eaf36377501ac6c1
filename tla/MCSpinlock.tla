----------------------------- MODULE MCSpinlock -----------------------------
(***************************************************************************)
(* Instances of Spinlock with locks of the kernel and the contexts that    *)
(* its callers request them in:                                            *)
(*   dev     device.lock of an NVMe namespace: nvme_read and nvme_write,   *)
(*           called by threads with interrupts on; they allocate below it; *)
(*   cache   a slab cache's lock: kmalloc and kfree request it inside a    *)
(*           preempt bracket, so always with interrupts off;               *)
(*   buddy   buddy_allocator.this_lock: requested with interrupts on by    *)
(*           kmalloc for large sizes, and off by new_slab, below cache.    *)
(***************************************************************************)
EXTENDS Spinlock, TLC

CONSTANTS dev, cache, buddy, c1, c2

(* Two locks that are each requested in one context only.                  *)
UniformNests == {<<dev, cache>>}
UniformSites == {<<dev, TRUE>>, <<cache, FALSE>>}

(* One of the locks is requested in both.                                  *)
MixedNests == {<<cache, buddy>>}
MixedSites == {<<buddy, TRUE>>, <<buddy, FALSE>>, <<cache, FALSE>>}

SymmetryMC == Permutations({c1, c2})
=============================================================================
