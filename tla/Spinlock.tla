------------------------------ MODULE Spinlock ------------------------------
(***************************************************************************)
(* The locking primitives of kernel/src/std/locking.c and the way the      *)
(* kernel nests them.  Every processor runs a stack of open brackets:      *)
(*                                                                         *)
(*   "global"   spin_lock_global .. spin_unlock_global                     *)
(*   "bracket"  preempt_fetch_disable .. preempt_restore                   *)
(*   "irq"      an interrupt gate .. iretq                                 *)
(*   "mutex"    uacpi_kernel_acquire_mutex .. uacpi_kernel_release_mutex,  *)
(*              that is spin_lock_timeout .. spin_unlock_global            *)
(*                                                                         *)
(* The grain is one access to shared memory per step.  In particular       *)
(* spin_lock_global stores the caller's interrupt flag in the lock BEFORE  *)
(* it owns the lock, and spin_unlock_global reads it back AFTER it has     *)
(* released the lock.                                                      *)
(***************************************************************************)
EXTENDS Naturals, Sequences

CONSTANTS
    CPU,        \* the processors
    Lock,       \* the k_spinlock_t's taken with spin_lock_global
    Mutex,      \* the k_spinlock_t's used as uACPI mutexes
    NoLock,     \* the lock field of a bracket that takes none
    CallSites,  \* <<l, i>>: some caller requests l while its IF is i
    Nests,      \* <<k, l>>: some caller requests l while it holds k
    MaxDepth    \* bound: open brackets per processor

ASSUME ConstantsAssumption ==
    /\ NoLock \notin Lock \cup Mutex
    /\ Lock \cap Mutex = {}
    /\ CallSites \subseteq Lock \X BOOLEAN
    /\ Nests \subseteq Lock \X Lock
    /\ \A l \in Lock : <<l, l>> \notin Nests
    /\ MaxDepth \in Nat

VARIABLES
    lock,       \* k_spinlock_t.lock: is the word set?
    old_state,  \* k_spinlock_t.old_state: the saved interrupt flag
    intr,       \* the IF bit of each processor's RFLAGS
    stack       \* the open brackets of each processor, innermost last

vars == <<lock, old_state, intr, stack>>

-----------------------------------------------------------------------------
(* Brackets.  old is what the caller's own frame remembers: the return     *)
(* value of preempt_fetch_disable, the RFLAGS image pushed by an interrupt *)
(* gate, and, for "global", the flag at the time of the call (a history    *)
(* value: the code keeps it only in the lock).                             *)

Frame ==
    [kind : {"global", "bracket", "irq", "mutex"},
     lock : Lock \cup Mutex \cup {NoLock},
     old  : BOOLEAN,
     st   : {"spin", "held", "restore"}]

NewFrame(k, l, o, s) == [kind |-> k, lock |-> l, old |-> o, st |-> s]

Depth(c) == Len(stack[c])

Top(c) == stack[c][Depth(c)]

Push(c, f) == stack' = [stack EXCEPT ![c] = Append(@, f)]

Pop(c) == stack' = [stack EXCEPT ![c] = SubSeq(@, 1, Len(@) - 1)]

SetTop(c, s) == stack' = [stack EXCEPT ![c][Depth(c)].st = s]

(* The processor executes ordinary code, inside its innermost bracket.     *)
Runs(c) == Depth(c) > 0 => Top(c).st = "held"

AtTop(c, k, s) == Depth(c) > 0 /\ Top(c).kind = k /\ Top(c).st = s

(* The brackets the running code opened itself: an interrupt handler does  *)
(* not know what it interrupted.                                           *)
Visible(c) ==
    {i \in 1..Depth(c) : \A j \in i..Depth(c) : stack[c][j].kind # "irq"}

(* The frame that owns the word of l.                                      *)
Owns(f, l) == f.lock = l /\ f.st = "held"

-----------------------------------------------------------------------------
Init ==
    /\ lock = [l \in Lock \cup Mutex |-> FALSE]
    /\ old_state = [l \in Lock \cup Mutex |-> FALSE]
    /\ intr = [c \in CPU |-> TRUE]
    /\ stack = [c \in CPU |-> <<>>]

(* preempt_fetch_disable: fetch IF, then cli.                              *)
PreemptFetchDisable(c) ==
    /\ Runs(c)
    /\ Depth(c) < MaxDepth
    /\ Push(c, NewFrame("bracket", NoLock, intr[c], "held"))
    /\ intr' = [intr EXCEPT ![c] = FALSE]
    /\ UNCHANGED <<lock, old_state>>

(* preempt_restore(old) only ever sets IF: a FALSE argument leaves it.     *)
Restored(c, old) == intr' = [intr EXCEPT ![c] = @ \/ old]

PreemptRestore(c) ==
    /\ AtTop(c, "bracket", "held")
    /\ Restored(c, Top(c).old)
    /\ Pop(c)
    /\ UNCHANGED <<lock, old_state>>

(* A maskable interrupt: the gate pushes RFLAGS and clears IF.             *)
Interrupt(c) ==
    /\ intr[c]
    /\ Depth(c) < MaxDepth
    /\ Push(c, NewFrame("irq", NoLock, TRUE, "held"))
    /\ intr' = [intr EXCEPT ![c] = FALSE]
    /\ UNCHANGED <<lock, old_state>>

Iret(c) ==
    /\ AtTop(c, "irq", "held")
    /\ intr' = [intr EXCEPT ![c] = Top(c).old]
    /\ Pop(c)
    /\ UNCHANGED <<lock, old_state>>

(* spin_lock_global, first half:                                           *)
(* lock->old_state = preempt_fetch_disable().                              *)
SpinLockGlobal(c, l) ==
    /\ Runs(c)
    /\ Depth(c) < MaxDepth
    /\ <<l, intr[c]>> \in CallSites
    /\ \A i \in Visible(c) :
          stack[c][i].kind = "global" => <<stack[c][i].lock, l>> \in Nests
    /\ old_state' = [old_state EXCEPT ![l] = intr[c]]
    /\ intr' = [intr EXCEPT ![c] = FALSE]
    /\ Push(c, NewFrame("global", l, intr[c], "spin"))
    /\ UNCHANGED lock

(* Mutant: the word is set without being tested.                           *)
SpinLock_NoTest(c) ==
    /\ AtTop(c, "global", "spin")
    /\ lock' = [lock EXCEPT ![Top(c).lock] = TRUE]
    /\ SetTop(c, "held")
    /\ UNCHANGED <<old_state, intr>>

(* spin_lock: the test-and-set that finds the word clear.  One that finds  *)
(* it set changes nothing and is repeated; the panic after 10000000 of     *)
(* them reports a deadlock and is not modelled.                            *)
SpinLock(c) ==
    /\ AtTop(c, "global", "spin")
    /\ ~lock[Top(c).lock]
    /\ lock' = [lock EXCEPT ![Top(c).lock] = TRUE]
    /\ SetTop(c, "held")
    /\ UNCHANGED <<old_state, intr>>

(* spin_unlock, the first half of spin_unlock_global.                      *)
SpinUnlock(c) ==
    /\ AtTop(c, "global", "held") \/ AtTop(c, "mutex", "held")
    /\ lock' = [lock EXCEPT ![Top(c).lock] = FALSE]
    /\ SetTop(c, "restore")
    /\ UNCHANGED <<old_state, intr>>

(* Mutant: preempt_enable() in place of preempt_restore(old_state).        *)
SpinUnlockGlobal_Enable(c) ==
    /\ AtTop(c, "global", "restore") \/ AtTop(c, "mutex", "restore")
    /\ Restored(c, TRUE)
    /\ Pop(c)
    /\ UNCHANGED <<lock, old_state>>

(* The second half: preempt_restore(lock->old_state).                      *)
SpinUnlockGlobal(c) ==
    /\ AtTop(c, "global", "restore") \/ AtTop(c, "mutex", "restore")
    /\ Restored(c, old_state[Top(c).lock])
    /\ Pop(c)
    /\ UNCHANGED <<lock, old_state>>

(* uacpi_kernel_acquire_mutex calls spin_lock_timeout: IF is untouched.    *)
AcquireMutex(c, m) ==
    /\ Runs(c)
    /\ Depth(c) < MaxDepth
    /\ \A i \in 1..Depth(c) : stack[c][i].kind = "bracket"
    /\ Push(c, NewFrame("mutex", m, intr[c], "spin"))
    /\ UNCHANGED <<lock, old_state, intr>>

(* The compare-and-swap of spin_lock_timeout succeeds.                     *)
SpinLockTimeoutTaken(c) ==
    /\ AtTop(c, "mutex", "spin")
    /\ ~lock[Top(c).lock]
    /\ lock' = [lock EXCEPT ![Top(c).lock] = TRUE]
    /\ SetTop(c, "held")
    /\ UNCHANGED <<old_state, intr>>

(* The compare-and-swap fails and the time is up: spin_lock_timeout        *)
(* returns false, uacpi_kernel_acquire_mutex returns UACPI_TRUE.           *)
SpinLockTimeoutExpired(c) ==
    /\ AtTop(c, "mutex", "spin")
    /\ lock[Top(c).lock]
    /\ SetTop(c, "held")
    /\ UNCHANGED <<lock, old_state, intr>>

Step(c) ==
    \/ PreemptFetchDisable(c)
    \/ PreemptRestore(c)
    \/ Interrupt(c)
    \/ Iret(c)
    \/ \E l \in Lock : SpinLockGlobal(c, l)
    \/ SpinLock(c)
    \/ SpinUnlock(c)
    \/ SpinUnlockGlobal(c)
    \/ \E m \in Mutex : AcquireMutex(c, m)
    \/ SpinLockTimeoutTaken(c)
    \/ SpinLockTimeoutExpired(c)

Next == \E c \in CPU : Step(c)

Spec == Init /\ [][Next]_vars

-----------------------------------------------------------------------------
TypeOK ==
    /\ lock \in [Lock \cup Mutex -> BOOLEAN]
    /\ old_state \in [Lock \cup Mutex -> BOOLEAN]
    /\ intr \in [CPU -> BOOLEAN]
    /\ stack \in [CPU -> Seq(Frame)]
    /\ \A c \in CPU : Depth(c) <= MaxDepth

(* The places, over all processors, whose bracket owns the word of l.      *)
Owners(l) ==
    {o \in CPU \X (1..MaxDepth) :
        o[2] <= Depth(o[1]) /\ Owns(stack[o[1]][o[2]], l)}

(* spin_lock / spin_unlock give mutual exclusion, and the word tells the   *)
(* truth: it is set exactly while one bracket, on one processor, is        *)
(* between its test-and-set and its release.  Holds whatever interrupts    *)
(* and whatever the restored interrupt flags do.                           *)
MutualExclusion ==
    \A l \in Lock :
        /\ lock[l] <=> Owners(l) # {}
        /\ \A o, p \in Owners(l) : o = p

(* spin_unlock_global "restores preemption" (locking.c:14): on every       *)
(* processor interrupts are enabled exactly when none of the brackets it   *)
(* is inside has disabled them, so no critical section is entered by an    *)
(* interrupt handler and no thread is left with interrupts off.            *)
PreemptionRestored ==
    \A c \in CPU :
        intr[c] <=> \A i \in 1..Depth(c) : stack[c][i].kind = "mutex"

(* No processor spins on a lock that it already owns: an interrupt handler *)
(* never finds the lock it wants held by the code it interrupted (the      *)
(* "DEADLOCK" panic of locking.c:54).                                      *)
NoSelfDeadlock ==
    \A c \in CPU : AtTop(c, "global", "spin") =>
        \A i \in 1..Depth(c) : ~Owns(stack[c][i], Top(c).lock)

(* The callers' contexts under which the flag kept in the lock is safe:    *)
(* one processor, or one interrupt context per lock.                       *)
PreemptionSafe ==
    \/ \A c, d \in CPU : c = d
    \/ \A l \in Lock : \A i, j \in BOOLEAN :
          <<l, i>> \in CallSites /\ <<l, j>> \in CallSites => i = j

(* A uACPI mutex admits one owner at a time.                               *)
MutexExclusion ==
    \A m \in Mutex : \A o, p \in Owners(m) : o = p

=============================================================================
