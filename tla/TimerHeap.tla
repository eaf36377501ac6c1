----------------------------- MODULE TimerHeap ------------------------------
(***************************************************************************)
(* The heap of system timers (kernel/src/misc/time.c): any thread inserts  *)
(* its timer, the timer interrupt of the bsp pops those that are due.      *)
(*                                                                         *)
(* timer_insert runs with interrupts off but takes no lock, so on another  *)
(* processor its steps interleave with timer_pop.                          *)
(***************************************************************************)
EXTENDS Integers, FiniteSets

CONSTANTS
    CPU,
    Bsp,
    Timer,
    Delay,        \* the ms of register_system_timer
    MaxTick,      \* bound on system_ticks
    NSlots,       \* bound on the entries of heap_array that are looked at
    InitCap,      \* 3000: the first heap_capacity
    MinHeap,      \* MIN_TIMER_HEAP_SIZE
    NULL

ASSUME TimerHeapAssumption ==
    /\ Bsp \in CPU /\ IsFiniteSet(Timer) /\ NULL \notin Timer
    /\ Delay \subseteq Nat \ {0} /\ MaxTick \in Nat
    /\ InitCap \in Nat \ {0} /\ MinHeap \in Nat
    /\ NSlots \in Nat /\ Cardinality(Timer) <= NSlots

VARIABLES
    ticks,        \* system_ticks
    exp,          \* expiration_time of every timer
    pending,      \* timers registered and not launched
    heap,         \* heap_array; NULL: not (a pointer to) a timer
    size, cap,    \* heap_size, heap_capacity
    ins,          \* where every processor is in timer_insert, with its locals
    tick          \* where the bsp is in system_timer_handler, with its locals

vars == <<ticks, exp, pending, heap, size, cap, ins, tick>>

Slot == 0..(NSlots - 1)

Init ==
    /\ ticks = 0
    /\ exp = [t \in Timer |-> 0]
    /\ pending = {}
    /\ heap = [i \in Slot |-> NULL]
    /\ size = 0 /\ cap = 0
    /\ ins = [p \in CPU |-> [pc |-> "idle", t |-> NULL, idx |-> 0]]
    /\ tick = [pc |-> "idle", root |-> NULL, idx |-> 0]

-----------------------------------------------------------------------------
get_parent(i) == (i - 1) \div 2

swap(i, j) == [heap EXCEPT ![i] = heap[j], ![j] = heap[i]]

(* The expiration_time that a dereference of heap_array[i] reads: anything *)
(* where there is no timer (or no entry: a timer_pop that comes between    *)
(* the steps of timer_insert may leave heap_size - 1 below zero).          *)
Reads(i) == IF i \in Slot /\ heap[i] # NULL THEN {exp[heap[i]]} ELSE 0..MaxTick

Less(i, j) == \E a \in Reads(i), b \in Reads(j) : a < b

NotLess(i, j) == \E a \in Reads(i), b \in Reads(j) : ~(a < b)

(* krealloc of the array, a block of pages: the number of bytes copied is  *)
(* the least of its page order, at most 10, and its size.  That is not one *)
(* whole entry below order 8 (2^17 entries).                               *)
krealloc == [i \in Slot |-> NULL]

(* register_system_timer, up to timer_insert.                              *)
Register(p, t, ms) ==
    /\ ins[p].pc = "idle" /\ (p = Bsp => tick.pc = "idle")
    /\ t \notin pending /\ ticks + ms <= MaxTick
    /\ exp' = [exp EXCEPT ![t] = ticks + ms]
    /\ pending' = pending \cup {t}
    /\ ins' = [ins EXCEPT ![p] = [pc |-> "grow", t |-> t, idx |-> 0]]
    /\ UNCHANGED <<ticks, heap, size, cap, tick>>

(* timer_insert: make room, ...                                            *)
InsertGrow(p) ==
    /\ ins[p].pc = "grow"
    /\ IF size = cap
       THEN /\ cap' = IF cap = 0 THEN InitCap ELSE 2 * cap
            /\ heap' = krealloc
       ELSE UNCHANGED <<cap, heap>>
    /\ ins' = [ins EXCEPT ![p].pc = "size"]
    /\ UNCHANGED <<ticks, exp, pending, size, tick>>

(* ... count the entry, ...                                                *)
InsertSize(p) ==
    /\ ins[p].pc = "size"
    /\ size' = size + 1
    /\ ins' = [ins EXCEPT ![p].pc = "store"]
    /\ UNCHANGED <<ticks, exp, pending, heap, cap, tick>>

(* ... store it in the last slot ...                                       *)
InsertStore(p) ==
    /\ ins[p].pc = "store"
    /\ heap' = [heap EXCEPT ![size - 1] = ins[p].t]
    /\ ins' = [ins EXCEPT ![p].pc = "up", ![p].idx = size - 1]
    /\ UNCHANGED <<ticks, exp, pending, size, cap, tick>>

(* ... and move it up while its parent is later.                           *)
InsertUp(p) ==
    /\ ins[p].pc = "up" /\ ins[p].idx # 0
    /\ LET i == ins[p].idx
           j == get_parent(i)
       IN  /\ Less(i, j)
           /\ heap' = swap(i, j)
           /\ ins' = [ins EXCEPT ![p].idx = j]
    /\ UNCHANGED <<ticks, exp, pending, size, cap, tick>>

InsertEnd(p) ==
    /\ ins[p].pc = "up"
    /\ ins[p].idx # 0 => NotLess(ins[p].idx, get_parent(ins[p].idx))
    /\ ins' = [ins EXCEPT ![p] = [pc |-> "idle", t |-> NULL, idx |-> 0]]
    /\ UNCHANGED <<ticks, exp, pending, heap, size, cap, tick>>

-----------------------------------------------------------------------------
(* rtc_handler and system_timer_handler, when the bsp takes interrupts.    *)
Tick ==
    /\ tick.pc = "idle" /\ ins[Bsp].pc = "idle" /\ ticks < MaxTick
    /\ ticks' = ticks + 1
    /\ tick' = [tick EXCEPT !.pc = "peek"]
    /\ UNCHANGED <<exp, pending, heap, size, cap, ins>>

(* timer_peek: a timer is due ...                                          *)
PeekDue ==
    /\ tick.pc = "peek" /\ size # 0
    /\ \E e \in Reads(0) : e <= ticks
    /\ tick' = [tick EXCEPT !.pc = "pop"]
    /\ UNCHANGED <<ticks, exp, pending, heap, size, cap, ins>>

(* Mutant: a timer that expires now is left for the next tick.             *)
PeekNone_Late ==
    /\ tick.pc = "peek"
    /\ size = 0 \/ \E e \in Reads(0) : e >= ticks
    /\ tick' = [tick EXCEPT !.pc = "idle"]
    /\ UNCHANGED <<ticks, exp, pending, heap, size, cap, ins>>

(* ... or none is, and the handler ends.                                   *)
PeekNone ==
    /\ tick.pc = "peek"
    /\ size = 0 \/ \E e \in Reads(0) : e > ticks
    /\ tick' = [tick EXCEPT !.pc = "idle"]
    /\ UNCHANGED <<ticks, exp, pending, heap, size, cap, ins>>

(* Mutant: heap_size is not counted down.                                  *)
PopLast_KeepSize ==
    /\ tick.pc = "pop" /\ size = 1
    /\ tick' = [pc |-> "launch", root |-> heap[0], idx |-> 0]
    /\ UNCHANGED <<ticks, exp, pending, heap, size, cap, ins>>

(* timer_pop of the only timer, ...                                        *)
PopLast ==
    /\ tick.pc = "pop" /\ size = 1
    /\ size' = 0
    /\ tick' = [pc |-> "launch", root |-> heap[0], idx |-> 0]
    /\ UNCHANGED <<ticks, exp, pending, heap, cap, ins>>

(* ... or of the root: the last entry takes its place, the array may       *)
(* shrink, ...                                                             *)
PopRoot ==
    /\ tick.pc = "pop" /\ size > 1
    /\ size' = size - 1
    /\ tick' = [pc |-> "down", root |-> heap[0], idx |-> 0]
    /\ IF size - 1 > MinHeap /\ cap > 4 * (size - 1)
       THEN cap' = cap \div 2 /\ heap' = krealloc
       ELSE heap' = [heap EXCEPT ![0] = heap[size - 1]] /\ UNCHANGED cap
    /\ UNCHANGED <<ticks, exp, pending, ins>>

(* ... and min_heapify moves it down: swap with the earlier child ...      *)
LeftOf(i) == 2 * i + 1

RightOf(i) == 2 * i + 2

Earlier(i, j) == i < size /\ Less(i, j)

NotEarlier(i, j) == i < size => NotLess(i, j)

DownTo(j) == tick' = [tick EXCEPT !.idx = j] /\ heap' = swap(tick.idx, j)

HeapifyLeft ==
    /\ tick.pc = "down"
    /\ LET l == LeftOf(tick.idx)
       IN  Earlier(l, tick.idx) /\ NotEarlier(RightOf(tick.idx), l) /\ DownTo(l)
    /\ UNCHANGED <<ticks, exp, pending, size, cap, ins>>

HeapifyRight ==
    /\ tick.pc = "down"
    /\ LET i == tick.idx
           l == LeftOf(i)
           r == RightOf(i)
       IN  /\ \/ Earlier(l, i) /\ Earlier(r, l)
              \/ NotEarlier(l, i) /\ Earlier(r, i)
           /\ DownTo(r)
    /\ UNCHANGED <<ticks, exp, pending, size, cap, ins>>


(* ... until none is earlier.                                              *)
HeapifyEnd ==
    /\ tick.pc = "down"
    /\ NotEarlier(LeftOf(tick.idx), tick.idx) /\ NotEarlier(RightOf(tick.idx), tick.idx)
    /\ tick' = [tick EXCEPT !.pc = "launch", !.idx = 0]
    /\ UNCHANGED <<ticks, exp, pending, heap, size, cap, ins>>

(* kevent_launch of the popped timer.                                      *)
Launch ==
    /\ tick.pc = "launch"
    /\ pending' = pending \ {tick.root}
    /\ tick' = [tick EXCEPT !.pc = "peek", !.root = NULL]
    /\ UNCHANGED <<ticks, exp, heap, size, cap, ins>>

Insert(p) == InsertGrow(p) \/ InsertSize(p) \/ InsertStore(p) \/ InsertUp(p) \/ InsertEnd(p)

Handler == PeekDue \/ PeekNone \/ PopLast \/ PopRoot
           \/ HeapifyLeft \/ HeapifyRight \/ HeapifyEnd \/ Launch

Next ==
    \/ Tick \/ Handler
    \/ \E p \in CPU : Insert(p) \/ \E t \in Timer, ms \in Delay : Register(p, t, ms)

Spec == Init /\ [][Next]_vars

-----------------------------------------------------------------------------
TypeOK ==
    /\ ticks \in 0..MaxTick
    /\ exp \in [Timer -> 0..MaxTick]
    /\ pending \subseteq Timer
    /\ heap \in [Slot -> Timer \cup {NULL}]
    /\ size \in 0..NSlots /\ cap \in Nat
    /\ ins \in [CPU -> [pc : {"idle", "grow", "size", "store", "up"},
                        t : Timer \cup {NULL}, idx : Slot \cup {0}]]
    /\ tick \in [pc : {"idle", "peek", "pop", "down", "launch"},
                 root : Timer \cup {NULL}, idx : Slot \cup {0}]

Used == 0..(size - 1)

NoInsert == \A p \in CPU : ins[p].pc = "idle"

(* Between insertions the heap holds every timer that is pending, and      *)
(* holds it once, but for the one that is just popped: no thread sleeps on *)
(* a timer that is gone.                                                   *)
NoTimerLost ==
    NoInsert =>
        /\ {heap[i] : i \in Used} = pending \ {tick.root}
        /\ \A i, j \in Used : i # j => heap[i] # heap[j]

(* Every timer is launched by the first tick at or after its expiration    *)
(* time, the earlier first.                                                *)
Abstract == INSTANCE TimerQueue WITH now <- ticks

ImplementsTimerQueue == Abstract!Spec
=============================================================================
