-------------------------- MODULE TimerHeapProofs --------------------------
(***************************************************************************)
(* The timer heap on one processor, while the array has room: for any      *)
(* number of timers no timer is lost, and the heap implements TimerQueue.  *)
(*                                                                         *)
(* The order of a heap is a property of neighbours; that its root is the   *)
(* earliest of all follows from the least entry that would be earlier.     *)
(***************************************************************************)
EXTENDS TimerHeap, FiniteSetTheorems, WellFoundedInduction, TLAPS

(* One processor, and never so many timers that the array is reallocated:  *)
(* 3000 before it grows, MIN_TIMER_HEAP_SIZE + 1 before it may shrink.     *)
Unpressed ==
    /\ CPU = {Bsp} /\ MinHeap >= Cardinality(Timer) - 1 /\ InitCap >= Cardinality(Timer)

TimerOrNull == Timer \cup {NULL}
InsRecord == [pc : {"idle", "grow", "size", "store", "up"}, t : TimerOrNull, idx : Nat]
TickRecord == [pc : {"idle", "peek", "pop", "down", "launch"}, root : TimerOrNull, idx : Nat]
Types ==
    /\ ticks \in Nat /\ exp \in [Timer -> Nat] /\ pending \subseteq Timer
    /\ heap \in [Slot -> TimerOrNull] /\ size \in Nat /\ cap \in Nat
    /\ ins \in [CPU -> InsRecord] /\ tick \in TickRecord

I == ins[Bsp]

(* The entries that count: timer_insert raises heap_size before it stores. *)
Stored == IF I.pc = "store" THEN size - 1 ELSE size
Index == 0..(Stored - 1)

(* The timers the heap must hold: those pending, but for the one that is   *)
(* being launched and the one that is not stored yet.                      *)
Coming == IF I.pc \in {"grow", "size", "store"} THEN {I.t} ELSE {}
InHeap == (pending \ {tick.root}) \ Coming

Contents ==
    /\ \A i \in Index : heap[i] \in InHeap
    /\ \A t \in InHeap : \E i \in Index : heap[i] = t
    /\ \A i, j \in Index : heap[i] = heap[j] => i = j
    /\ Stored = Cardinality(InHeap)

Control ==
    /\ I.pc # "idle" => tick.pc = "idle"
    /\ Coming \subseteq pending
    /\ I.pc = "store" => size # 0
    /\ I.pc = "up" => I.idx \in Index
    /\ tick.pc = "down" => tick.idx \in Index
    /\ cap = 0 => size = 0 /\ I.pc \in {"idle", "grow"}
    /\ cap # 0 => cap >= InitCap

(* The order of the heap, but for the entry that moves: k is its index.    *)
Exp(i) == exp[heap[i]]
Ordered(i) == Exp(get_parent(i)) <= Exp(i)
Skips(i, k) == k # 0 /\ get_parent(i) = k => Exp(get_parent(k)) <= Exp(i)
Order ==
    \A i \in Index \ {0} :
        IF I.pc = "up" THEN (i # I.idx => Ordered(i)) /\ Skips(i, I.idx)
        ELSE IF tick.pc = "down" THEN (get_parent(i) # tick.idx => Ordered(i)) /\ Skips(i, tick.idx)
        ELSE Ordered(i)

(* What is due: nothing between ticks; the timer taken out is, and it is   *)
(* the earliest.                                                           *)
Due ==
    /\ tick.pc = "idle" => \A t \in pending : exp[t] > ticks
    /\ tick.pc = "pop" => size # 0 /\ Exp(0) <= ticks
    /\ tick.pc \in {"idle", "peek", "pop"} => tick.root = NULL
    /\ tick.pc \in {"down", "launch"} =>
          /\ tick.root \in pending /\ exp[tick.root] <= ticks
          /\ \A t \in pending : exp[tick.root] <= exp[t]

IInv == Types /\ Control /\ Contents /\ Order /\ Due

-----------------------------------------------------------------------------
(* A set of numbers has a least element.                                   *)
LEMMA NatMin ==
    ASSUME NEW T, T \subseteq Nat, T # {}
    PROVE  \E x \in T : \A y \in T : x <= y
<1>1. \E R : /\ \A x, y \in Nat : x < y => <<x, y>> \in R
             /\ \E x \in T : \A y \in T : <<y, x>> \notin R
  <2> DEFINE R == OpToRel(<, Nat)
  <2>1. IsWellFoundedOn(R, Nat)
    BY NatLessThanWellFounded
  <2>2. \A x, y \in Nat : x < y => <<x, y>> \in R
    BY DEF OpToRel
  <2> HIDE DEF R
  <2>3. \E x \in T : \A y \in T : <<y, x>> \notin R
    BY <2>1, WFMin
  <2>4. QED
    BY <2>2, <2>3, Zenon
<1>2. PICK R : /\ \A x, y \in Nat : x < y => <<x, y>> \in R
               /\ \E x \in T : \A y \in T : <<y, x>> \notin R
  BY <1>1
<1>3. PICK x \in T : \A y \in T : <<y, x>> \notin R
  BY <1>2
<1>4. x \in Nat /\ \A y \in T : y \in Nat /\ ~(y < x)
  BY <1>2, <1>3
<1>5. \A y \in T : x <= y
  BY <1>4
<1>6. QED
  BY <1>5

(* get_parent, LeftOf and RightOf of indices.                              *)
LEMMA Family ==
    ASSUME NEW i \in Nat
    PROVE  /\ i # 0 => get_parent(i) \in Nat /\ get_parent(i) < i
           /\ LeftOf(i) \in Nat /\ RightOf(i) \in Nat
           /\ LeftOf(i) > i /\ RightOf(i) = LeftOf(i) + 1
           /\ get_parent(LeftOf(i)) = i /\ get_parent(RightOf(i)) = i
           /\ \A j \in Nat \ {0} : get_parent(j) = i => j = LeftOf(i) \/ j = RightOf(i)
  BY DEF get_parent, LeftOf, RightOf

(* The root of an ordered heap is the earliest entry.                      *)
LEMMA RootLeast ==
    ASSUME NEW n \in Nat, NEW e, \A i \in 0..(n - 1) : e[i] \in Nat,
           \A i \in (0..(n - 1)) \ {0} : e[get_parent(i)] <= e[i]
    PROVE  \A i \in 0..(n - 1) : e[0] <= e[i]
<1> DEFINE T == {i \in 0..(n - 1) : ~(e[0] <= e[i])}
<1> SUFFICES ASSUME T # {} PROVE FALSE
  OBVIOUS
<1>1. T \subseteq Nat
  OBVIOUS
<1>2. PICK x \in T : \A y \in T : x <= y
  BY <1>1, NatMin
<1>3. x \in Nat /\ x # 0 /\ x \in 0..(n - 1) /\ e[0] \in Nat
  OBVIOUS
<1>4. get_parent(x) \in 0..(n - 1) /\ get_parent(x) < x
  BY <1>3, Family
<1>5. get_parent(x) \notin T
  BY <1>2, <1>3, <1>4
<1>6. e[0] <= e[get_parent(x)] /\ e[get_parent(x)] <= e[x]
  BY <1>3, <1>4, <1>5
<1>7. e[0] <= e[x]
  BY <1>3, <1>4, <1>6
<1>8. QED
  BY <1>7

-----------------------------------------------------------------------------
(* The heap has fewer entries than there are timers, while one is on its   *)
(* way in or out; so the entries are slots.                                *)
LEMMA Sizes ==
    ASSUME IInv
    PROVE  /\ Cardinality(Timer) \in Nat /\ IsFiniteSet(pending) /\ IsFiniteSet(InHeap)
           /\ Stored \in Nat /\ Stored <= Cardinality(Timer)
           /\ InHeap # Timer => Stored < Cardinality(Timer)
           /\ Index \subseteq Slot
<1>1. InHeap \subseteq pending /\ pending \subseteq Timer /\ IsFiniteSet(Timer)
  BY TimerHeapAssumption DEF InHeap, IInv, Types
<1>2. /\ Cardinality(Timer) \in Nat /\ IsFiniteSet(pending) /\ IsFiniteSet(InHeap)
      /\ Cardinality(InHeap) \in Nat /\ Cardinality(InHeap) <= Cardinality(Timer)
      /\ InHeap # Timer => Cardinality(InHeap) < Cardinality(Timer)
  BY <1>1, FS_Subset, FS_CardinalityType
<1>3. Stored = Cardinality(InHeap)
  BY DEF IInv, Contents
<1>4. QED
  BY <1>2, <1>3, TimerHeapAssumption DEF Index, Slot

(* What an entry holds and what a dereference of it reads.                 *)
LEMMA Entries ==
    ASSUME IInv, NEW i \in Index
    PROVE  /\ i \in Slot /\ i \in Nat /\ heap[i] \in Timer /\ heap[i] \in pending
           /\ Exp(i) \in Nat /\ Reads(i) = {Exp(i)}
<1>1. i \in Slot /\ i \in Nat
  BY Sizes DEF Index
<1>2. heap[i] \in pending /\ heap[i] \in Timer /\ heap[i] # NULL
  BY TimerHeapAssumption DEF IInv, Contents, InHeap, Types
<1>3. QED
  BY <1>1, <1>2 DEF Exp, Reads, IInv, Types

LEMMA Compare ==
    ASSUME IInv, NEW i \in Index, NEW j \in Index
    PROVE  /\ Less(i, j) <=> Exp(i) < Exp(j)
           /\ NotLess(i, j) <=> ~(Exp(i) < Exp(j))
<1>1. Reads(i) = {Exp(i)} /\ Reads(j) = {Exp(j)}
  BY Entries
<1>2. QED
  BY <1>1 DEF Less, NotLess

-----------------------------------------------------------------------------
(* The same order for the keys e of the entries D, and an exchange of two. *)
UpOrder(e, D, k) ==
    \A x \in D \ {0} :
        /\ x # k => e[get_parent(x)] <= e[x]
        /\ k # 0 /\ get_parent(x) = k => e[get_parent(k)] <= e[x]

DownOrder(e, D, k) ==
    \A x \in D \ {0} :
        /\ get_parent(x) # k => e[get_parent(x)] <= e[x]
        /\ k # 0 /\ get_parent(x) = k => e[get_parent(k)] <= e[x]

Keys(e, D, n) == n \in Nat /\ D = 0..(n - 1) /\ \A x \in D : e[x] \in Nat

Exchanged(e, f, D, i, j) ==
    \A x \in D : f[x] = IF x = i THEN e[j] ELSE IF x = j THEN e[i] ELSE e[x]

(* One exchange of timer_insert: the new entry k goes up to j, and j is    *)
(* then the only one out of place.                                         *)
LEMMA SiftUp ==
    ASSUME NEW n, NEW D, NEW e, NEW f, NEW k \in D \ {0}, NEW j,
           Keys(e, D, n), j = get_parent(k), e[k] < e[j],
           Exchanged(e, f, D, k, j), UpOrder(e, D, k)
    PROVE  UpOrder(f, D, j)
<1> USE DEF Keys, Exchanged, UpOrder
<1>1. k \in Nat /\ j \in D /\ j \in Nat /\ j < k
  BY Family
<1>2. \A x \in D \ {0} : get_parent(x) \in D /\ get_parent(x) < x
  <2> SUFFICES ASSUME NEW x \in D \ {0} PROVE get_parent(x) \in D /\ get_parent(x) < x
    OBVIOUS
  <2>1. x \in Nat /\ x # 0 /\ x <= n - 1
    OBVIOUS
  <2>2. get_parent(x) \in Nat /\ get_parent(x) < x
    BY <2>1, Family
  <2>3. QED
    BY <2>1, <2>2
<1> SUFFICES ASSUME NEW x \in D \ {0}
             PROVE  /\ x # j => f[get_parent(x)] <= f[x]
                    /\ j # 0 /\ get_parent(x) = j => f[get_parent(j)] <= f[x]
  OBVIOUS
<1>3. ASSUME x # j PROVE f[get_parent(x)] <= f[x]
  <2>1. CASE x = k
    BY <1>1, <1>2, <2>1
  <2>2. CASE x # k /\ get_parent(x) = k
    BY <1>1, <1>2, <1>3, <2>2
  <2>3. CASE x # k /\ get_parent(x) = j
    <3>1. e[k] < e[j] /\ e[j] <= e[x] /\ f[get_parent(x)] = e[k] /\ f[x] = e[x]
      BY <1>1, <1>3, <2>3
    <3>2. QED
      BY <1>1, <3>1
  <2>4. CASE x # k /\ get_parent(x) # k /\ get_parent(x) # j
    BY <1>1, <1>2, <1>3, <2>4
  <2>5. QED
    BY <2>1, <2>2, <2>3, <2>4
<1>4. ASSUME j # 0, get_parent(x) = j PROVE f[get_parent(j)] <= f[x]
  <2> DEFINE p == get_parent(j)
  <2>1. p \in D /\ p < j /\ e[p] <= e[j] /\ f[p] = e[p]
    BY <1>1, <1>2, <1>4
  <2> HIDE DEF p
  <2>2. CASE x = k
    BY <1>1, <2>1, <2>2 DEF p
  <2>3. CASE x # k
    <3>1. e[j] <= e[x] /\ f[x] = e[x]
      BY <1>1, <1>2, <1>4, <2>3
    <3>2. f[p] <= f[x]
      BY <1>1, <2>1, <3>1
    <3>3. QED
      BY <3>2 DEF p
  <2>4. QED
    BY <2>2, <2>3
<1>5. QED
  BY <1>3, <1>4

(* One exchange of min_heapify: the entry k goes down to its earlier child *)
(* c, and only the children of c may be out of place.                      *)
LEMMA SiftDown ==
    ASSUME NEW n, NEW D, NEW e, NEW f, NEW k \in D, NEW c \in D \ {0},
           Keys(e, D, n), get_parent(c) = k, e[c] < e[k],
           \A x \in D \ {0} : get_parent(x) = k => e[c] <= e[x],
           Exchanged(e, f, D, k, c), DownOrder(e, D, k)
    PROVE  DownOrder(f, D, c)
<1> USE DEF Keys, Exchanged, DownOrder
<1>1. k \in Nat /\ c \in Nat /\ k < c
  BY Family
<1>2. \A x \in D \ {0} : get_parent(x) \in D /\ get_parent(x) < x
  <2> SUFFICES ASSUME NEW x \in D \ {0} PROVE get_parent(x) \in D /\ get_parent(x) < x
    OBVIOUS
  <2>1. x \in Nat /\ x # 0 /\ x <= n - 1
    OBVIOUS
  <2>2. get_parent(x) \in Nat /\ get_parent(x) < x
    BY <2>1, Family
  <2>3. QED
    BY <2>1, <2>2
<1> SUFFICES ASSUME NEW x \in D \ {0}
             PROVE  /\ get_parent(x) # c => f[get_parent(x)] <= f[x]
                    /\ c # 0 /\ get_parent(x) = c => f[get_parent(c)] <= f[x]
  OBVIOUS
<1>3. ASSUME get_parent(x) # c PROVE f[get_parent(x)] <= f[x]
  <2>1. CASE get_parent(x) = k /\ x = c
    BY <1>1, <1>2, <2>1
  <2>2. CASE get_parent(x) = k /\ x # c
    BY <1>1, <1>2, <2>2
  <2>3. CASE get_parent(x) # k /\ x = k
    <3>1. get_parent(c) = k /\ k # 0
      BY <2>3
    <3>2. e[get_parent(k)] <= e[c] /\ f[x] = e[c] /\ get_parent(k) # k
      BY <1>1, <1>2, <2>3, <3>1
    <3>3. f[get_parent(x)] = e[get_parent(k)]
      BY <1>2, <1>3, <2>3
    <3>4. QED
      BY <3>2, <3>3
  <2>4. CASE get_parent(x) # k /\ x # k
    <3>1. x # c
      BY <2>4
    <3>2. QED
      BY <1>1, <1>2, <1>3, <2>4, <3>1
  <2>5. QED
    BY <2>1, <2>2, <2>3, <2>4
<1>4. ASSUME get_parent(x) = c PROVE f[get_parent(c)] <= f[x]
  <2>1. x # c /\ x # k /\ c # k
    BY <1>1, <1>2, <1>4
  <2>2. e[c] <= e[x] /\ f[x] = e[x] /\ f[get_parent(c)] = e[c]
    BY <1>4, <2>1
  <2>3. QED
    BY <2>2
<1>5. QED
  BY <1>3, <1>4

-----------------------------------------------------------------------------
(* A step that leaves the entries and their keys alone.                    *)
LEMMA Frame ==
    ASSUME IInv, Stored' = Stored, InHeap' = InHeap,
           \A i \in Index : heap'[i] = heap[i],
           \A t \in InHeap : exp'[t] = exp[t]
    PROVE  Contents' /\ Index' = Index /\ \A i \in Index : Exp(i)' = Exp(i)
<1>1. Index' = Index
  BY DEF Index
<1>2. Contents'
  BY <1>1 DEF IInv, Contents
<1>3. \A i \in Index : heap[i] \in InHeap
  BY DEF IInv, Contents
<1>4. QED
  BY <1>1, <1>2, <1>3 DEF Exp

(* The heap is in order while no entry moves.                              *)
LEMMA PlainOrder ==
    ASSUME IInv, I.pc # "up", tick.pc # "down"
    PROVE  \A i \in Index \ {0} : get_parent(i) \in Index /\ Exp(get_parent(i)) <= Exp(i)
<1>1. \A i \in Index \ {0} : get_parent(i) \in Index
  BY Sizes, Family DEF Index
<1>2. QED
  BY <1>1 DEF IInv, Order, Ordered

LEMMA OrderFrame ==
    ASSUME IInv, I.pc # "up", tick.pc # "down", I'.pc # "up", tick'.pc # "down",
           Index' = Index, \A i \in Index : Exp(i)' = Exp(i)
    PROVE  Order'
<1>1. \A i \in Index \ {0} : get_parent(i) \in Index /\ Exp(get_parent(i)) <= Exp(i)
  BY PlainOrder
<1>2. \A i \in Index' \ {0} : Ordered(i)'
  <2> SUFFICES ASSUME NEW i \in Index \ {0} PROVE Ordered(i)'
    OBVIOUS
  <2>1. get_parent(i) \in Index /\ i \in Index
    BY <1>1
  <2>2. Exp(get_parent(i))' <= Exp(i)'
    BY <1>1, <2>1
  <2>3. QED
    BY <2>2 DEF Ordered, get_parent
<1>3. QED
  BY <1>2 DEF Order

(* The earliest timer is at the root of a heap in order.                   *)
LEMMA RootEarliest ==
    ASSUME IInv, I.pc # "up", tick.pc # "down", Stored # 0
    PROVE  0 \in Index /\ \A t \in InHeap : Exp(0) <= exp[t]
<1> DEFINE e == [i \in Index |-> Exp(i)]
<1>1. Stored \in Nat /\ Index = 0..(Stored - 1) /\ 0 \in Index
  BY Sizes DEF Index
<1>2. \A i \in Index : e[i] \in Nat /\ e[i] = Exp(i)
  BY Entries
<1>3. \A i \in Index \ {0} : e[get_parent(i)] <= e[i]
  BY <1>2, PlainOrder
<1> HIDE DEF e
<1>4. \A i \in Index : e[0] <= e[i]
  BY <1>1, <1>2, <1>3, RootLeast
<1>5. \A i \in Index : Exp(0) <= Exp(i)
  BY <1>1, <1>2, <1>4
<1>6. \A t \in InHeap : \E i \in Index : heap[i] = t
  BY DEF IInv, Contents
<1>7. QED
  BY <1>1, <1>5, <1>6 DEF Exp

(* The locals of the inserting processor and of the handler.               *)
LEMMA Locals ==
    ASSUME IInv
    PROVE  I \in InsRecord /\ tick \in TickRecord
  BY TimerHeapAssumption DEF IInv, Types, I

-----------------------------------------------------------------------------
(* register_system_timer.                                                  *)
LEMMA RegisterStep ==
    ASSUME Unpressed, IInv, NEW t \in Timer, NEW ms \in Delay, Register(Bsp, t, ms)
    PROVE  IInv'
<1>1. /\ I' = [pc |-> "grow", t |-> t, idx |-> 0] /\ I.pc = "idle" /\ tick.pc = "idle"
      /\ tick' = tick /\ heap' = heap /\ size' = size /\ cap' = cap /\ ticks' = ticks
      /\ t \notin pending /\ pending' = pending \cup {t} /\ exp' = [exp EXCEPT ![t] = ticks + ms]
  BY TimerHeapAssumption DEF Register, I, IInv, Types
<1>2. tick.root = NULL /\ NULL \notin Timer /\ t # NULL
  BY <1>1, TimerHeapAssumption DEF IInv, Due
<1>3. Coming = {} /\ Coming' = {t} /\ InHeap = pending /\ InHeap' = InHeap /\ Stored' = Stored
  BY <1>1, <1>2 DEF Coming, InHeap, Stored, IInv, Types
<1>4. Types'
  <2>1. ms \in Nat /\ ticks + ms \in Nat
    BY TimerHeapAssumption DEF IInv, Types
  <2>2. exp' \in [Timer -> Nat]
    BY <1>1, <2>1 DEF IInv, Types
  <2>3. [pc |-> "grow", t |-> t, idx |-> 0] \in InsRecord
    BY DEF InsRecord, TimerOrNull
  <2>4. ins' \in [CPU -> InsRecord]
    BY <2>3 DEF IInv, Types, Register
  <2>5. QED
    BY <1>1, <2>2, <2>4 DEF IInv, Types
<1>5. Contents' /\ Index' = Index /\ \A i \in Index : Exp(i)' = Exp(i)
  <2>1. \A u \in InHeap : exp'[u] = exp[u]
    BY <1>1, <1>3 DEF IInv, Types
  <2>2. QED
    BY <1>1, <1>3, <2>1, Frame
<1>6. Control'
  BY <1>1, <1>3 DEF IInv, Control
<1>7. Order'
  BY <1>1, <1>5, OrderFrame
<1>8. Due'
  <2>1. exp'[t] > ticks
    BY <1>1, TimerHeapAssumption DEF IInv, Types
  <2>2. \A u \in pending' : exp'[u] > ticks'
    BY <1>1, <2>1 DEF IInv, Due, Types
  <2>3. QED
    BY <1>1, <1>2, <2>2 DEF Due
<1>9. QED
  BY <1>4, <1>5, <1>6, <1>7, <1>8 DEF IInv

(* timer_insert makes room: only when there is no array yet.               *)
LEMMA InsertGrowStep ==
    ASSUME Unpressed, IInv, InsertGrow(Bsp)
    PROVE  IInv'
<1>1. /\ I.pc = "grow" /\ I' = [I EXCEPT !.pc = "size"] /\ ins' \in [CPU -> InsRecord]
      /\ tick' = tick /\ size' = size /\ ticks' = ticks /\ pending' = pending /\ exp' = exp
  <2>1. [I EXCEPT !.pc = "size"] \in InsRecord
    BY Locals DEF InsRecord
  <2>2. QED
    BY <2>1, TimerHeapAssumption DEF InsertGrow, I, IInv, Types
<1>2. I'.pc = "size" /\ I'.t = I.t /\ tick.pc = "idle"
  BY <1>1, Locals DEF InsRecord, IInv, Control
<1>3. Coming' = Coming /\ Coming = {I.t} /\ InHeap' = InHeap /\ Stored' = Stored /\ Stored = size
  BY <1>1, <1>2 DEF Coming, InHeap, Stored
<1>4. size < Cardinality(Timer)
  <2>1. I.t \in Timer /\ I.t \notin InHeap
    BY <1>3 DEF IInv, Control, InHeap, Types
  <2>2. QED
    BY <1>3, <2>1, Sizes
<1>5. /\ heap' \in [Slot -> TimerOrNull] /\ cap' \in Nat /\ cap' # 0 /\ cap' >= InitCap
      /\ \A i \in Index : heap'[i] = heap[i]
  <2>1. CASE size = cap
    <3>1. cap = 0 /\ size = 0
      BY <1>4, <2>1, Sizes, TimerHeapAssumption DEF Unpressed, IInv, Control, Types
    <3>2. Index = {}
      BY <1>3, <3>1 DEF Index
    <3>3. QED
      BY <2>1, <3>1, <3>2, TimerHeapAssumption DEF InsertGrow, krealloc, TimerOrNull
  <2>2. CASE size # cap
    BY <2>2 DEF InsertGrow, IInv, Types, Control
  <2>3. QED
    BY <2>1, <2>2
<1>6. Types'
  BY <1>1, <1>5 DEF IInv, Types
<1>7. Contents' /\ Index' = Index /\ \A i \in Index : Exp(i)' = Exp(i)
  BY <1>1, <1>3, <1>5, Frame
<1>8. Control'
  BY <1>1, <1>2, <1>3, <1>5 DEF IInv, Control
<1>9. Order'
  BY <1>1, <1>2, <1>7, OrderFrame
<1>10. Due'
  BY <1>1, <1>2 DEF IInv, Due
<1>11. QED
  BY <1>6, <1>7, <1>8, <1>9, <1>10 DEF IInv
(* timer_insert counts the entry it is about to store.                     *)
LEMMA InsertSizeStep ==
    ASSUME Unpressed, IInv, InsertSize(Bsp)
    PROVE  IInv'
<1>1. /\ I.pc = "size" /\ I' = [I EXCEPT !.pc = "store"] /\ ins' \in [CPU -> InsRecord]
      /\ tick' = tick /\ size' = size + 1 /\ ticks' = ticks /\ pending' = pending /\ exp' = exp
      /\ heap' = heap /\ cap' = cap
  <2>1. [I EXCEPT !.pc = "store"] \in InsRecord
    BY Locals DEF InsRecord
  <2>2. QED
    BY <2>1, TimerHeapAssumption DEF InsertSize, I, IInv, Types
<1>2. I'.pc = "store" /\ I'.t = I.t /\ tick.pc = "idle"
  BY <1>1, Locals DEF InsRecord, IInv, Control
<1>3. Coming' = Coming /\ InHeap' = InHeap /\ Stored' = Stored
  BY <1>1, <1>2 DEF Coming, InHeap, Stored, IInv, Types
<1>4. Types'
  BY <1>1 DEF IInv, Types
<1>5. Contents' /\ Index' = Index /\ \A i \in Index : Exp(i)' = Exp(i)
  BY <1>1, <1>3, Frame
<1>6. Control'
  BY <1>1, <1>2, <1>3 DEF IInv, Control, Types
<1>7. Order'
  BY <1>1, <1>2, <1>5, OrderFrame
<1>8. Due'
  BY <1>1, <1>2 DEF IInv, Due
<1>9. QED
  BY <1>4, <1>5, <1>6, <1>7, <1>8 DEF IInv

(* timer_insert stores the timer in the last slot.                         *)
LEMMA InsertStoreStep ==
    ASSUME Unpressed, IInv, InsertStore(Bsp)
    PROVE  IInv'
<1> DEFINE n == size - 1
<1>1. /\ I.pc = "store" /\ Stored = n /\ n \in Nat /\ size = n + 1 /\ tick.pc = "idle"
      /\ tick.root = NULL /\ NULL \notin Timer
  BY TimerHeapAssumption DEF InsertStore, I, Stored, IInv, Control, Types, Due
<1>2. /\ I' = [I EXCEPT !.pc = "up", !.idx = n] /\ ins' \in [CPU -> InsRecord]
      /\ tick' = tick /\ size' = size /\ ticks' = ticks /\ pending' = pending /\ exp' = exp
      /\ heap' = [heap EXCEPT ![n] = I.t] /\ cap' = cap
  <2>1. [I EXCEPT !.pc = "up", !.idx = n] \in InsRecord
    BY <1>1, Locals DEF InsRecord
  <2>2. QED
    BY <2>1, TimerHeapAssumption DEF InsertStore, I, IInv, Types
<1>3. I'.pc = "up" /\ I'.idx = n /\ I'.t = I.t /\ Stored' = n + 1
  BY <1>1, <1>2, Locals DEF InsRecord, Stored
<1>4. /\ Coming = {I.t} /\ Coming' = {} /\ I.t \in pending /\ I.t \in Timer
      /\ InHeap' = InHeap \cup {I.t} /\ I.t \notin InHeap
  <2>1. Coming = {I.t} /\ Coming' = {}
    BY <1>1, <1>3 DEF Coming
  <2>2. I.t \in pending /\ I.t \in Timer
    BY <2>1 DEF IInv, Control, Types
  <2>3. QED
    BY <1>1, <1>2, <2>1, <2>2 DEF InHeap
<1>5. n \in Slot
  BY <1>1, <1>4, Sizes, TimerHeapAssumption DEF Slot
<1>6. Index = 0..(n - 1) /\ Index' = 0..n /\ n \notin Index /\ Index' = Index \cup {n}
  BY <1>1, <1>3 DEF Index
<1>7. heap' \in [Slot -> TimerOrNull] /\ heap'[n] = I.t /\ \A i \in Index : heap'[i] = heap[i]
  <2>1. I.t \in TimerOrNull
    BY <1>4 DEF TimerOrNull
  <2>2. QED
    BY <1>2, <1>5, <1>6, <2>1, Sizes DEF IInv, Types
<1> HIDE DEF n
<1>8. Types'
  BY <1>2, <1>7 DEF IInv, Types
<1>9. Contents'
  <2>1. Cardinality(InHeap') = Stored'
    <3>1. IsFiniteSet(InHeap) /\ Cardinality(InHeap) = n
      BY <1>1, Sizes DEF IInv, Contents
    <3>2. Cardinality(InHeap \cup {I.t}) = n + 1
      BY <1>4, <3>1, FS_AddElement
    <3>3. QED
      BY <1>3, <1>4, <3>2
  <2>2. \A i \in Index' : heap'[i] \in InHeap'
    BY <1>4, <1>6, <1>7 DEF IInv, Contents
  <2>3. \A t \in InHeap' : \E i \in Index' : heap'[i] = t
    BY <1>4, <1>6, <1>7 DEF IInv, Contents
  <2>4. \A i, j \in Index' : heap'[i] = heap'[j] => i = j
    BY <1>4, <1>6, <1>7 DEF IInv, Contents
  <2>5. QED
    BY <2>1, <2>2, <2>3, <2>4 DEF Contents
<1>10. Control'
  BY <1>1, <1>2, <1>3, <1>4, <1>6 DEF IInv, Control
<1>11. Order'
  <2>1. \A i \in Index : Exp(i)' = Exp(i)
    BY <1>2, <1>7 DEF Exp
  <2>2. \A i \in Index \ {0} : get_parent(i) \in Index /\ Exp(get_parent(i)) <= Exp(i)
    BY <1>1, PlainOrder
  <2>3. \A i \in Index \ {0} : Exp(get_parent(i))' <= Exp(i)'
    BY <2>1, <2>2
  <2>4. \A i \in Index' \ {0} : get_parent(i) # n
    BY <1>1, <1>6, Family
  <2>5. \A i \in Index' \ {0} : (i # n => Ordered(i)') /\ (get_parent(i) # n)
    BY <1>6, <2>3, <2>4 DEF Ordered, get_parent
  <2>6. QED
    BY <1>3, <2>5 DEF Order, Skips
<1>12. Due'
  BY <1>2, <1>1 DEF IInv, Due
<1>13. QED
  BY <1>8, <1>9, <1>10, <1>11, <1>12 DEF IInv

(* An exchange of two entries keeps what the heap holds.                   *)
LEMMA SwapEffect ==
    ASSUME IInv, NEW i \in Index, NEW j \in Index, i # j, heap' = swap(i, j), exp' = exp,
           Stored' = Stored, InHeap' = InHeap
    PROVE  /\ heap' \in [Slot -> TimerOrNull] /\ Contents' /\ Index' = Index
           /\ \A x \in Index :
                Exp(x)' = IF x = i THEN Exp(j) ELSE IF x = j THEN Exp(i) ELSE Exp(x)
<1>1. i \in Slot /\ j \in Slot /\ Index \subseteq Slot /\ Index' = Index
  BY Sizes, Entries DEF Index
<1>2. /\ heap' \in [Slot -> TimerOrNull] /\ heap'[i] = heap[j] /\ heap'[j] = heap[i]
      /\ \A x \in Index \ {i, j} : heap'[x] = heap[x]
  BY <1>1 DEF swap, IInv, Types
<1>3. Contents'
  <2>1. \A x \in Index' : heap'[x] \in InHeap'
    BY <1>1, <1>2 DEF IInv, Contents
  <2>2. \A t \in InHeap' : \E x \in Index' : heap'[x] = t
    BY <1>1, <1>2 DEF IInv, Contents
  <2>3. \A x, y \in Index' : heap'[x] = heap'[y] => x = y
    BY <1>1, <1>2 DEF IInv, Contents
  <2>4. QED
    BY <2>1, <2>2, <2>3 DEF IInv, Contents
<1>4. QED
  BY <1>1, <1>2, <1>3 DEF Exp
(* timer_insert exchanges the new entry with its parent, ...               *)
LEMMA InsertUpStep ==
    ASSUME Unpressed, IInv, InsertUp(Bsp)
    PROVE  IInv'
<1>1. I.pc = "up" /\ I.idx # 0 /\ I.idx \in Index /\ tick.pc = "idle"
  BY DEF InsertUp, I, IInv, Control
<1>2. PICK k, j : k = I.idx /\ j = get_parent(k)
  OBVIOUS
<1>3. k \in Index \ {0} /\ k \in Nat /\ j \in Index /\ j \in Nat /\ j # k
  BY <1>1, <1>2, Sizes, Family DEF Index
<1>4. /\ I' = [I EXCEPT !.idx = j] /\ ins' \in [CPU -> InsRecord] /\ Less(k, j)
      /\ tick' = tick /\ size' = size /\ ticks' = ticks /\ pending' = pending /\ exp' = exp
      /\ heap' = swap(k, j) /\ cap' = cap
  <2>1. [I EXCEPT !.idx = j] \in InsRecord
    BY <1>3, Locals DEF InsRecord
  <2>2. QED
    BY <1>2, <2>1, TimerHeapAssumption DEF InsertUp, I, IInv, Types
<1>5. I'.pc = "up" /\ I'.idx = j /\ I'.t = I.t /\ Stored' = Stored
  BY <1>1, <1>4, Locals DEF InsRecord, Stored
<1>6. Coming = {} /\ Coming' = {} /\ InHeap' = InHeap
  BY <1>1, <1>4, <1>5 DEF Coming, InHeap
<1>7. /\ heap' \in [Slot -> TimerOrNull] /\ Contents' /\ Index' = Index
      /\ \A x \in Index :
           Exp(x)' = IF x = k THEN Exp(j) ELSE IF x = j THEN Exp(k) ELSE Exp(x)
  BY <1>3, <1>4, <1>5, <1>6, SwapEffect
<1>8. Types'
  BY <1>4, <1>7 DEF IInv, Types
<1>9. Control'
  BY <1>1, <1>3, <1>4, <1>5, <1>6, <1>7 DEF IInv, Control
<1>10. Order'
  <2> DEFINE e == [x \in Index |-> Exp(x)]
  <2> DEFINE f == [x \in Index |-> Exp(x)']
  <2>1. \A x \in Index : e[x] = Exp(x) /\ f[x] = Exp(x)'
    OBVIOUS
  <2>2. Keys(e, Index, Stored)
    BY Sizes, Entries DEF Keys, Index
  <2>3. Exchanged(e, f, Index, k, j) /\ e[k] < e[j]
    BY <1>3, <1>4, <1>7, Compare DEF Exchanged
  <2> HIDE DEF e, f
  <2>4. \A x \in Index \ {0} : get_parent(x) \in Index
    BY Sizes, Family DEF Index
  <2>5. UpOrder(e, Index, k)
    <3>1. \A x \in Index \ {0} : (x # k => Ordered(x)) /\ Skips(x, k)
      BY <1>1, <1>2 DEF IInv, Order
    <3>2. get_parent(k) \in Index
      BY <1>2, <1>3
    <3>3. QED
      BY <2>1, <2>4, <3>1, <3>2 DEF Ordered, Skips, UpOrder
  <2>6. UpOrder(f, Index, j)
    BY <1>2, <1>3, <2>2, <2>3, <2>5, SiftUp
  <2>7. \A x \in Index \ {0} :
            /\ x # j => Exp(get_parent(x))' <= Exp(x)'
            /\ j # 0 /\ get_parent(x) = j => Exp(get_parent(j))' <= Exp(x)'
    <3>1. j # 0 => get_parent(j) \in Index
      BY <1>3, <2>4
    <3>2. QED
      BY <2>1, <2>4, <2>6, <3>1 DEF UpOrder
  <2>8. QED
    BY <1>5, <1>7, <2>7 DEF Order, Ordered, Skips, get_parent
<1>11. Due'
  BY <1>1, <1>4 DEF IInv, Due
<1>12. QED
  BY <1>7, <1>8, <1>9, <1>10, <1>11 DEF IInv

(* ... until the parent is not later.                                      *)
LEMMA InsertEndStep ==
    ASSUME Unpressed, IInv, InsertEnd(Bsp)
    PROVE  IInv'
<1>1. I.pc = "up" /\ I.idx \in Index /\ tick.pc = "idle"
  BY DEF InsertEnd, I, IInv, Control
<1>2. /\ I' = [pc |-> "idle", t |-> NULL, idx |-> 0] /\ ins' \in [CPU -> InsRecord]
      /\ tick' = tick /\ size' = size /\ ticks' = ticks /\ pending' = pending /\ exp' = exp
      /\ heap' = heap /\ cap' = cap
  <2>1. [pc |-> "idle", t |-> NULL, idx |-> 0] \in InsRecord
    BY DEF InsRecord, TimerOrNull
  <2>2. QED
    BY <2>1, TimerHeapAssumption DEF InsertEnd, I, IInv, Types
<1>3. I'.pc = "idle" /\ Coming = {} /\ Coming' = {} /\ InHeap' = InHeap /\ Stored' = Stored
  BY <1>1, <1>2 DEF Coming, InHeap, Stored
<1>4. Types'
  BY <1>2 DEF IInv, Types
<1>5. Contents' /\ Index' = Index /\ \A i \in Index : Exp(i)' = Exp(i)
  BY <1>2, <1>3, Frame
<1>6. Control'
  BY <1>1, <1>2, <1>3 DEF IInv, Control
<1>7. Order'
  <2>1. \A x \in Index \ {0} : get_parent(x) \in Index
    BY Sizes, Family DEF Index
  <2>2. ASSUME I.idx # 0 PROVE Ordered(I.idx)
    <3>1. NotLess(I.idx, get_parent(I.idx)) /\ get_parent(I.idx) \in Index
      BY <1>1, <2>1, <2>2 DEF InsertEnd, I
    <3>2. ~(Exp(I.idx) < Exp(get_parent(I.idx)))
      BY <1>1, <3>1, Compare
    <3>3. QED
      BY <1>1, <3>1, <3>2, Entries DEF Ordered
  <2>3. \A x \in Index \ {0} : Ordered(x)
    BY <1>1, <2>2 DEF IInv, Order
  <2>4. \A x \in Index \ {0} : Exp(get_parent(x))' <= Exp(x)'
    BY <1>5, <2>1, <2>3 DEF Ordered
  <2>5. QED
    BY <1>1, <1>2, <1>3, <1>5, <2>4 DEF Order, Ordered, get_parent
<1>8. Due'
  BY <1>1, <1>2 DEF IInv, Due
<1>9. QED
  BY <1>4, <1>5, <1>6, <1>7, <1>8 DEF IInv

-----------------------------------------------------------------------------
(* No timer is on its way into the heap while the handler runs.            *)
LEMMA Handling ==
    ASSUME IInv, tick.pc # "idle" \/ I.pc = "idle"
    PROVE  I.pc = "idle" /\ Coming = {} /\ Stored = size /\ InHeap = pending \ {tick.root}
<1>1. I.pc = "idle"
  BY DEF IInv, Control
<1>2. QED
  BY <1>1 DEF Coming, Stored, InHeap

LEMMA Handled ==
    ASSUME ins' = ins, I.pc = "idle"
    PROVE  I' = I /\ Coming' = {} /\ Stored' = size' /\ InHeap' = pending' \ {tick'.root}
  BY DEF I, Coming, Stored, InHeap

(* system_timer_handler starts.                                            *)
LEMMA TickStep ==
    ASSUME IInv, Tick
    PROVE  IInv'
<1>1. /\ tick.pc = "idle" /\ tick.root = NULL /\ I.pc = "idle" /\ tick' = [tick EXCEPT !.pc = "peek"]
      /\ ticks' = ticks + 1 /\ exp' = exp /\ pending' = pending /\ heap' = heap
      /\ size' = size /\ cap' = cap /\ ins' = ins
  BY DEF Tick, I, IInv, Due
<1>2. tick' \in TickRecord /\ tick'.pc = "peek" /\ tick'.root = NULL
  BY <1>1, Locals DEF TickRecord
<1>3. I' = I /\ Coming' = Coming /\ Stored' = Stored /\ InHeap' = InHeap
  BY <1>1, <1>2, Handling, Handled
<1>4. Types'
  BY <1>1, <1>2 DEF IInv, Types
<1>5. Contents' /\ Index' = Index /\ \A i \in Index : Exp(i)' = Exp(i)
  BY <1>1, <1>3, Frame
<1>6. Control'
  BY <1>1, <1>2, <1>3, <1>5 DEF IInv, Control
<1>7. Order'
  BY <1>1, <1>2, <1>3, <1>5, OrderFrame
<1>8. Due'
  BY <1>2 DEF Due
<1>9. QED
  BY <1>4, <1>5, <1>6, <1>7, <1>8 DEF IInv

(* timer_peek: the root is due, ...                                        *)
LEMMA PeekDueStep ==
    ASSUME IInv, PeekDue
    PROVE  IInv'
<1>1. /\ tick.pc = "peek" /\ tick.root = NULL /\ tick' = [tick EXCEPT !.pc = "pop"] /\ size # 0
      /\ ticks' = ticks /\ exp' = exp /\ pending' = pending /\ heap' = heap
      /\ size' = size /\ cap' = cap /\ ins' = ins /\ \E e \in Reads(0) : e <= ticks
  BY DEF PeekDue, IInv, Due
<1>2. tick' \in TickRecord /\ tick'.pc = "pop" /\ tick'.root = NULL
  BY <1>1, Locals DEF TickRecord
<1>3. I.pc = "idle" /\ I' = I /\ Coming' = Coming /\ Stored' = Stored /\ InHeap' = InHeap /\ Stored = size
  BY <1>1, <1>2, Handling, Handled
<1>4. Types'
  BY <1>1, <1>2 DEF IInv, Types
<1>5. Contents' /\ Index' = Index /\ \A i \in Index : Exp(i)' = Exp(i)
  BY <1>1, <1>3, Frame
<1>6. Control'
  BY <1>1, <1>2, <1>3, <1>5 DEF IInv, Control
<1>7. Order'
  BY <1>1, <1>2, <1>3, <1>5, OrderFrame
<1>8. Due'
  <2>1. 0 \in Index
    BY <1>1, <1>3, Sizes DEF Index
  <2>2. Exp(0) <= ticks
    BY <1>1, <2>1, Entries
  <2>3. QED
    BY <1>1, <1>2, <1>5, <2>1, <2>2 DEF Due
<1>9. QED
  BY <1>4, <1>5, <1>6, <1>7, <1>8 DEF IInv

(* ... or it is not, and then no timer is.                                 *)
LEMMA PeekNoneStep ==
    ASSUME IInv, PeekNone
    PROVE  IInv'
<1>1. /\ tick.pc = "peek" /\ tick.root = NULL /\ tick' = [tick EXCEPT !.pc = "idle"]
      /\ ticks' = ticks /\ exp' = exp /\ pending' = pending /\ heap' = heap
      /\ size' = size /\ cap' = cap /\ ins' = ins
      /\ size = 0 \/ \E e \in Reads(0) : e > ticks
  BY DEF PeekNone, IInv, Due
<1>2. tick' \in TickRecord /\ tick'.pc = "idle" /\ tick'.root = NULL
  BY <1>1, Locals DEF TickRecord
<1>3. /\ I.pc = "idle" /\ I' = I /\ Coming' = Coming /\ Stored' = Stored /\ InHeap' = InHeap
      /\ Stored = size /\ InHeap = pending \ {NULL}
  BY <1>1, <1>2, Handling, Handled
<1>4. Types'
  BY <1>1, <1>2 DEF IInv, Types
<1>5. Contents' /\ Index' = Index /\ \A i \in Index : Exp(i)' = Exp(i)
  BY <1>1, <1>3, Frame
<1>6. Control'
  BY <1>1, <1>2, <1>3, <1>5 DEF IInv, Control
<1>7. Order'
  BY <1>1, <1>2, <1>3, <1>5, OrderFrame
<1>8. Due'
  <2>1. InHeap = pending
    BY <1>3, TimerHeapAssumption DEF IInv, Types
  <2>2. \A t \in pending : exp[t] > ticks
    <3>1. CASE size = 0
      <4>1. Index = {}
        BY <1>3, <3>1 DEF Index
      <4>2. pending = {}
        BY <2>1, <4>1 DEF IInv, Contents
      <4>3. QED
        BY <4>2
    <3>2. CASE size # 0
      <4>1. 0 \in Index /\ \A t \in pending : Exp(0) <= exp[t]
        BY <1>1, <1>3, <2>1, <3>2, RootEarliest
      <4>2. Exp(0) > ticks /\ Exp(0) \in Nat
        BY <1>1, <3>2, <4>1, Entries
      <4>3. ticks \in Nat /\ \A t \in pending : exp[t] \in Nat
        BY DEF IInv, Types
      <4>4. QED
        BY <4>1, <4>2, <4>3
    <3>3. QED
      BY <3>1, <3>2
  <2>3. QED
    BY <1>1, <1>2, <2>2 DEF Due
<1>9. QED
  BY <1>4, <1>5, <1>6, <1>7, <1>8 DEF IInv

(* kevent_launch of the timer that was popped.                             *)
LEMMA LaunchStep ==
    ASSUME IInv, Launch
    PROVE  IInv'
<1>1. /\ tick.pc = "launch" /\ tick' = [tick EXCEPT !.pc = "peek", !.root = NULL]
      /\ ticks' = ticks /\ exp' = exp /\ pending' = pending \ {tick.root} /\ heap' = heap
      /\ size' = size /\ cap' = cap /\ ins' = ins
  BY DEF Launch
<1>2. tick' \in TickRecord /\ tick'.pc = "peek" /\ tick'.root = NULL
  BY <1>1, Locals DEF TickRecord, TimerOrNull
<1>3. I.pc = "idle" /\ I' = I /\ Coming' = {} /\ Stored' = Stored /\ InHeap' = InHeap
  <2>1. /\ I.pc = "idle" /\ Stored = size /\ InHeap = pending \ {tick.root}
        /\ I' = I /\ Coming' = {} /\ Stored' = size' /\ InHeap' = pending' \ {NULL}
    BY <1>1, <1>2, Handling, Handled
  <2>2. NULL \notin pending
    BY TimerHeapAssumption DEF IInv, Types
  <2>3. QED
    BY <1>1, <2>1, <2>2
<1>4. Types'
  BY <1>1, <1>2 DEF IInv, Types
<1>5. Contents' /\ Index' = Index /\ \A i \in Index : Exp(i)' = Exp(i)
  BY <1>1, <1>3, Frame
<1>6. Control'
  BY <1>1, <1>2, <1>3, <1>5 DEF IInv, Control
<1>7. Order'
  BY <1>1, <1>2, <1>3, <1>5, OrderFrame
<1>8. Due'
  BY <1>2 DEF Due
<1>9. QED
  BY <1>4, <1>5, <1>6, <1>7, <1>8 DEF IInv
(* The timer that timer_pop takes: pending, due and the earliest.          *)
LEMMA PopTaken ==
    ASSUME IInv, tick.pc = "pop"
    PROVE  /\ InHeap = pending /\ Stored = size /\ I.pc = "idle" /\ 0 \in Index /\ size \in Nat
           /\ heap[0] \in pending /\ heap[0] \in Timer /\ tick.root = NULL /\ cap # 0
           /\ exp[heap[0]] <= ticks /\ \A t \in pending : exp[heap[0]] <= exp[t]
<1>1. size # 0 /\ Exp(0) <= ticks /\ tick.root = NULL /\ NULL \notin pending /\ cap # 0 /\ size \in Nat
  BY TimerHeapAssumption DEF IInv, Due, Types, Control
<1>2. I.pc = "idle" /\ Stored = size /\ InHeap = pending
  BY <1>1, Handling
<1>3. 0 \in Index /\ \A t \in pending : Exp(0) <= exp[t]
  BY <1>1, <1>2, RootEarliest
<1>4. heap[0] \in pending /\ heap[0] \in Timer
  BY <1>3, Entries
<1>5. QED
  BY <1>1, <1>2, <1>3, <1>4 DEF Exp

(* timer_pop of the only timer.                                            *)
LEMMA PopLastStep ==
    ASSUME IInv, PopLast
    PROVE  IInv'
<1>1. /\ tick.pc = "pop" /\ tick' = [pc |-> "launch", root |-> heap[0], idx |-> 0]
      /\ ticks' = ticks /\ exp' = exp /\ pending' = pending /\ heap' = heap
      /\ size = 1 /\ size' = 0 /\ cap' = cap /\ ins' = ins
  BY DEF PopLast
<1>2. tick' \in TickRecord /\ tick'.pc = "launch" /\ tick'.root = heap[0]
  BY <1>1, PopTaken DEF TickRecord, TimerOrNull
<1>3. I.pc = "idle" /\ I' = I /\ Coming' = {} /\ Stored' = 0 /\ InHeap' = pending \ {heap[0]}
  BY <1>1, <1>2, PopTaken, Handled
<1>4. Types'
  BY <1>1, <1>2 DEF IInv, Types
<1>5. Contents'
  <2>1. Index = {0} /\ InHeap = pending /\ Index' = {}
    BY <1>1, <1>3, PopTaken DEF Index
  <2>2. \A t \in pending : heap[0] = t
    BY <2>1 DEF IInv, Contents
  <2>3. InHeap' = {}
    BY <1>3, <2>2
  <2>4. QED
    BY <1>3, <2>1, <2>3, FS_EmptySet DEF Contents
<1>6. Control'
  BY <1>1, <1>2, <1>3, PopTaken DEF IInv, Control
<1>7. Order'
  BY <1>3 DEF Order, Index
<1>8. Due'
  BY <1>1, <1>2, PopTaken DEF Due
<1>9. QED
  BY <1>4, <1>5, <1>6, <1>7, <1>8 DEF IInv

(* timer_pop of the root: the last entry takes its place.                  *)
LEMMA PopRootStep ==
    ASSUME Unpressed, IInv, PopRoot
    PROVE  IInv'
<1> DEFINE n == size - 1
<1>1. /\ tick.pc = "pop" /\ tick' = [pc |-> "down", root |-> heap[0], idx |-> 0]
      /\ ticks' = ticks /\ exp' = exp /\ pending' = pending /\ ins' = ins
      /\ size' = n /\ size > 1
  BY DEF PopRoot
<1>2. n \in Nat /\ size = n + 1 /\ n # 0 /\ size <= Cardinality(Timer) /\ Index = 0..n
  BY <1>1, PopTaken, Sizes DEF Index
<1>3. heap' = [heap EXCEPT ![0] = heap[n]] /\ cap' = cap
  <2>1. ~(size - 1 > MinHeap)
    BY <1>2, Sizes, TimerHeapAssumption DEF Unpressed
  <2>2. QED
    BY <2>1 DEF PopRoot
<1> HIDE DEF n
<1>4. tick' \in TickRecord /\ tick'.pc = "down" /\ tick'.root = heap[0] /\ tick'.idx = 0
  BY <1>1, PopTaken DEF TickRecord, TimerOrNull
<1>5. I.pc = "idle" /\ I' = I /\ Coming' = {} /\ Stored' = n /\ InHeap' = pending \ {heap[0]}
  BY <1>1, <1>4, PopTaken, Handled
<1>6. /\ Index' = 0..(n - 1) /\ Index' \subseteq Index /\ 0 \in Index' /\ 0 \in Index /\ n \in Index
      /\ \A i \in Index : i = n \/ i \in Index'
      /\ n \notin Index'
  <2>1. Index' = 0..(n - 1)
    BY <1>5 DEF Index
  <2>2. QED
    BY <1>2, <2>1
<1>7. /\ heap' \in [Slot -> TimerOrNull] /\ heap'[0] = heap[n]
      /\ \A i \in Index' \ {0} : heap'[i] = heap[i]
  <2>1. Index \subseteq Slot
    BY Sizes
  <2>2. QED
    BY <1>3, <1>6, <2>1 DEF IInv, Types
<1>8. Types'
  BY <1>1, <1>2, <1>3, <1>4, <1>7 DEF IInv, Types
<1>9. Contents'
  <2>1. InHeap = pending /\ heap[0] \in pending /\ IsFiniteSet(pending) /\ Cardinality(pending) = n + 1
    BY <1>1, <1>2, PopTaken, Sizes DEF IInv, Contents
  <2>2. Cardinality(InHeap') = n
    <3>1. Cardinality(pending \ {heap[0]}) = Cardinality(pending) - 1
      BY <2>1, FS_RemoveElement
    <3>2. QED
      BY <1>2, <1>5, <2>1, <3>1
  <2>3. \A i \in Index' : heap'[i] \in InHeap'
    BY <1>2, <1>5, <1>6, <1>7, <2>1 DEF IInv, Contents
  <2>4. \A t \in InHeap' : \E i \in Index' : heap'[i] = t
    <3> SUFFICES ASSUME NEW t \in InHeap' PROVE \E i \in Index' : heap'[i] = t
      OBVIOUS
    <3>1. PICK i \in Index : heap[i] = t
      BY <1>5, <2>1 DEF IInv, Contents
    <3>2. i # 0
      BY <1>5, <3>1
    <3>3. QED
      BY <1>6, <1>7, <3>1, <3>2
  <2>5. \A i, j \in Index' : heap'[i] = heap'[j] => i = j
    BY <1>6, <1>7 DEF IInv, Contents
  <2>6. QED
    BY <1>5, <2>2, <2>3, <2>4, <2>5 DEF Contents
<1>10. Control'
  BY <1>1, <1>3, <1>4, <1>5, <1>6, PopTaken DEF IInv, Control
<1>11. Order'
  <2>1. \A i \in Index \ {0} : get_parent(i) \in Index /\ Exp(get_parent(i)) <= Exp(i)
    BY <1>1, <1>5, PlainOrder
  <2>2. \A i \in Index' \ {0} : get_parent(i) \in Index'
    <3> SUFFICES ASSUME NEW i \in Index' \ {0} PROVE get_parent(i) \in Index'
      OBVIOUS
    <3>1. i \in Nat /\ i # 0 /\ i <= n - 1
      BY <1>2, <1>6
    <3>2. get_parent(i) \in Nat /\ get_parent(i) < i
      BY <3>1, Family
    <3>3. QED
      BY <1>2, <1>6, <3>1, <3>2
  <2>3. \A i \in Index' \ {0} : Exp(i)' = Exp(i)
    BY <1>1, <1>7 DEF Exp
  <2>4. \A i \in Index' \ {0} : get_parent(i) # 0 => Exp(get_parent(i))' <= Exp(i)'
    BY <1>6, <2>1, <2>2, <2>3
  <2>5. QED
    BY <1>4, <1>5, <2>4 DEF Order, Ordered, Skips, get_parent
<1>12. Due'
  BY <1>1, <1>4, PopTaken DEF Due
<1>13. QED
  BY <1>8, <1>9, <1>10, <1>11, <1>12 DEF IInv
(* min_heapify exchanges the entry k with its child c, earlier than k and  *)
(* not later than the other child.                                         *)
LEMMA DownStep ==
    ASSUME IInv, tick.pc = "down", NEW c \in Index \ {0}, get_parent(c) = tick.idx,
           Exp(c) < Exp(tick.idx),
           \A x \in Index \ {0} : get_parent(x) = tick.idx => Exp(c) <= Exp(x),
           DownTo(c), UNCHANGED <<ticks, exp, pending, size, cap, ins>>
    PROVE  IInv'
<1>1. PICK k : k = tick.idx
  OBVIOUS
<1>2. k \in Index /\ k # c /\ c \in Nat
  BY <1>1, Sizes, Family DEF IInv, Control, Index
<1>3. /\ tick' = [tick EXCEPT !.idx = c] /\ heap' = swap(k, c)
      /\ ticks' = ticks /\ exp' = exp /\ pending' = pending /\ size' = size /\ cap' = cap /\ ins' = ins
  BY <1>1 DEF DownTo
<1>4. tick' \in TickRecord /\ tick'.pc = "down" /\ tick'.root = tick.root /\ tick'.idx = c
  BY <1>2, <1>3, Locals DEF TickRecord
<1>5. I.pc = "idle" /\ I' = I /\ Coming' = {} /\ Stored' = Stored /\ InHeap' = InHeap
  BY <1>3, <1>4, Handling, Handled
<1>6. /\ heap' \in [Slot -> TimerOrNull] /\ Contents' /\ Index' = Index
      /\ \A x \in Index :
           Exp(x)' = IF x = k THEN Exp(c) ELSE IF x = c THEN Exp(k) ELSE Exp(x)
  BY <1>2, <1>3, <1>5, SwapEffect
<1>7. Types'
  BY <1>3, <1>4, <1>6 DEF IInv, Types
<1>8. Control'
  BY <1>3, <1>4, <1>5, <1>6 DEF IInv, Control
<1>9. Order'
  <2> DEFINE e == [x \in Index |-> Exp(x)]
  <2> DEFINE f == [x \in Index |-> Exp(x)']
  <2>1. \A x \in Index : e[x] = Exp(x) /\ f[x] = Exp(x)'
    OBVIOUS
  <2>2. Keys(e, Index, Stored)
    BY Sizes, Entries DEF Keys, Index
  <2>3. /\ Exchanged(e, f, Index, k, c) /\ e[c] < e[k]
        /\ \A x \in Index \ {0} : get_parent(x) = k => e[c] <= e[x]
    BY <1>1, <1>2, <1>6 DEF Exchanged
  <2> HIDE DEF e, f
  <2>4. \A x \in Index \ {0} : get_parent(x) \in Index
    BY Sizes, Family DEF Index
  <2>5. DownOrder(e, Index, k)
    <3>1. \A x \in Index \ {0} : (get_parent(x) # k => Ordered(x)) /\ Skips(x, k)
      BY <1>1, <1>5 DEF IInv, Order
    <3>2. k # 0 => get_parent(k) \in Index
      BY <1>2, <2>4
    <3>3. QED
      BY <2>1, <2>4, <3>1, <3>2 DEF Ordered, Skips, DownOrder
  <2>6. DownOrder(f, Index, c)
    BY <1>1, <1>2, <2>2, <2>3, <2>5, SiftDown
  <2>7. \A x \in Index \ {0} :
            /\ get_parent(x) # c => Exp(get_parent(x))' <= Exp(x)'
            /\ c # 0 /\ get_parent(x) = c => Exp(get_parent(c))' <= Exp(x)'
    <3>1. get_parent(c) \in Index
      BY <2>4
    <3>2. QED
      BY <2>1, <2>4, <2>6, <3>1 DEF DownOrder
  <2>8. QED
    BY <1>4, <1>5, <1>6, <2>7 DEF Order, Ordered, Skips, get_parent
<1>10. Due'
  BY <1>3, <1>4 DEF IInv, Due
<1>11. QED
  BY <1>6, <1>7, <1>8, <1>9, <1>10 DEF IInv

(* The tests of min_heapify on the two children.                           *)
LEMMA Children ==
    ASSUME IInv, tick.pc = "down", NEW k, k = tick.idx, NEW l, l = LeftOf(k), NEW r, r = RightOf(k)
    PROVE  /\ k \in Index /\ Stored = size /\ I.pc = "idle"
           /\ \A x \in Index \ {0} : get_parent(x) = k => x = l \/ x = r
           /\ l < size <=> l \in Index \ {0}
           /\ r < size <=> r \in Index \ {0}
           /\ r < size => l < size
           /\ get_parent(l) = k /\ get_parent(r) = k
<1>1. k \in Index /\ Stored = size /\ I.pc = "idle" /\ size \in Nat /\ Index = 0..(size - 1)
  BY Handling DEF IInv, Control, Types, Index
<1>2. k \in Nat
  BY <1>1
<1>3. /\ l \in Nat /\ r \in Nat /\ l > k /\ r = l + 1 /\ get_parent(l) = k /\ get_parent(r) = k
      /\ \A j \in Nat \ {0} : get_parent(j) = k => j = l \/ j = r
  BY <1>2, Family
<1>4. \A x \in Index \ {0} : x \in Nat \ {0}
  BY <1>1
<1>5. QED
  BY <1>1, <1>2, <1>3, <1>4
LEMMA HeapifyLeftStep ==
    ASSUME IInv, HeapifyLeft
    PROVE  IInv'
<1>1. PICK k, l, r : k = tick.idx /\ l = LeftOf(k) /\ r = RightOf(k)
  OBVIOUS
<1>2. /\ tick.pc = "down" /\ l < size /\ Less(l, k) /\ (r < size => NotLess(r, l)) /\ DownTo(l)
      /\ UNCHANGED <<ticks, exp, pending, size, cap, ins>>
  BY <1>1 DEF HeapifyLeft, Earlier, NotEarlier
<1>3. /\ k \in Index /\ l \in Index \ {0} /\ get_parent(l) = k
      /\ \A x \in Index \ {0} : get_parent(x) = k => x = l \/ x = r
      /\ r < size <=> r \in Index \ {0}
  BY <1>1, <1>2, Children
<1>4. Exp(l) < Exp(k) /\ Exp(l) \in Nat
  BY <1>2, <1>3, Compare, Entries
<1>5. \A x \in Index \ {0} : get_parent(x) = k => Exp(l) <= Exp(x)
  <2>1. ASSUME r \in Index \ {0} PROVE Exp(l) <= Exp(r)
    BY <1>2, <1>3, <1>4, <2>1, Compare, Entries
  <2>2. QED
    BY <1>3, <1>4, <2>1
<1>6. QED
  BY <1>1, <1>2, <1>3, <1>4, <1>5, DownStep

LEMMA HeapifyRightStep ==
    ASSUME IInv, HeapifyRight
    PROVE  IInv'
<1>1. PICK k, l, r : k = tick.idx /\ l = LeftOf(k) /\ r = RightOf(k)
  OBVIOUS
<1>2. /\ tick.pc = "down" /\ r < size /\ DownTo(r)
      /\ \/ l < size /\ Less(l, k) /\ Less(r, l)
         \/ (l < size => NotLess(l, k)) /\ Less(r, k)
      /\ UNCHANGED <<ticks, exp, pending, size, cap, ins>>
  BY <1>1 DEF HeapifyRight, Earlier, NotEarlier
<1>3. /\ k \in Index /\ l \in Index \ {0} /\ r \in Index \ {0} /\ get_parent(r) = k /\ l < size
      /\ \A x \in Index \ {0} : get_parent(x) = k => x = l \/ x = r
  BY <1>1, <1>2, Children
<1>4. Exp(l) \in Nat /\ Exp(r) \in Nat /\ Exp(k) \in Nat
  BY <1>3, Entries
<1>5. \/ Exp(l) < Exp(k) /\ Exp(r) < Exp(l)
      \/ ~(Exp(l) < Exp(k)) /\ Exp(r) < Exp(k)
  BY <1>2, <1>3, Compare
<1>6. Exp(r) < Exp(k) /\ Exp(r) <= Exp(l) /\ Exp(r) <= Exp(r)
  BY <1>4, <1>5
<1>7. \A x \in Index \ {0} : get_parent(x) = k => Exp(r) <= Exp(x)
  BY <1>3, <1>6
<1>8. QED
  BY <1>1, <1>2, <1>3, <1>6, <1>7, DownStep

LEMMA HeapifyEndStep ==
    ASSUME IInv, HeapifyEnd
    PROVE  IInv'
<1>1. PICK k, l, r : k = tick.idx /\ l = LeftOf(k) /\ r = RightOf(k)
  OBVIOUS
<1>2. /\ tick.pc = "down" /\ (l < size => NotLess(l, k)) /\ (r < size => NotLess(r, k))
      /\ tick' = [tick EXCEPT !.pc = "launch", !.idx = 0]
      /\ ticks' = ticks /\ exp' = exp /\ pending' = pending /\ heap' = heap
      /\ size' = size /\ cap' = cap /\ ins' = ins
  BY <1>1 DEF HeapifyEnd, NotEarlier
<1>3. tick' \in TickRecord /\ tick'.pc = "launch" /\ tick'.root = tick.root
  BY <1>2, Locals DEF TickRecord
<1>4. I.pc = "idle" /\ I' = I /\ Coming' = {} /\ Stored' = Stored /\ InHeap' = InHeap
  BY <1>2, <1>3, Handling, Handled
<1>5. Types'
  BY <1>2, <1>3 DEF IInv, Types
<1>6. Contents' /\ Index' = Index /\ \A i \in Index : Exp(i)' = Exp(i)
  BY <1>2, <1>4, Frame
<1>7. Control'
  BY <1>2, <1>3, <1>4, <1>6 DEF IInv, Control
<1>8. Order'
  <2>1. /\ k \in Index /\ (l < size <=> l \in Index \ {0}) /\ (r < size <=> r \in Index \ {0})
        /\ \A x \in Index \ {0} : get_parent(x) = k => x = l \/ x = r
    BY <1>1, <1>2, Children
  <2>2. \A x \in Index \ {0} : get_parent(x) \in Index
    BY Sizes, Family DEF Index
  <2>3. ASSUME NEW x \in Index \ {0} PROVE Exp(get_parent(x)) <= Exp(x)
    <3>1. CASE get_parent(x) = k
      <4>1. NotLess(x, k)
        BY <1>2, <2>1, <3>1
      <4>2. ~(Exp(x) < Exp(k)) /\ Exp(x) \in Nat /\ Exp(k) \in Nat
        BY <2>1, <4>1, Compare, Entries
      <4>3. QED
        BY <3>1, <4>2
    <3>2. CASE get_parent(x) # k
      BY <1>1, <1>2, <1>4, <3>2 DEF IInv, Order, Ordered
    <3>3. QED
      BY <3>1, <3>2
  <2>4. \A x \in Index \ {0} : Exp(get_parent(x))' <= Exp(x)'
    BY <1>6, <2>2, <2>3
  <2>5. QED
    BY <1>3, <1>4, <1>6, <2>4 DEF Order, Ordered, get_parent
<1>9. Due'
  BY <1>2, <1>3 DEF IInv, Due
<1>10. QED
  BY <1>5, <1>6, <1>7, <1>8, <1>9 DEF IInv

-----------------------------------------------------------------------------
(* The inductive invariant: what the heap holds, its order but for the     *)
(* entry that moves, and what is due.                                      *)
LEMMA HeapInvariant ==
    ASSUME Unpressed
    PROVE  Spec => []IInv
<1>1. Init => IInv
  <2> SUFFICES ASSUME Init PROVE IInv
    OBVIOUS
  <2>1. /\ I = [pc |-> "idle", t |-> NULL, idx |-> 0] /\ pending = {} /\ size = 0
        /\ tick = [pc |-> "idle", root |-> NULL, idx |-> 0] /\ cap = 0
    BY TimerHeapAssumption DEF Init, I
  <2>2. Coming = {} /\ InHeap = {} /\ Stored = 0 /\ Index = {}
    BY <2>1 DEF Coming, InHeap, Stored, Index
  <2>3. Types
    <3>1. /\ [pc |-> "idle", t |-> NULL, idx |-> 0] \in InsRecord
          /\ [pc |-> "idle", root |-> NULL, idx |-> 0] \in TickRecord
      BY DEF InsRecord, TickRecord, TimerOrNull
    <3>2. heap \in [Slot -> TimerOrNull]
      BY DEF Init, TimerOrNull
    <3>3. QED
      BY <2>1, <3>1, <3>2 DEF Init, Types
  <2>4. Contents
    BY <2>2, FS_EmptySet DEF Contents
  <2>5. Control /\ Order /\ Due
    BY <2>1, <2>2 DEF Control, Order, Due
  <2>6. QED
    BY <2>3, <2>4, <2>5 DEF IInv
<1>2. IInv /\ [Next]_vars => IInv'
  <2> SUFFICES ASSUME IInv, [Next]_vars PROVE IInv'
    OBVIOUS
  <2>1. CASE UNCHANGED vars
    <3>1. I' = I /\ UNCHANGED <<ticks, exp, pending, heap, size, cap, ins, tick>>
      BY <2>1 DEF vars, I
    <3>2. Stored' = Stored /\ Coming' = Coming
      BY <3>1 DEF Stored, Coming
    <3>3. Index' = Index /\ InHeap' = InHeap
      BY <3>1, <3>2 DEF Index, InHeap
    <3>4. Types' /\ Control'
      BY <3>1, <3>2, <3>3 DEF IInv, Types, Control
    <3>5. Contents'
      BY <3>1, <3>2, <3>3 DEF IInv, Contents
    <3>6. Order'
      BY <3>1, <3>3 DEF IInv, Order, Ordered, Skips, Exp
    <3>7. Due'
      BY <3>1 DEF IInv, Due, Exp
    <3>8. QED
      BY <3>4, <3>5, <3>6, <3>7 DEF IInv
  <2>2. CASE Tick
    BY <2>2, TickStep
  <2>3. CASE Handler
    BY <2>3, PeekDueStep, PeekNoneStep, PopLastStep, PopRootStep, HeapifyLeftStep,
       HeapifyRightStep, HeapifyEndStep, LaunchStep DEF Handler
  <2>4. CASE Insert(Bsp)
    BY <2>4, InsertGrowStep, InsertSizeStep, InsertStoreStep, InsertUpStep, InsertEndStep DEF Insert
  <2>5. CASE \E t \in Timer, ms \in Delay : Register(Bsp, t, ms)
    BY <2>5, RegisterStep
  <2>6. QED
    BY <2>1, <2>2, <2>3, <2>4, <2>5 DEF Next, Unpressed
<1>3. QED
  BY <1>1, <1>2, PTL DEF Spec

(* On one processor, and while the array is not reallocated, the heap      *)
(* holds every pending timer once: timer_insert, timer_pop and min_heapify *)
(* lose none, for any number of timers and any delays.                     *)
THEOREM NoTimerLostHolds ==
    ASSUME Unpressed
    PROVE  Spec => []NoTimerLost
<1>1. IInv => NoTimerLost
  <2> SUFFICES ASSUME IInv, NoInsert PROVE
                 /\ {heap[i] : i \in Used} = pending \ {tick.root}
                 /\ \A i, j \in Used : i # j => heap[i] # heap[j]
    BY DEF NoTimerLost
  <2>1. I.pc = "idle"
    BY TimerHeapAssumption DEF NoInsert, I
  <2>2. Stored = size /\ InHeap = pending \ {tick.root} /\ Used = Index
    BY <2>1, Handling DEF Used, Index
  <2>3. QED
    BY <2>2 DEF IInv, Contents
<1>2. QED
  BY <1>1, HeapInvariant, PTL

(* Under the same conditions the heap implements TimerQueue: every timer   *)
(* is launched by the first tick at or after its expiration time, the      *)
(* earlier first.                                                          *)
THEOREM HeapImplements ==
    ASSUME Unpressed
    PROVE  Spec => ImplementsTimerQueue
<1>1. Init => Abstract!Init
  BY DEF Init, Abstract!Init
<1>2. IInv /\ [Next]_vars => [Abstract!Next]_(Abstract!vars)
  <2> SUFFICES ASSUME IInv, [Next]_vars PROVE [Abstract!Next]_(Abstract!vars)
    OBVIOUS
  <2>1. CASE Tick
    <3>1. tick.pc = "idle" /\ ticks' = ticks + 1 /\ UNCHANGED <<exp, pending>>
      BY <2>1 DEF Tick
    <3>2. \A t \in Timer : ~(t \in pending /\ exp[t] <= ticks)
      BY <3>1 DEF IInv, Due, Types
    <3>3. QED
      BY <3>1, <3>2 DEF Abstract!Next, Abstract!Tick, Abstract!Due
  <2>2. CASE Launch
    <3>1. tick.pc = "launch" /\ pending' = pending \ {tick.root} /\ UNCHANGED <<ticks, exp>>
      BY <2>2 DEF Launch
    <3>2. /\ tick.root \in pending /\ tick.root \in Timer /\ exp[tick.root] <= ticks
          /\ \A t \in pending : exp[tick.root] <= exp[t]
      BY <3>1 DEF IInv, Due, Types
    <3>3. Abstract!Launch(tick.root)
      BY <3>1, <3>2 DEF Abstract!Launch, Abstract!Due
    <3>4. QED
      BY <3>2, <3>3 DEF Abstract!Next
  <2>3. CASE \E t \in Timer, ms \in Delay : Register(Bsp, t, ms)
    BY <2>3 DEF Register, Abstract!Next, Abstract!Register
  <2>4. CASE UNCHANGED <<ticks, exp, pending>>
    BY <2>4 DEF Abstract!vars
  <2>5. QED
    BY <2>1, <2>2, <2>3, <2>4 DEF Next, Unpressed, vars, Handler, Insert, PeekDue, PeekNone,
       PopLast, PopRoot, HeapifyLeft, HeapifyRight, HeapifyEnd, InsertGrow, InsertSize,
       InsertStore, InsertUp, InsertEnd
<1>3. QED
  BY <1>1, <1>2, HeapInvariant, PTL DEF Spec, ImplementsTimerQueue, Abstract!Spec
=============================================================================
