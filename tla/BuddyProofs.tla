---------------------------- MODULE BuddyProofs ----------------------------
(***************************************************************************)
(* Theorems about Buddy, for any number of pages and orders and any memory *)
(* map: pages are neither lost nor given out twice, the pair bits never    *)
(* lie, and the allocator implements PageAlloc.                            *)
(***************************************************************************)
EXTENDS Buddy, FiniteSetTheorems, SequenceTheorems, TLAPS

-----------------------------------------------------------------------------
(* Arithmetic of aligned pages.                                            *)

(* Aligned pages are the multiples of the block size.                      *)
LEMMA Multiple ==
    ASSUME NEW s \in Nat \ {0}, NEW n \in Nat
    PROVE  n % s = 0 <=> \E k \in Nat : n = k * s
<1>1. ASSUME n % s = 0 PROVE \E k \in Nat : n = k * s
  BY <1>1, SMT
<1>2. ASSUME NEW k \in Nat PROVE (k * s) % s = 0
  BY SMT
<1>3. QED
  BY <1>1, <1>2

(* Two multiples of s closer than s are equal.                             *)
LEMMA MultiplesApart ==
    ASSUME NEW s \in Nat \ {0}, NEW j \in Nat, NEW k \in Nat, j * s < k * s
    PROVE  j * s + s <= k * s
<1>1. j < k
  BY SMT
<1>2. (j + 1) * s <= k * s
  BY <1>1, SMT
<1>3. (j + 1) * s = j * s + s
  BY SMT
<1>4. QED
  BY <1>2, <1>3

(* Dividing a multiple gives its factor; the pair number halves it.        *)
LEMMA Quotients ==
    ASSUME NEW s \in Nat \ {0}, NEW k \in Nat
    PROVE  (k * s) \div s = k /\ (k * s) \div (2 * s) = k \div 2
<1>1. (k * s) \div s = k
  BY SMT
<1>2. (k * s) \div (2 * s) = k \div 2
  BY SMT
<1>3. QED
  BY <1>1, <1>2

(* The lower half of a block: its buddy is the upper half, in the same     *)
(* pair, and both halves are aligned.                                      *)
LEMMA LowerHalf ==
    ASSUME NEW o \in Order, o < HighOrder, NEW n \in Nat, Aligned(n, o + 1)
    PROVE  /\ Aligned(n, o) /\ Aligned(n + order2size[o], o)
           /\ ~Aligned(n + order2size[o], o + 1)
           /\ get_buddy(n, o) = n + order2size[o]
           /\ get_buddy(n + order2size[o], o) = n
           /\ PairOf(n + order2size[o], o) = PairOf(n, o)
<1> DEFINE s == order2size[o]
<1>1. s \in Nat \ {0} /\ order2size[o + 1] = 2 * s /\ 2 * s \in Nat \ {0}
  BY BuddyAssumption DEF Order
<1>2. PICK k \in Nat : n = k * (2 * s)
  BY <1>1, Multiple DEF Aligned
<1>3. n = (2 * k) * s /\ n + s = (2 * k + 1) * s
  <2> HIDE DEF s
  <2>1. QED
    BY <1>1, <1>2, SMT
<1>4. n \div s = 2 * k /\ (n + s) \div s = 2 * k + 1
  <2> HIDE DEF s
  <2>1. 2 * k \in Nat /\ 2 * k + 1 \in Nat
    OBVIOUS
  <2>2. ((2 * k) * s) \div s = 2 * k
    BY <1>1, <2>1, Quotients
  <2>3. ((2 * k + 1) * s) \div s = 2 * k + 1
    BY <1>1, <2>1, Quotients
  <2>4. QED
    BY <1>3, <2>2, <2>3
<1>5. n \div (2 * s) = k /\ (n + s) \div (2 * s) = k
  <2> HIDE DEF s
  <2>1. (2 * k) \div 2 = k /\ (2 * k + 1) \div 2 = k
    OBVIOUS
  <2>2. QED
    BY <1>1, <1>3, <2>1, Quotients
<1>6. n % s = 0 /\ (n + s) % s = 0
  <2> HIDE DEF s
  <2>1. QED
    BY <1>1, <1>3, Multiple
<1>7. (n + s) % (2 * s) # 0
  <2> HIDE DEF s
  <2> SUFFICES ASSUME (n + s) % (2 * s) = 0 PROVE FALSE
    OBVIOUS
  <2>1. n + s \in Nat
    BY <1>1
  <2>2. PICK j \in Nat : n + s = j * (2 * s)
    BY <1>1, <2>1, Multiple
  <2>3. n + s = (2 * j) * s
    BY <1>1, <2>2, SMT
  <2>4. 2 * j \in Nat
    OBVIOUS
  <2>5. ((2 * j) * s) \div s = 2 * j
    BY <1>1, <2>4, Quotients
  <2>6. 2 * k + 1 = 2 * j
    BY <1>4, <2>3, <2>5
  <2>7. QED
    BY <2>6
<1>8. (2 * k) % 2 = 0 /\ (2 * k + 1) % 2 = 1
  OBVIOUS
<1>9. QED
  BY <1>1, <1>4, <1>5, <1>6, <1>7, <1>8 DEF Aligned, get_buddy, PairOf

(* The upper half of a pair: its buddy is the lower half.                  *)
LEMMA UpperHalf ==
    ASSUME NEW o \in Order, o < HighOrder, NEW n \in Nat, Aligned(n, o),
           ~Aligned(n, o + 1)
    PROVE  /\ n - order2size[o] \in Nat /\ Aligned(n - order2size[o], o + 1)
           /\ get_buddy(n, o) = n - order2size[o]
<1> DEFINE s == order2size[o]
<1>1. s \in Nat \ {0} /\ order2size[o + 1] = 2 * s /\ 2 * s \in Nat \ {0}
  BY BuddyAssumption DEF Order
<1>2. PICK k \in Nat : n = k * s
  BY <1>1, Multiple DEF Aligned
<1>3. k % 2 = 1
  <2> SUFFICES ASSUME k % 2 = 0 PROVE FALSE
    OBVIOUS
  <2>1. PICK j \in Nat : k = 2 * j
    BY SMT
  <2>2. n = j * (2 * s)
    <3> HIDE DEF s
    <3>1. QED
      BY <1>1, <1>2, <2>1, SMT
  <2>3. QED
    BY <1>1, <2>2, Multiple DEF Aligned
<1>4. PICK j \in Nat : k = 2 * j + 1
  BY <1>3, SMT
<1>5. n - s = j * (2 * s)
  <2> HIDE DEF s
  <2>1. QED
    BY <1>1, <1>2, <1>4, SMT
<1>6. j * (2 * s) \in Nat
  BY <1>1
<1>7. n \div s = k
  <2> HIDE DEF s
  <2>1. QED
    BY <1>1, <1>2, Quotients
<1>8. (n - s) % (2 * s) = 0
  <2> HIDE DEF s
  <2>1. QED
    BY <1>1, <1>5, <1>6, Multiple
<1>9. QED
  BY <1>1, <1>3, <1>5, <1>6, <1>7, <1>8 DEF Aligned, get_buddy

(* A pair's number determines its lower half.                              *)
LEMMA PairDetermines ==
    ASSUME NEW o \in Order, o < HighOrder, NEW m \in Nat, NEW n \in Nat,
           Aligned(m, o + 1), Aligned(n, o + 1), PairOf(m, o) = PairOf(n, o)
    PROVE  m = n
<1> DEFINE t == 2 * order2size[o]
<1>1. t \in Nat \ {0} /\ order2size[o + 1] = t
  BY BuddyAssumption DEF Order
<1> HIDE DEF t
<1>2. PICK j \in Nat : m = j * t
  BY <1>1, Multiple DEF Aligned
<1>3. PICK k \in Nat : n = k * t
  BY <1>1, Multiple DEF Aligned
<1>4. m \div t = j /\ n \div t = k
  BY <1>1, <1>2, <1>3, Quotients
<1>5. QED
  BY <1>2, <1>3, <1>4 DEF PairOf, t

(* Aligned blocks of one order overlap only if they are the same.          *)
LEMMA SameOrderApart ==
    ASSUME NEW o \in Order, NEW m \in Nat, NEW n \in Nat,
           Aligned(m, o), Aligned(n, o), m < n
    PROVE  m + order2size[o] <= n
<1> DEFINE s == order2size[o]
<1>1. s \in Nat \ {0}
  BY BuddyAssumption
<1> HIDE DEF s
<1>2. PICK j \in Nat : m = j * s
  BY <1>1, Multiple DEF Aligned, s
<1>3. PICK k \in Nat : n = k * s
  BY <1>1, Multiple DEF Aligned, s
<1>4. QED
  BY <1>1, <1>2, <1>3, MultiplesApart DEF s

-----------------------------------------------------------------------------
(* A set of blocks that are aligned, do not overlap and cover exactly U.   *)
Covers(B, U) == UNION {Span(b[1], b[2]) : b \in B} = U

Apart(B) == \A a, b \in B : a # b => ~Overlap(a, b)

Tiling(B, U) ==
    /\ B \subseteq Block
    /\ \A b \in B : Aligned(b[1], b[2])
    /\ Apart(B)
    /\ Covers(B, U)

(* A block's first page is one of its pages.                               *)
LEMMA FirstPage ==
    ASSUME NEW n \in Page, NEW o \in Order
    PROVE  n \in Span(n, o)
BY BuddyAssumption DEF Page, Span

(* Both halves together are the block, and they do not overlap.            *)
LEMMA Halves ==
    ASSUME NEW o \in Order, o < HighOrder, NEW n \in Nat
    PROVE  /\ Span(n, o + 1) = Span(n, o) \cup Span(n + order2size[o], o)
           /\ Span(n, o) \cap Span(n + order2size[o], o) = {}
           /\ o + 1 \in Order
<1>1. order2size[o] \in Nat \ {0} /\ order2size[o + 1] = 2 * order2size[o]
      /\ o + 1 \in Order
  BY BuddyAssumption DEF Order
<1>2. QED
  BY <1>1 DEF Span

(* Replacing some blocks of a tiling by aligned ones that cover the same   *)
(* pages and do not overlap gives a tiling.                                *)
LEMMA TilingReplace ==
    ASSUME NEW B, NEW U, Tiling(B, U),
           NEW X, X \subseteq B,
           NEW Y, Y \subseteq Block, \A b \in Y : Aligned(b[1], b[2]), Apart(Y),
           UNION {Span(b[1], b[2]) : b \in X} = UNION {Span(b[1], b[2]) : b \in Y}
    PROVE  Tiling((B \ X) \cup Y, U)
<1> DEFINE C == (B \ X) \cup Y
<1>1. C \subseteq Block /\ \A b \in C : Aligned(b[1], b[2])
  BY DEF Tiling
<1>2. Covers(C, U)
  BY DEF Tiling, Covers
<1>3. Apart(C)
  <2> SUFFICES ASSUME NEW a \in C, NEW b \in C, a # b,
                      NEW p \in Span(a[1], a[2]), p \in Span(b[1], b[2])
               PROVE  FALSE
    BY DEF Apart, Overlap
  <2>1. CASE a \in Y /\ b \in Y
    BY <2>1 DEF Apart, Overlap
  <2>2. CASE a \in B \ X /\ b \in B \ X
    BY <2>2 DEF Tiling, Apart, Overlap
  <2>3. ASSUME NEW c \in B \ X, NEW d \in Y,
               p \in Span(c[1], c[2]), p \in Span(d[1], d[2])
        PROVE  FALSE
    <3>1. PICK x \in X : p \in Span(x[1], x[2])
      BY <2>3
    <3>2. c # x /\ x \in B
      BY <3>1
    <3>3. QED
      BY <2>3, <3>1, <3>2 DEF Tiling, Apart, Overlap
  <2>4. QED
    BY <2>1, <2>2, <2>3
<1>4. QED
  BY <1>1, <1>2, <1>3 DEF Tiling

(* buddy_alloc's split keeps a tiling.                                     *)
LEMMA TilingSplit ==
    ASSUME NEW B, NEW U, Tiling(B, U), NEW n \in Page, NEW o \in Order,
           o < HighOrder, <<n, o + 1>> \in B, n + order2size[o] \in Page
    PROVE  Tiling((B \ {<<n, o + 1>>}) \cup {<<n, o>>, <<n + order2size[o], o>>}, U)
<1> DEFINE m == n + order2size[o]
<1> DEFINE X == {<<n, o + 1>>}
<1> DEFINE Y == {<<n, o>>, <<m, o>>}
<1>1. n \in Nat /\ Aligned(n, o + 1)
  BY DEF Tiling, Page
<1>2. Aligned(n, o) /\ Aligned(m, o)
  BY <1>1, LowerHalf
<1>3. Y \subseteq Block /\ \A b \in Y : Aligned(b[1], b[2])
  BY <1>2 DEF Block
<1>4. Span(n, o + 1) = Span(n, o) \cup Span(m, o) /\ Span(n, o) \cap Span(m, o) = {}
  BY <1>1, Halves
<1>5. Apart(Y)
  BY <1>4 DEF Apart, Overlap
<1>6. UNION {Span(b[1], b[2]) : b \in X} = UNION {Span(b[1], b[2]) : b \in Y}
  BY <1>4
<1>7. X \subseteq B
  OBVIOUS
<1> HIDE DEF X, Y, m
<1>8. Tiling((B \ X) \cup Y, U)
  BY <1>3, <1>5, <1>6, <1>7, TilingReplace
<1>9. QED
  BY <1>8 DEF X, Y, m

(* buddy_free's merge keeps a tiling.                                      *)
LEMMA TilingMerge ==
    ASSUME NEW B, NEW U, Tiling(B, U), NEW n \in Page, NEW o \in Order,
           o < HighOrder, <<n, o>> \in B, <<n + order2size[o], o>> \in B,
           Aligned(n, o + 1)
    PROVE  Tiling((B \ {<<n, o>>, <<n + order2size[o], o>>}) \cup {<<n, o + 1>>}, U)
<1> DEFINE m == n + order2size[o]
<1> DEFINE X == {<<n, o>>, <<m, o>>}
<1> DEFINE Y == {<<n, o + 1>>}
<1>1. n \in Nat
  BY DEF Page
<1>2. /\ Span(n, o + 1) = Span(n, o) \cup Span(m, o)
      /\ o + 1 \in Order
  BY <1>1, Halves
<1>3. Y \subseteq Block /\ \A b \in Y : Aligned(b[1], b[2])
  BY <1>2 DEF Block
<1>5. Apart(Y)
  BY DEF Apart
<1>6. UNION {Span(b[1], b[2]) : b \in X} = UNION {Span(b[1], b[2]) : b \in Y}
  BY <1>2
<1>7. X \subseteq B
  OBVIOUS
<1> HIDE DEF X, Y, m
<1>8. Tiling((B \ X) \cup Y, U)
  BY <1>3, <1>5, <1>6, <1>7, TilingReplace
<1>9. QED
  BY <1>8 DEF X, Y, m

(* buddy_init's slice extends a tiling.                                    *)
LEMMA TilingAdd ==
    ASSUME NEW B, NEW U, Tiling(B, U), NEW n \in Page, NEW o \in Order,
           Aligned(n, o), Span(n, o) \cap U = {}
    PROVE  Tiling(B \cup {<<n, o>>}, U \cup Span(n, o))
<1> DEFINE C == B \cup {<<n, o>>}
<1>1. C \subseteq Block /\ \A b \in C : Aligned(b[1], b[2])
  BY DEF Tiling, Block
<1>2. Covers(C, U \cup Span(n, o))
  <2>1. UNION {Span(b[1], b[2]) : b \in B} = U
    BY DEF Tiling, Covers
  <2>2. ASSUME NEW p \in UNION {Span(b[1], b[2]) : b \in C}
        PROVE  p \in U \cup Span(n, o)
    <3>1. PICK b \in C : p \in Span(b[1], b[2])
      OBVIOUS
    <3>2. CASE b \in B
      BY <2>1, <3>1, <3>2
    <3>3. CASE b = <<n, o>>
      BY <3>1, <3>3
    <3>4. QED
      BY <3>2, <3>3
  <2>3. ASSUME NEW p \in U PROVE p \in UNION {Span(b[1], b[2]) : b \in C}
    BY <2>1
  <2>4. ASSUME NEW p \in Span(n, o) PROVE p \in UNION {Span(b[1], b[2]) : b \in C}
    <3>1. <<n, o>> \in C /\ <<n, o>>[1] = n /\ <<n, o>>[2] = o
      OBVIOUS
    <3> HIDE DEF C
    <3>2. QED
      BY <3>1
  <2> HIDE DEF C
  <2>5. UNION {Span(b[1], b[2]) : b \in C} = U \cup Span(n, o)
    BY <2>2, <2>3, <2>4
  <2>6. QED
    BY <2>5 DEF Covers
<1>3. \A b \in B : Span(b[1], b[2]) \subseteq U
  BY DEF Tiling, Covers
<1>4. Apart(C)
  BY <1>3 DEF Tiling, Apart, Overlap
<1>5. QED
  BY <1>1, <1>2, <1>4 DEF Tiling

(* A page belongs to one block of a tiling: a block that contains the      *)
(* first page of another is that block.                                    *)
LEMMA TilingUnique ==
    ASSUME NEW B, NEW U, Tiling(B, U), NEW a \in B, NEW b \in B,
           b[1] \in Span(a[1], a[2])
    PROVE  a = b
<1>1. b[1] \in Page /\ b[2] \in Order
  BY DEF Tiling, Block
<1>2. b[1] \in Span(b[1], b[2])
  BY <1>1, FirstPage
<1>3. QED
  BY <1>2 DEF Tiling, Apart, Overlap

-----------------------------------------------------------------------------
(* The inductive invariant.                                                *)

(* A pair's bit is 1 exactly if one of its halves is in the free list.     *)
BitRight(n, o) ==
    bitmap[o][PairOf(n, o)] <=> ~(n \in list[o] <=> n + order2size[o] \in list[o])

BitsRight ==
    pc # "slice" =>
        \A o \in Order : o < HighOrder =>
            \A n \in Page : Aligned(n, o + 1) => BitRight(n, o)

(* Where the loops are.                                                    *)
LoopInv ==
    /\ pc \in {"find", "split"} => want <= order
    /\ pc = "slice" /\ ent <= Len(MemMap) =>
          MemMap[ent].start <= page /\ page <= MemMap[ent].end

Separate ==
    /\ owned \cap FreeBlocks = {}
    /\ InHand \cap (owned \cup FreeBlocks) = {}

IInv ==
    /\ TypeOK
    /\ Unsliced \subseteq Usable
    /\ Tiling(Blocks, Usable \ Unsliced)
    /\ Separate
    /\ BitsRight
    /\ LoopInv

-----------------------------------------------------------------------------
(* How linking, unlinking and flipping change the blocks and the bits.     *)

LEMMA LinkBlocks ==
    ASSUME TypeOK, NEW n \in Page, NEW o \in Order, Link(n, o)
    PROVE  /\ list' \in [Order -> SUBSET Page]
           /\ FreeBlocks' = FreeBlocks \cup {<<n, o>>}
<1>1. list' \in [Order -> SUBSET Page]
  BY DEF TypeOK, Link
<1>2. ASSUME NEW m \in Page, NEW q \in Order
      PROVE  m \in list'[q] <=> m \in list[q] \/ (m = n /\ q = o)
  BY DEF TypeOK, Link
<1>3. QED
  BY <1>1, <1>2 DEF FreeBlocks, Block

LEMMA UnlinkBlocks ==
    ASSUME TypeOK, NEW n \in Page, NEW o \in Order, Unlink(n, o)
    PROVE  /\ list' \in [Order -> SUBSET Page]
           /\ FreeBlocks' = FreeBlocks \ {<<n, o>>}
<1>1. list' \in [Order -> SUBSET Page]
  BY DEF TypeOK, Unlink
<1>2. ASSUME NEW m \in Page, NEW q \in Order
      PROVE  m \in list'[q] <=> m \in list[q] /\ ~(m = n /\ q = o)
  BY DEF TypeOK, Unlink
<1>3. QED
  BY <1>1, <1>2 DEF FreeBlocks, Block

(* Flipping keeps the bitmap a bitmap.                                     *)
LEMMA FlipType ==
    ASSUME TypeOK, NEW n, NEW o \in Order, order_flip_at(n, o)
    PROVE  bitmap' \in [Order -> [PairIdx -> BOOLEAN]]
<1> DEFINE f == [bitmap[o] EXCEPT ![PairOf(n, o)] = ~bitmap[o][PairOf(n, o)]]
<1>1. bitmap' = [bitmap EXCEPT ![o] = f]
  BY DEF order_flip_at, TypeOK
<1>2. bitmap \in [Order -> [PairIdx -> BOOLEAN]]
  BY DEF TypeOK
<1>3. f \in [PairIdx -> BOOLEAN]
  <2>1. bitmap[o] \in [PairIdx -> BOOLEAN]
    BY <1>2
  <2>2. QED
    BY <2>1, Zenon
<1> HIDE DEF f
<1>4. QED
  BY <1>1, <1>2, <1>3

(* The lower half of the pair of an aligned page.                          *)
Lower(n, o) == IF Aligned(n, o + 1) THEN n ELSE n - order2size[o]

LEMMA LowerOK ==
    ASSUME NEW o \in Order, o < HighOrder, NEW n \in Page, Aligned(n, o)
    PROVE  /\ Lower(n, o) \in Page /\ Aligned(Lower(n, o), o + 1)
           /\ PairOf(n, o) = PairOf(Lower(n, o), o)
           /\ n \in {Lower(n, o), Lower(n, o) + order2size[o]}
           /\ get_buddy(n, o) \in {Lower(n, o), Lower(n, o) + order2size[o]}
           /\ get_buddy(n, o) # n
           /\ n < get_buddy(n, o) <=> n = Lower(n, o)
<1> DEFINE s == order2size[o]
<1>1. s \in Nat \ {0} /\ n \in Nat
  BY BuddyAssumption DEF Page
<1>2. CASE Aligned(n, o + 1)
  <2>1. get_buddy(n, o) = n + s
    BY <1>1, <1>2, LowerHalf
  <2>2. QED
    BY <1>1, <1>2, <2>1 DEF Lower
<1>3. CASE ~Aligned(n, o + 1)
  <2> DEFINE m == n - s
  <2>1. m \in Nat /\ Aligned(m, o + 1) /\ get_buddy(n, o) = m
    BY <1>1, <1>3, UpperHalf
  <2>2. m + s = n /\ m \in Page
    <3>1. n \in 0..(NPages - 1) /\ NPages \in Nat
      BY BuddyAssumption DEF Page
    <3> HIDE DEF s
    <3>2. QED
      BY <1>1, <2>1, <3>1 DEF Page
  <2>3. PairOf(m + s, o) = PairOf(m, o)
    <3> HIDE DEF m
    <3>1. QED
      BY <2>1, LowerHalf
  <2>4. Lower(n, o) = m
    BY <1>3 DEF Lower
  <2> HIDE DEF m
  <2>5. QED
    BY <1>1, <2>1, <2>2, <2>3, <2>4
<1>4. QED
  BY <1>2, <1>3

(* One membership of a pair's halves changes and the pair's bit is         *)
(* flipped: every bit is right again.                                      *)
LEMMA FlipRight ==
    ASSUME TypeOK, BitsRight, pc # "slice",
           list' \in [Order -> SUBSET Page],
           NEW o \in Order, o < HighOrder, NEW n \in Page, Aligned(n, o),
           order_flip_at(n, o),
           NEW x \in {n, get_buddy(n, o)},
           \A q \in Order, m \in Nat :
               m \in list'[q] <=> (IF m = x /\ q = o THEN m \notin list[q]
                                                     ELSE m \in list[q])
    PROVE  BitsRight'
<1> DEFINE low == Lower(n, o)
<1>1. /\ low \in Page /\ Aligned(low, o + 1) /\ PairOf(n, o) = PairOf(low, o)
      /\ x \in {low, low + order2size[o]}
  BY LowerOK
<1> HIDE DEF low
<1>2. ASSUME NEW q \in Order, q < HighOrder, NEW m \in Page, Aligned(m, q + 1)
      PROVE  BitRight(m, q)'
  <2> DEFINE s == order2size[q]
  <2>1. s \in Nat \ {0} /\ m \in Nat /\ m + s \in Nat /\ m # m + s
    BY BuddyAssumption DEF Page
  <2>2. BitRight(m, q)
    BY <1>2 DEF BitsRight
  <2>3. CASE q = o /\ m = low
    <3>1. bitmap'[o][PairOf(low, o)] <=> ~bitmap[o][PairOf(low, o)]
      <4>1. PairOf(low, o) \in PairIdx
        <5>1. order2size[o] \in Nat \ {0} /\ low \in 0..(NPages - 1) /\ NPages \in Nat
          BY <1>1, BuddyAssumption DEF Page
        <5>2. low \div (2 * order2size[o]) \in 0..NPages
          BY <5>1, SMT
        <5>3. QED
          BY <5>2 DEF PairOf, PairIdx
      <4>2. QED
        BY <1>1, <4>1, Zenon DEF TypeOK, order_flip_at
    <3>2. \/ /\ m \in list'[q] <=> m \notin list[q]
             /\ m + s \in list'[q] <=> m + s \in list[q]
          \/ /\ m \in list'[q] <=> m \in list[q]
             /\ m + s \in list'[q] <=> m + s \notin list[q]
      BY <1>1, <2>1, <2>3
    <3>3. QED
      BY <2>2, <2>3, <3>1, <3>2 DEF BitRight
  <2>4. CASE q = o /\ m # low
    <3>1. PairOf(m, o) # PairOf(low, o)
      BY <1>1, <1>2, <2>4, PairDetermines DEF Page
    <3>2. bitmap'[o][PairOf(m, o)] = bitmap[o][PairOf(m, o)]
      BY <1>1, <3>1 DEF order_flip_at, TypeOK
    <3>3. x # m /\ x # m + s
      <4>1. low \in Nat
        BY <1>1 DEF Page
      <4>2. PairOf(low + order2size[o], o) = PairOf(low, o)
        BY <1>1, <4>1, LowerHalf
      <4>3. PairOf(m + s, o) = PairOf(m, o)
        BY <1>2, <2>1, <2>4, LowerHalf
      <4>4. QED
        BY <1>1, <3>1, <4>2, <4>3
    <3>4. m \in list'[q] <=> m \in list[q]
      BY <2>1, <3>3
    <3>5. m + s \in list'[q] <=> m + s \in list[q]
      BY <2>1, <3>3
    <3>6. QED
      BY <2>2, <2>4, <3>2, <3>4, <3>5 DEF BitRight
  <2>5. CASE q # o
    <3>1. bitmap'[q] = bitmap[q]
      BY <2>5 DEF order_flip_at, TypeOK
    <3>2. m \in list'[q] <=> m \in list[q]
      BY <2>1, <2>5
    <3>3. m + s \in list'[q] <=> m + s \in list[q]
      BY <2>1, <2>5
    <3>4. QED
      BY <2>2, <3>1, <3>2, <3>3 DEF BitRight
  <2>6. QED
    BY <2>3, <2>4, <2>5
<1>3. QED
  BY <1>2 DEF BitsRight

(* The bits of the highest order are not used: what happens there leaves   *)
(* the others right.                                                       *)
LEMMA TopRight ==
    ASSUME TypeOK, BitsRight, pc # "slice",
           \A q \in Order : q < HighOrder => bitmap'[q] = bitmap[q] /\ list'[q] = list[q]
    PROVE  BitsRight'
BY DEF BitsRight, BitRight

-----------------------------------------------------------------------------
(* Every action preserves the invariant.                                   *)

LEMMA EntryType ==
    ASSUME NEW e \in 1..Len(MemMap)
    PROVE  /\ MemMap[e].start \in Page /\ MemMap[e].end \in 0..NPages
           /\ MemMap[e].start \in Nat /\ MemMap[e].end \in Nat
           /\ MemMap[e].start < MemMap[e].end
           /\ e \in DOMAIN MemMap /\ Entry(e) \subseteq Usable
<1> DEFINE R == [start : Page, end : 0..NPages]
<1>1. MemMap \in Seq(R)
  BY BuddyAssumption
<1>2. DOMAIN MemMap = 1..Len(MemMap) /\ Len(MemMap) \in Nat
  BY <1>1, LenProperties
<1> HIDE DEF R
<1>3. MemMap[e] \in R
  BY <1>1, <1>2, ElementOfSeq
<1>4. MemMap[e].start \in Page /\ MemMap[e].end \in 0..NPages
  BY <1>3 DEF R
<1>5. MemMap[e].start < MemMap[e].end
  BY <1>2, BuddyAssumption
<1>6. Entry(e) \subseteq Usable
  BY <1>2 DEF Usable
<1>7. QED
  BY <1>2, <1>4, <1>5, <1>6 DEF Page

LEMMA UsablePages == Usable \subseteq Page
<1> SUFFICES ASSUME NEW e \in DOMAIN MemMap PROVE Entry(e) \subseteq Page
  BY DEF Usable
<1>1. e \in 1..Len(MemMap)
  BY BuddyAssumption, LenProperties
<1>2. MemMap[e].start \in Nat /\ MemMap[e].end \in 0..NPages /\ NPages \in Nat
  BY <1>1, EntryType, BuddyAssumption
<1>3. QED
  BY <1>2 DEF Entry, Page

(* The blocks lie within the allocator's pages.                            *)
LEMMA BlockPages ==
    ASSUME NEW B, NEW U, Tiling(B, U), U \subseteq Usable, NEW b \in B
    PROVE  Span(b[1], b[2]) \subseteq Page
BY UsablePages DEF Tiling, Covers

LEMMA FreeBlockIn ==
    ASSUME TypeOK, NEW o \in Order, NEW n \in list[o]
    PROVE  n \in Page /\ <<n, o>> \in FreeBlocks
BY DEF TypeOK, FreeBlocks, Block

(* Outside buddy_init a step that keeps the set of blocks and adds no      *)
(* overlap only has to keep the bits right.                                *)
LEMMA IInvAfterBoot ==
    ASSUME pc # "slice", pc' # "slice", TypeOK', Tiling(Blocks', Usable),
           Separate', BitsRight', pc' \in {"find", "split"} => want' <= order'
    PROVE  IInv'
<1>1. Unsliced' = {} /\ Usable' = Usable
  BY DEF Unsliced, Usable, Entry
<1>2. Usable \ {} = Usable
  OBVIOUS
<1>3. (Usable \ Unsliced)' = Usable
  BY <1>1, <1>2
<1>4. Tiling(Blocks, Usable \ Unsliced)'
  BY <1>3 DEF Tiling, Apart, Covers, Overlap, Span, Aligned, Block, Page, Order
<1>5. QED
  BY <1>1, <1>4 DEF IInv, LoopInv

LEMMA AfterBootTiling ==
    ASSUME IInv, pc # "slice" PROVE Tiling(Blocks, Usable)
<1>1. Usable \ Unsliced = Usable
  BY DEF Unsliced
<1>2. QED
  BY <1>1 DEF IInv

LEMMA StartPreserves ==
    ASSUME IInv, NEW o \in Order, AllocStart(o)
    PROVE  IInv'
<1>1. TypeOK'
  BY DEF IInv, TypeOK, AllocStart
<1>2. Blocks' = Blocks /\ InHand' = {} /\ FreeBlocks' = FreeBlocks /\ owned' = owned
  BY DEF AllocStart, Blocks, InHand, FreeBlocks
<1>3. Separate'
  BY <1>2 DEF IInv, Separate
<1>4. BitsRight'
  BY DEF IInv, BitsRight, BitRight, AllocStart
<1>5. want' <= order'
  BY DEF AllocStart, Order
<1>6. Tiling(Blocks', Usable)
  BY <1>2, AfterBootTiling DEF AllocStart
<1>7. QED
  BY <1>1, <1>3, <1>4, <1>5, <1>6, IInvAfterBoot DEF AllocStart

LEMMA FoundPreserves ==
    ASSUME IInv, AllocFound
    PROVE  IInv'
<1>1. PICK n \in list[order] :
        Unlink(n, order) /\ order_flip_at(n, order) /\ page' = n
  BY DEF AllocFound
<1>2. /\ TypeOK /\ order \in Order /\ pc = "find" /\ pc' = "split"
      /\ owned' = owned /\ order' = order /\ want' = want
  BY DEF IInv, TypeOK, AllocFound
<1>3. n \in Page /\ <<n, order>> \in FreeBlocks
  BY <1>2, FreeBlockIn
<1>4. list' \in [Order -> SUBSET Page] /\ FreeBlocks' = FreeBlocks \ {<<n, order>>}
  BY <1>1, <1>2, <1>3, UnlinkBlocks
<1>5. bitmap' \in [Order -> [PairIdx -> BOOLEAN]]
  BY <1>1, <1>2, FlipType
<1>6. TypeOK'
  <2>1. page' \in 0..NPages
    BY <1>1, <1>3, BuddyAssumption DEF Page
  <2>2. QED
    BY <1>2, <1>4, <1>5, <2>1 DEF TypeOK, AllocFound
<1>7. InHand = {} /\ InHand' = {<<n, order>>}
  BY <1>1, <1>2 DEF InHand
<1>8. Blocks' = Blocks
  BY <1>2, <1>3, <1>4, <1>7 DEF Blocks
<1>9. Separate'
  BY <1>2, <1>3, <1>4, <1>7 DEF IInv, Separate
<1>10. Tiling(Blocks', Usable)
  BY <1>2, <1>8, AfterBootTiling
<1>11. BitsRight'
  <2>1. Aligned(n, order)
    <3>1. <<n, order>> \in Blocks
      BY <1>3 DEF Blocks
    <3>2. QED
      BY <3>1 DEF IInv, Tiling
  <2>2. CASE order < HighOrder
    <3>1. \A q \in Order, m \in Nat :
            m \in list'[q] <=> (IF m = n /\ q = order THEN m \notin list[q]
                                                     ELSE m \in list[q])
      BY <1>1, <1>2 DEF Unlink, TypeOK
    <3>2. QED
      BY <1>1, <1>2, <1>3, <1>4, <2>1, <2>2, <3>1, FlipRight DEF IInv
  <2>3. CASE ~(order < HighOrder)
    <3>1. \A q \in Order : q < HighOrder => bitmap'[q] = bitmap[q] /\ list'[q] = list[q]
      BY <1>1, <1>2, <2>3 DEF order_flip_at, Unlink, TypeOK
    <3>2. QED
      BY <1>2, <3>1, TopRight DEF IInv
  <2>4. QED
    BY <2>2, <2>3
<1>12. want' <= order'
  BY <1>2 DEF IInv, LoopInv
<1>13. QED
  BY <1>2, <1>6, <1>9, <1>10, <1>11, <1>12, IInvAfterBoot

(* The find loop's other steps move no block.                              *)
LEMMA SearchPreserves ==
    ASSUME IInv, AllocNextOrder \/ AllocFail
    PROVE  IInv'
<1>1. /\ TypeOK /\ pc = "find" /\ pc' \in {"find", "idle"}
      /\ UNCHANGED <<list, bitmap, owned, want>>
      /\ order' = order \/ (order < HighOrder /\ order' = order + 1)
  BY DEF IInv, AllocNextOrder, AllocFail
<1>2. TypeOK'
  <2>1. order' \in Order
    BY <1>1, BuddyAssumption DEF TypeOK, Order
  <2>2. QED
    BY <1>1, <2>1 DEF TypeOK, AllocNextOrder, AllocFail
<1>3. Blocks' = Blocks /\ InHand' = {} /\ FreeBlocks' = FreeBlocks /\ owned' = owned
  BY <1>1 DEF Blocks, InHand, FreeBlocks
<1>4. Separate'
  BY <1>3 DEF IInv, Separate
<1>5. BitsRight'
  BY <1>1 DEF IInv, BitsRight, BitRight
<1>6. want' <= order'
  <2>1. want <= order /\ order \in Int /\ want \in Int
    BY <1>1 DEF IInv, LoopInv, TypeOK, Order
  <2>2. QED
    BY <1>1, <2>1
<1>7. Tiling(Blocks', Usable)
  BY <1>1, <1>3, AfterBootTiling
<1>8. QED
  BY <1>1, <1>2, <1>4, <1>5, <1>6, <1>7, IInvAfterBoot

(* What holds of the block being split: its upper half is its buddy, lies  *)
(* within the allocator's pages, and neither half is a block already.      *)
LEMMA SplitFacts ==
    ASSUME IInv, pc = "split", order > want, NEW o, o = order - 1
    PROVE  /\ o \in Order /\ o < HighOrder /\ order = o + 1
           /\ page \in Page /\ page + order2size[o] \in Page
           /\ page # page + order2size[o]
           /\ Aligned(page, o + 1) /\ Aligned(page, o)
           /\ get_buddy(page, o) = page + order2size[o]
           /\ PairOf(page + order2size[o], o) = PairOf(page, o)
           /\ <<page, o + 1>> \in Blocks
           /\ <<page, o>> \notin Blocks
           /\ <<page + order2size[o], o>> \notin Blocks
<1> DEFINE m == page + order2size[o]
<1>1. o \in Order /\ o < HighOrder /\ order = o + 1 /\ order \in Order
  BY BuddyAssumption DEF IInv, TypeOK, Order
<1>2. Tiling(Blocks, Usable)
  BY AfterBootTiling
<1>3. <<page, order>> \in Blocks
  BY DEF Blocks, InHand
<1>4. page \in Page /\ Aligned(page, order)
  BY <1>2, <1>3 DEF Tiling, Block
<1>5. page \in Nat /\ order2size[o] \in Nat \ {0}
  BY <1>1, <1>4, BuddyAssumption DEF Page
<1>6. /\ Aligned(page, o) /\ get_buddy(page, o) = m
      /\ PairOf(m, o) = PairOf(page, o)
  BY <1>1, <1>4, <1>5, LowerHalf
<1>7. m \in Span(page, order) /\ page \in Span(page, order)
  <2>1. order2size[order] = 2 * order2size[o]
    BY <1>1, BuddyAssumption
  <2>2. QED
    BY <1>5, <2>1 DEF Span
<1>8. m \in Page
  <2>1. Span(page, order) \subseteq Page
    BY <1>2, <1>3, BlockPages
  <2>2. QED
    BY <1>7, <2>1
<1>9. ASSUME NEW x \in {page, m}, <<x, o>> \in Blocks PROVE FALSE
  <2>1. <<page, order>> = <<x, o>>
    <3>1. x \in Span(page, order)
      BY <1>7
    <3>2. QED
      BY <1>2, <1>3, <1>9, <3>1, TilingUnique
  <2>2. QED
    BY <1>1, <2>1 DEF Order
<1>10. page # m
  BY <1>5
<1>11. QED
  BY <1>1, <1>3, <1>4, <1>6, <1>8, <1>9, <1>10

LEMMA SplitPreserves ==
    ASSUME IInv, AllocSplit
    PROVE  IInv'
<1> DEFINE o == order - 1
<1> DEFINE m == page + order2size[o]
<1>1. pc = "split" /\ pc' = "split" /\ order > want /\ TypeOK
  BY DEF AllocSplit, IInv
<1>2. /\ o \in Order /\ o < HighOrder /\ order = o + 1
      /\ page \in Page /\ m \in Page /\ page # m
      /\ Aligned(page, o + 1) /\ Aligned(page, o)
      /\ get_buddy(page, o) = m
      /\ <<page, o + 1>> \in Blocks
      /\ <<page, o>> \notin Blocks /\ <<m, o>> \notin Blocks
  BY <1>1, SplitFacts
<1>3. /\ Link(m, o) /\ order_flip_at(page, o) /\ order' = o
      /\ page' = page /\ owned' = owned /\ want' = want
  BY <1>2 DEF AllocSplit
<1> HIDE DEF m, o
<1>4. list' \in [Order -> SUBSET Page] /\ FreeBlocks' = FreeBlocks \cup {<<m, o>>}
  BY <1>1, <1>2, <1>3, LinkBlocks
<1>5. bitmap' \in [Order -> [PairIdx -> BOOLEAN]]
  BY <1>1, <1>2, <1>3, FlipType
<1>6. TypeOK'
  BY <1>1, <1>2, <1>3, <1>4, <1>5 DEF TypeOK, AllocSplit
<1>7. InHand = {<<page, o + 1>>} /\ InHand' = {<<page, o>>}
  BY <1>1, <1>2, <1>3 DEF InHand
<1>8. <<page, o + 1>> \notin FreeBlocks \cup owned
  BY <1>7 DEF IInv, Separate
<1>9. Blocks' = (Blocks \ {<<page, o + 1>>}) \cup {<<page, o>>, <<m, o>>}
  BY <1>3, <1>4, <1>7, <1>8 DEF Blocks
<1>10. Tiling(Blocks', Usable)
  <2>1. Tiling(Blocks, Usable)
    BY <1>1, AfterBootTiling
  <2>2. Tiling((Blocks \ {<<page, o + 1>>}) \cup {<<page, o>>, <<m, o>>}, Usable)
    BY <1>2, <2>1, TilingSplit DEF m
  <2>3. QED
    BY <1>9, <2>2
<1>11. Separate'
  <2>1. <<page, o>> \notin FreeBlocks \cup owned /\ <<m, o>> \notin owned
    BY <1>2 DEF Blocks
  <2>2. <<page, o>> # <<m, o>>
    BY <1>2
  <2>3. QED
    BY <1>3, <1>4, <1>7, <2>1, <2>2 DEF IInv, Separate
<1>12. BitsRight'
  <2>1. m \notin list[o]
    BY <1>1, <1>2, FreeBlockIn DEF Blocks
  <2>2. \A q \in Order, k \in Nat :
          k \in list'[q] <=> (IF k = m /\ q = o THEN k \notin list[q]
                                               ELSE k \in list[q])
    BY <1>1, <1>2, <1>3, <2>1 DEF Link, TypeOK
  <2>3. m \in {page, get_buddy(page, o)}
    BY <1>2
  <2>4. QED
    BY <1>1, <1>2, <1>3, <1>4, <2>2, <2>3, FlipRight DEF IInv
<1>13. want' <= order'
  <2>1. want \in Int /\ order \in Int
    BY <1>1 DEF TypeOK, Order
  <2>2. QED
    BY <1>1, <1>3, <2>1 DEF o
<1>14. QED
  BY <1>1, <1>6, <1>10, <1>11, <1>12, <1>13, IInvAfterBoot

(* Handing a block out and taking it back move it between owned and the    *)
(* caller's hand.                                                          *)
LEMMA DonePreserves ==
    ASSUME IInv, AllocDone
    PROVE  IInv'
<1>1. /\ TypeOK /\ pc = "split" /\ pc' = "idle" /\ order = want
      /\ UNCHANGED <<list, bitmap, page, order, want>>
      /\ owned' = owned \cup {<<page, order>>}
  BY DEF IInv, AllocDone
<1>2. Tiling(Blocks, Usable)
  BY <1>1, AfterBootTiling
<1>3. InHand = {<<page, order>>} /\ InHand' = {} /\ FreeBlocks' = FreeBlocks
  BY <1>1 DEF InHand, FreeBlocks
<1>4. Blocks' = Blocks
  BY <1>1, <1>3 DEF Blocks
<1>5. owned' \subseteq Block
  BY <1>1, <1>2, <1>3 DEF Blocks, Tiling
<1>6. TypeOK'
  <2>1. free' \in Int
    BY BuddyAssumption DEF AllocDone, TypeOK, IInv
  <2>2. QED
    BY <1>1, <1>5, <2>1 DEF TypeOK, AllocDone
<1>7. Separate'
  BY <1>1, <1>3 DEF IInv, Separate
<1>8. BitsRight'
  BY <1>1 DEF IInv, BitsRight, BitRight
<1>9. QED
  BY <1>1, <1>2, <1>4, <1>6, <1>7, <1>8, IInvAfterBoot

LEMMA FreeStartPreserves ==
    ASSUME IInv, NEW p, NEW o, FreeStart(p, o)
    PROVE  IInv'
<1>1. /\ TypeOK /\ pc = "idle" /\ pc' = "merge" /\ <<p, o>> \in owned
      /\ UNCHANGED <<list, bitmap>>
      /\ page' = p /\ order' = o /\ owned' = owned \ {<<p, o>>}
  BY DEF IInv, FreeStart
<1>2. Tiling(Blocks, Usable)
  BY <1>1, AfterBootTiling
<1>3. InHand = {} /\ InHand' = {<<p, o>>} /\ FreeBlocks' = FreeBlocks
  BY <1>1 DEF InHand, FreeBlocks
<1>4. Blocks' = Blocks
  BY <1>1, <1>3 DEF Blocks
<1>5. p \in Page /\ o \in Order
  BY <1>1 DEF TypeOK, Block
<1>6. TypeOK'
  <2>1. page' \in 0..NPages
    BY <1>1, <1>5, BuddyAssumption DEF Page
  <2>2. QED
    BY <1>1, <1>5, <2>1 DEF TypeOK, FreeStart
<1>7. Separate'
  BY <1>1, <1>3 DEF IInv, Separate
<1>8. BitsRight'
  BY <1>1 DEF IInv, BitsRight, BitRight
<1>9. QED
  BY <1>1, <1>2, <1>4, <1>6, <1>7, <1>8, IInvAfterBoot

(* What holds of the block being merged: it is in no free list, and its    *)
(* pair's bit is 1 exactly if its buddy is.                                *)
LEMMA MergeFacts ==
    ASSUME IInv, pc = "merge", order < HighOrder
    PROVE  /\ page \in Page /\ order \in Order /\ Aligned(page, order)
           /\ page \notin list[order]
           /\ order_status_at(page, order) <=> get_buddy(page, order) \in list[order]
<1> DEFINE low == Lower(page, order)
<1>1. Tiling(Blocks, Usable)
  BY AfterBootTiling
<1>2. <<page, order>> \in InHand /\ <<page, order>> \in Blocks
  BY DEF Blocks, InHand
<1>3. page \in Page /\ order \in Order /\ Aligned(page, order)
  BY <1>1, <1>2 DEF Tiling, Block
<1>4. page \notin list[order]
  BY <1>2, <1>3, FreeBlockIn DEF IInv, Separate
<1>5. /\ low \in Page /\ Aligned(low, order + 1)
      /\ PairOf(page, order) = PairOf(low, order)
      /\ page \in {low, low + order2size[order]}
      /\ get_buddy(page, order) \in {low, low + order2size[order]}
      /\ get_buddy(page, order) # page
  BY <1>3, LowerOK
<1> HIDE DEF low
<1>6. BitRight(low, order)
  BY <1>3, <1>5 DEF IInv, BitsRight
<1>7. order_status_at(page, order) <=>
        ~(low \in list[order] <=> low + order2size[order] \in list[order])
  BY <1>5, <1>6 DEF BitRight, order_status_at
<1>8. QED
  BY <1>3, <1>4, <1>5, <1>7

LEMMA MergePreserves ==
    ASSUME IInv, FreeMerge
    PROVE  IInv'
<1> DEFINE o == order
<1> DEFINE b == get_buddy(page, o)
<1> DEFINE low == Lower(page, o)
<1> DEFINE high == low + order2size[o]
<1>1. /\ TypeOK /\ pc = "merge" /\ pc' = "merge" /\ o < HighOrder
      /\ order_flip_at(page, o) /\ order_status_at(page, o) /\ Unlink(b, o)
      /\ page' = (IF page < b THEN page ELSE b) /\ order' = o + 1
      /\ owned' = owned
  BY DEF IInv, FreeMerge
<1>2. /\ page \in Page /\ o \in Order /\ Aligned(page, o)
      /\ page \notin list[o] /\ b \in list[o]
  BY <1>1, MergeFacts
<1>3. b \in Page /\ <<b, o>> \in FreeBlocks
  BY <1>1, <1>2, FreeBlockIn
<1>4. /\ low \in Page /\ Aligned(low, o + 1)
      /\ page \in {low, high} /\ b \in {low, high} /\ b # page
      /\ page < b <=> page = low
  BY <1>1, <1>2, LowerOK
<1>5. {page, b} = {low, high} /\ page' = low
  BY <1>1, <1>4
<1>6. o + 1 \in Order
  BY <1>1, <1>2, BuddyAssumption DEF Order
<1> HIDE DEF b, o, low, high
<1>7. list' \in [Order -> SUBSET Page] /\ FreeBlocks' = FreeBlocks \ {<<b, o>>}
  BY <1>1, <1>2, <1>3, UnlinkBlocks
<1>8. bitmap' \in [Order -> [PairIdx -> BOOLEAN]]
  BY <1>1, <1>2, FlipType
<1>9. TypeOK'
  <2>1. page' \in 0..NPages
    BY <1>4, <1>5, BuddyAssumption DEF Page
  <2>2. QED
    BY <1>1, <1>6, <1>7, <1>8, <2>1 DEF TypeOK, FreeMerge
<1>10. InHand = {<<page, o>>} /\ InHand' = {<<low, o + 1>>}
  BY <1>1, <1>5 DEF InHand, o
<1>11. Tiling(Blocks, Usable)
  BY <1>1, AfterBootTiling
<1>12. {<<page, o>>, <<b, o>>} = {<<low, o>>, <<high, o>>}
  BY <1>4
<1>13. <<low, o>> \in Blocks /\ <<high, o>> \in Blocks
  BY <1>3, <1>10, <1>12 DEF Blocks
<1>14. <<low, o + 1>> \notin Blocks
  <2> SUFFICES ASSUME <<low, o + 1>> \in Blocks PROVE FALSE
    OBVIOUS
  <2>1. low \in Span(low, o + 1)
    BY <1>4, <1>6, FirstPage
  <2>2. <<low, o + 1>> = <<low, o>>
    BY <1>11, <1>13, <2>1, TilingUnique
  <2>3. QED
    BY <1>2, <2>2 DEF Order
<1>15. <<page, o>> \notin FreeBlocks \cup owned /\ <<b, o>> \notin owned
  BY <1>3, <1>10 DEF IInv, Separate
<1>16. Blocks' = (Blocks \ {<<low, o>>, <<high, o>>}) \cup {<<low, o + 1>>}
  <2>1. Blocks' = (Blocks \ {<<page, o>>, <<b, o>>}) \cup {<<low, o + 1>>}
    BY <1>1, <1>7, <1>10, <1>15 DEF Blocks
  <2>2. QED
    BY <1>12, <2>1
<1>17. Tiling(Blocks', Usable)
  <2>1. Tiling((Blocks \ {<<low, o>>, <<high, o>>}) \cup {<<low, o + 1>>}, Usable)
    BY <1>1, <1>2, <1>4, <1>11, <1>13, TilingMerge DEF high
  <2>2. QED
    BY <1>16, <2>1
<1>18. Separate'
  BY <1>1, <1>7, <1>10, <1>14 DEF IInv, Separate, Blocks
<1>19. BitsRight'
  <2>1. \A q \in Order, k \in Nat :
          k \in list'[q] <=> (IF k = b /\ q = o THEN k \notin list[q]
                                               ELSE k \in list[q])
    BY <1>1, <1>2 DEF Unlink, TypeOK
  <2>2. b \in {page, get_buddy(page, o)}
    BY DEF b
  <2>3. QED
    BY <1>1, <1>2, <1>7, <2>1, <2>2, FlipRight DEF IInv
<1>20. QED
  BY <1>1, <1>9, <1>17, <1>18, <1>19, IInvAfterBoot

(* The merged block goes to its free list.                                 *)
LEMMA LinkPreserves ==
    ASSUME IInv, FreeLink \/ FreeLinkTop
    PROVE  IInv'
<1>1. /\ TypeOK /\ pc = "merge" /\ pc' = "idle" /\ Link(page, order)
      /\ UNCHANGED <<owned, ent, page, order, want>>
      /\ free' = free + order2size[want]
  BY DEF IInv, FreeLink, FreeLinkTop, Accounted
<1>2. Tiling(Blocks, Usable)
  BY <1>1, AfterBootTiling
<1>3. InHand = {<<page, order>>} /\ InHand' = {}
  BY <1>1 DEF InHand
<1>4. page \in Page /\ order \in Order
  BY <1>2, <1>3 DEF Blocks, Tiling, Block
<1>5. list' \in [Order -> SUBSET Page] /\ FreeBlocks' = FreeBlocks \cup {<<page, order>>}
  BY <1>1, <1>4, LinkBlocks
<1>6. bitmap' \in [Order -> [PairIdx -> BOOLEAN]]
  <2>1. CASE FreeLink
    BY <1>1, <1>4, <2>1, FlipType DEF FreeLink
  <2>2. CASE FreeLinkTop
    BY <1>1, <2>2 DEF FreeLinkTop, TypeOK
  <2>3. QED
    BY <2>1, <2>2
<1>7. TypeOK'
  <2>1. free' \in Int
    BY <1>1, BuddyAssumption DEF TypeOK
  <2>2. QED
    BY <1>1, <1>5, <1>6, <2>1 DEF TypeOK
<1>8. Blocks' = Blocks
  BY <1>1, <1>3, <1>5 DEF Blocks
<1>9. Separate'
  BY <1>1, <1>3, <1>5 DEF IInv, Separate
<1>10. BitsRight'
  <2>1. CASE FreeLink
    <3>1. order < HighOrder /\ order_flip_at(page, order)
      BY <2>1 DEF FreeLink
    <3>2. Aligned(page, order) /\ page \notin list[order]
      BY <1>1, <3>1, MergeFacts
    <3>3. \A q \in Order, k \in Nat :
            k \in list'[q] <=> (IF k = page /\ q = order THEN k \notin list[q]
                                                        ELSE k \in list[q])
      BY <1>1, <1>4, <3>2 DEF Link, TypeOK
    <3>4. QED
      BY <1>1, <1>4, <1>5, <3>1, <3>2, <3>3, FlipRight DEF IInv
  <2>2. CASE FreeLinkTop
    <3>1. \A q \in Order : q < HighOrder => bitmap'[q] = bitmap[q] /\ list'[q] = list[q]
      BY <1>1, <2>2 DEF FreeLinkTop, Link, TypeOK, Order
    <3>2. QED
      BY <1>1, <3>1, TopRight DEF IInv
  <2>3. QED
    BY <2>1, <2>2
<1>11. QED
  BY <1>1, <1>2, <1>7, <1>8, <1>9, <1>10, IInvAfterBoot

(* The entries after ent.                                                  *)
Later(e) == UNION {Entry(f) : f \in (e + 1)..Len(MemMap)}

LEMMA LaterApart ==
    ASSUME NEW e \in 1..Len(MemMap)
    PROVE  /\ Later(e) \subseteq Usable /\ Later(e) \cap Entry(e) = {}
           /\ e < Len(MemMap) => Later(e) = Entry(e + 1) \cup Later(e + 1)
           /\ e = Len(MemMap) => Later(e) = {}
<1>1. DOMAIN MemMap = 1..Len(MemMap) /\ Len(MemMap) \in Nat
  BY BuddyAssumption, LenProperties
<1>2. \A f \in (e + 1)..Len(MemMap) : f \in 1..Len(MemMap) /\ f # e
  BY <1>1
<1>3. \A f \in (e + 1)..Len(MemMap) : Entry(f) \subseteq Usable
  BY <1>2, EntryType
<1>4. \A f \in (e + 1)..Len(MemMap) : Entry(f) \cap Entry(e) = {}
  BY <1>1, <1>2, BuddyAssumption
<1>5. ASSUME e < Len(MemMap) PROVE Later(e) = Entry(e + 1) \cup Later(e + 1)
  <2>1. \A f : f \in (e + 1)..Len(MemMap) <=> (f = e + 1 \/ f \in (e + 1 + 1)..Len(MemMap))
    BY <1>1, <1>5
  <2> HIDE DEF Entry
  <2>2. QED
    BY <2>1, Zenon DEF Later
<1>6. ASSUME e = Len(MemMap) PROVE Later(e) = {}
  <2>1. (e + 1)..Len(MemMap) = {}
    BY <1>1, <1>6
  <2>2. QED
    BY <2>1 DEF Later
<1>7. QED
  BY <1>3, <1>4, <1>5, <1>6 DEF Later

LEMMA SlicePreserves ==
    ASSUME IInv, InitSlice
    PROVE  IInv'
<1>1. PICK o \in Order :
        /\ SliceRange(page, MemMap[ent].end, o)
        /\ Link(page, o)
        /\ page' = page + order2size[o]
  BY DEF InitSlice
<1> DEFINE e == MemMap[ent].end
<1> DEFINE s == order2size[o]
<1>2. /\ TypeOK /\ pc = "slice" /\ pc' = "slice" /\ ent \in 1..Len(MemMap) /\ page < e
      /\ UNCHANGED <<bitmap, free, owned, ent, order, want>>
  <2>1. Len(MemMap) \in Nat
    BY BuddyAssumption, LenProperties
  <2>2. QED
    BY <2>1, SMTT(30) DEF IInv, InitSlice, TypeOK
<1>3. MemMap[ent].start <= page /\ MemMap[ent].start \in Nat /\ page \in Nat
      /\ e \in 0..NPages /\ s \in Nat \ {0} /\ NPages \in Nat
  BY <1>2, EntryType, BuddyAssumption, SMTT(30) DEF IInv, LoopInv, TypeOK
<1>4. Aligned(page, o) /\ page + s <= e
  BY <1>1 DEF SliceRange, Fits
<1>5. page \in Page
  BY <1>2, <1>3, SMTT(30) DEF Page
<1>6. Span(page, o) = page..(page + s - 1)
  BY DEF Span
<1>7. Unsliced = (page..(e - 1)) \cup Later(ent)
  BY <1>2, SMTT(30) DEF Unsliced, Later
<1>8. Unsliced' = ((page + s)..(e - 1)) \cup Later(ent)
  BY <1>1, <1>2, SMTT(30) DEF Unsliced, Later, Entry
<1>9. Entry(ent) = (MemMap[ent].start)..(e - 1)
  BY DEF Entry
<1>10. /\ Later(ent) \subseteq Usable /\ Later(ent) \cap Entry(ent) = {}
       /\ Entry(ent) \subseteq Usable
  BY <1>2, LaterApart, EntryType
<1>11. Span(page, o) \subseteq Entry(ent) /\ Span(page, o) \subseteq Unsliced
  <2> HIDE DEF e, s
  <2>1. QED
    BY <1>2, <1>3, <1>4, <1>6, <1>7, <1>9
<1>12. Unsliced' = Unsliced \ Span(page, o)
  <2>1. (page..(e - 1)) \ (page..(page + s - 1)) = (page + s)..(e - 1)
    <3> HIDE DEF e, s
    <3>1. QED
      BY <1>2, <1>3, <1>4
  <2>2. Later(ent) \ Span(page, o) = Later(ent)
    BY <1>10, <1>11
  <2> HIDE DEF e, s
  <2>3. QED
    BY <1>6, <1>7, <1>8, <2>1, <2>2
<1>13. list' \in [Order -> SUBSET Page] /\ FreeBlocks' = FreeBlocks \cup {<<page, o>>}
  BY <1>1, <1>2, <1>5, LinkBlocks
<1>14. InHand = {} /\ InHand' = {}
  BY <1>2 DEF InHand
<1>15. Blocks' = Blocks \cup {<<page, o>>}
  BY <1>2, <1>13, <1>14 DEF Blocks
<1>16. Span(page, o) \cap (Usable \ Unsliced) = {}
  BY <1>11
<1>17. Tiling(Blocks \cup {<<page, o>>}, (Usable \ Unsliced) \cup Span(page, o))
  BY <1>4, <1>5, <1>16, TilingAdd DEF IInv
<1>18. (Usable \ Unsliced) \cup Span(page, o) = (Usable \ Unsliced)'
  <2>1. Usable' = Usable
    BY DEF Usable, Entry
  <2>2. QED
    BY <1>10, <1>11, <1>12, <2>1
<1>19. Tiling(Blocks, Usable \ Unsliced)'
  BY <1>15, <1>17, <1>18 DEF Tiling, Apart, Covers, Overlap, Span, Aligned, Block, Page, Order
<1>20. Separate'
  <2>1. <<page, o>> \notin owned
    <3>1. page \in Span(page, o)
      BY <1>5, FirstPage
    <3>2. page \notin Usable \ Unsliced
      BY <1>16, <3>1
    <3> SUFFICES ASSUME <<page, o>> \in Blocks PROVE FALSE
      BY DEF Blocks
    <3>3. \A b \in Blocks : Span(b[1], b[2]) \subseteq Usable \ Unsliced
      BY DEF IInv, Tiling, Covers
    <3>4. Span(<<page, o>>[1], <<page, o>>[2]) \subseteq Usable \ Unsliced
      BY <3>3
    <3>5. QED
      BY <3>1, <3>2, <3>4
  <2>2. QED
    BY <1>2, <1>13, <1>14, <2>1 DEF IInv, Separate
<1>21. page' \in 0..NPages /\ MemMap[ent].start <= page' /\ page' <= e
  <2> HIDE DEF e, s
  <2>1. page' = page + s
    BY <1>1 DEF s
  <2>2. QED
    BY <1>3, <1>4, <2>1
<1>22. TypeOK'
  BY <1>2, <1>13, <1>21 DEF TypeOK
<1>23. LoopInv'
  BY <1>2, <1>21 DEF LoopInv
<1>24. BitsRight'
  BY <1>2 DEF BitsRight
<1>25. (Unsliced \subseteq Usable)'
  BY <1>12 DEF IInv, Usable, Entry
<1>26. QED
  BY <1>19, <1>20, <1>22, <1>23, <1>24, <1>25 DEF IInv

LEMMA NextEntryPreserves ==
    ASSUME IInv, InitNextEntry
    PROVE  IInv'
<1>1. /\ TypeOK /\ pc = "slice" /\ pc' = "slice" /\ ent \in 1..Len(MemMap)
      /\ page >= MemMap[ent].end /\ ent' = ent + 1
      /\ page' = (IF ent < Len(MemMap) THEN MemMap[ent + 1].start ELSE page)
      /\ UNCHANGED <<list, bitmap, free, owned, order, want>>
      /\ Len(MemMap) \in Nat
  <2>1. Len(MemMap) \in Nat
    BY BuddyAssumption, LenProperties
  <2>2. QED
    BY <2>1 DEF IInv, InitNextEntry, TypeOK
<1>2. page \in 0..NPages /\ MemMap[ent].end \in Nat
  BY <1>1, EntryType DEF TypeOK
<1>3. Unsliced = Later(ent)
  <2>1. page..(MemMap[ent].end - 1) = {}
    BY <1>1, <1>2
  <2>2. QED
    BY <1>1, <2>1 DEF Unsliced, Later
<1>4. Unsliced' = Unsliced /\ page' \in 0..NPages /\ LoopInv'
  <2>1. CASE ent < Len(MemMap)
    <3>1. ent + 1 \in 1..Len(MemMap)
      BY <1>1, <2>1
    <3>2. Unsliced' = Entry(ent + 1) \cup Later(ent + 1)
      BY <1>1, <2>1, <3>1 DEF Unsliced, Later, Entry
    <3>3. Unsliced' = Unsliced
      BY <1>1, <1>3, <2>1, <3>2, LaterApart
    <3>4. /\ MemMap[ent + 1].start \in Page /\ MemMap[ent + 1].start \in Nat
          /\ MemMap[ent + 1].end \in Nat
          /\ MemMap[ent + 1].start < MemMap[ent + 1].end
      BY <3>1, EntryType
    <3>5. page' \in 0..NPages /\ LoopInv'
      <4>1. page' = MemMap[ent'].start /\ page' \in Page /\ page' < MemMap[ent'].end
        BY <1>1, <2>1, <3>4
      <4>2. page' \in 0..NPages
        BY <4>1, BuddyAssumption DEF Page
      <4>3. MemMap[ent'].start <= page' /\ page' <= MemMap[ent'].end
        BY <1>1, <3>4, <4>1
      <4>4. QED
        BY <1>1, <4>2, <4>3 DEF LoopInv
    <3>6. QED
      BY <3>3, <3>5
  <2>2. CASE ~(ent < Len(MemMap))
    <3>1. ent = Len(MemMap)
      BY <1>1, <2>2
    <3>2. Unsliced' = {}
      BY <1>1, <3>1 DEF Unsliced
    <3>3. Unsliced = {}
      BY <1>1, <1>3, <3>1, LaterApart
    <3>4. page' \in 0..NPages /\ LoopInv'
      BY <1>1, <1>2, <2>2, <3>1 DEF LoopInv
    <3>5. QED
      BY <3>2, <3>3, <3>4
  <2>3. QED
    BY <2>1, <2>2
<1>5. TypeOK'
  BY <1>1, <1>4 DEF TypeOK
<1>6. Blocks' = Blocks /\ Separate'
  BY <1>1 DEF IInv, Blocks, FreeBlocks, InHand, Separate
<1>7. Tiling(Blocks, Usable \ Unsliced)' /\ (Unsliced \subseteq Usable)'
  BY <1>4, <1>6 DEF IInv, Tiling, Apart, Covers, Overlap, Span, Aligned, Block,
                    Page, Order, Usable, Entry
<1>8. BitsRight'
  BY <1>1 DEF BitsRight
<1>9. QED
  BY <1>4, <1>5, <1>6, <1>7, <1>8 DEF IInv

LEMMA FlipPreserves ==
    ASSUME IInv, InitFlip
    PROVE  IInv'
<1>1. /\ TypeOK /\ pc = "slice" /\ pc' = "idle" /\ ent > Len(MemMap)
      /\ UNCHANGED <<list, free, owned, ent, page, order, want>>
      /\ bitmap' = [o \in Order |-> [k \in PairIdx |->
            Cardinality({n \in list[o] : PairOf(n, o) = k}) % 2 = 1]]
  BY DEF IInv, InitFlip
<1>2. bitmap' \in [Order -> [PairIdx -> BOOLEAN]]
  BY <1>1
<1>3. TypeOK'
  BY <1>1, <1>2 DEF TypeOK
<1>4. Unsliced = {} /\ Unsliced' = {}
  <2>1. ~(ent <= Len(MemMap))
    <3>1. Len(MemMap) \in Nat /\ ent \in Int
      BY <1>1, BuddyAssumption, LenProperties, SMTT(30) DEF TypeOK
    <3>2. QED
      BY <1>1, <3>1
  <2>2. QED
    BY <1>1, <2>1 DEF Unsliced
<1>5. Blocks' = Blocks /\ Separate'
  BY <1>1 DEF IInv, Blocks, FreeBlocks, InHand, Separate
<1>6. Tiling(Blocks, Usable \ Unsliced)' /\ (Unsliced \subseteq Usable)'
  BY <1>4, <1>5 DEF IInv, Tiling, Apart, Covers, Overlap, Span, Aligned, Block,
                    Page, Order, Usable, Entry
<1>7. BitsRight'
  <2> SUFFICES ASSUME NEW o \in Order, o < HighOrder, NEW n \in Page, Aligned(n, o + 1)
               PROVE  BitRight(n, o)'
    BY DEF BitsRight
  <2> DEFINE h == n + order2size[o]
  <2> DEFINE k == PairOf(n, o)
  <2> DEFINE T == {x \in list[o] : PairOf(x, o) = k}
  <2>1. n \in Nat /\ order2size[o] \in Nat \ {0} /\ n # h /\ NPages \in Nat
    BY BuddyAssumption, SMTT(30) DEF Page
  <2>2. PairOf(h, o) = k
    BY <2>1, LowerHalf
  <2>3. ASSUME NEW x \in T PROVE x \in {n, h}
    <3>1. x \in Page /\ <<x, o>> \in Blocks
      BY <1>1, FreeBlockIn DEF Blocks
    <3>2. Aligned(x, o)
      BY <3>1 DEF IInv, Tiling
    <3>3. /\ Lower(x, o) \in Page /\ Aligned(Lower(x, o), o + 1)
          /\ PairOf(Lower(x, o), o) = k
          /\ x \in {Lower(x, o), Lower(x, o) + order2size[o]}
      BY <3>1, <3>2, LowerOK
    <3>4. Lower(x, o) = n
      BY <2>1, <3>3, PairDetermines, SMTT(30) DEF Page
    <3>5. QED
      BY <3>3, <3>4
  <2>4. n \in T <=> n \in list[o]
    OBVIOUS
  <2>5. h \in T <=> h \in list[o]
    BY <2>2
  <2>6. k \in PairIdx
    <3>1. n \in 0..(NPages - 1)
      BY DEF Page
    <3>2. n \div (2 * order2size[o]) \in 0..NPages
      BY <2>1, <3>1, SMT
    <3>3. QED
      BY <3>2 DEF PairOf, PairIdx
  <2>7. bitmap'[o][k] <=> Cardinality(T) % 2 = 1
    BY <1>1, <2>6
  <2> HIDE DEF T, k, h
  <2>8. Cardinality(T) % 2 = 1 <=> ~(n \in T <=> h \in T)
    <3>1. CASE n \notin T /\ h \notin T
      <4>1. T = {}
        BY <2>3, <3>1
      <4>2. QED
        BY <3>1, <4>1, FS_EmptySet
    <3>2. CASE n \in T /\ h \notin T
      <4>1. T = {n}
        BY <2>3, <3>2
      <4>2. Cardinality(T) = 1
        BY <4>1, FS_Singleton
      <4>3. QED
        BY <3>2, <4>2
    <3>3. CASE n \notin T /\ h \in T
      <4>1. T = {h}
        BY <2>3, <3>3
      <4>2. Cardinality(T) = 1
        BY <4>1, FS_Singleton
      <4>3. QED
        BY <3>3, <4>2
    <3>4. CASE n \in T /\ h \in T
      <4>1. T = {n} \cup {h}
        BY <2>3, <3>4
      <4>2. Cardinality({n} \cup {h}) = Cardinality({n}) + 1
        BY <2>1, FS_Singleton, FS_AddElement
      <4>3. Cardinality({n}) = 1
        BY FS_Singleton
      <4>4. Cardinality(T) = 2
        BY <4>1, <4>2, <4>3
      <4>5. QED
        BY <3>4, <4>4
    <3>5. QED
      BY <3>1, <3>2, <3>3, <3>4
  <2>9. bitmap'[o][k] <=> ~(n \in list[o] <=> h \in list[o])
    BY <2>4, <2>5, <2>7, <2>8
  <2>10. QED
    BY <1>1, <2>9 DEF BitRight, k, h
<1>8. LoopInv'
  BY <1>1 DEF LoopInv
<1>9. QED
  BY <1>3, <1>5, <1>6, <1>7, <1>8 DEF IInv

LEMMA InitIInv == Init => IInv
<1> SUFFICES ASSUME Init PROVE IInv
  OBVIOUS
<1>1. Len(MemMap) \in Nat /\ NPages \in Nat /\ HighOrder \in Nat /\ BootFree \in Int
  BY BuddyAssumption, LenProperties
<1>2. Unsliced = Usable /\ page \in 0..NPages /\ LoopInv
  <2>1. CASE MemMap = <<>>
    <3>1. Len(MemMap) = 0 /\ page = 0 /\ DOMAIN MemMap = {}
      BY <2>1 DEF Init
    <3>2. QED
      BY <1>1, <3>1 DEF Init, Unsliced, Usable, LoopInv
  <2>2. CASE MemMap # <<>>
    <3>1. Len(MemMap) >= 1 /\ 1 \in 1..Len(MemMap) /\ DOMAIN MemMap = 1..Len(MemMap)
      BY <1>1, <2>2, BuddyAssumption, EmptySeq, LenProperties
    <3>2. page = MemMap[1].start /\ ent = 1 /\ pc = "slice"
      BY <2>2 DEF Init
    <3>3. /\ MemMap[1].start \in Page /\ MemMap[1].start \in Nat /\ MemMap[1].end \in Nat
          /\ MemMap[1].start < MemMap[1].end
      BY <3>1, EntryType
    <3>4. Unsliced = Entry(1) \cup Later(1)
      BY <3>1, <3>2 DEF Unsliced, Entry, Later
    <3>5. Usable = Entry(1) \cup Later(1)
      <4>1. \A f : f \in DOMAIN MemMap <=> (f = 1 \/ f \in (1 + 1)..Len(MemMap))
        BY <1>1, <3>1
      <4>2. QED
        BY <4>1, Zenon DEF Usable, Later
    <3>6. page \in 0..NPages
      BY <1>1, <3>2, <3>3 DEF Page
    <3>7. LoopInv
      BY <3>2, <3>3 DEF LoopInv
    <3>8. QED
      BY <3>4, <3>5, <3>6, <3>7
  <2>3. QED
    BY <2>1, <2>2
<1>3. TypeOK
  BY <1>1, <1>2 DEF Init, TypeOK, Order
<1>4. FreeBlocks = {} /\ InHand = {} /\ owned = {}
  BY DEF Init, FreeBlocks, InHand, Block
<1>5. Blocks = {} /\ Separate
  BY <1>4 DEF Blocks, Separate
<1>6. Tiling(Blocks, Usable \ Unsliced)
  BY <1>2, <1>5 DEF Tiling, Apart, Covers
<1>7. BitsRight
  BY DEF Init, BitsRight
<1>8. QED
  BY <1>2, <1>3, <1>5, <1>6, <1>7 DEF IInv

LEMMA StutterPreserves == IInv /\ UNCHANGED vars => IInv'
<1> SUFFICES ASSUME IInv, UNCHANGED vars PROVE IInv'
  OBVIOUS
<1> USE DEF vars
<1>1. TypeOK' /\ LoopInv' /\ BitsRight'
  BY DEF IInv, TypeOK, LoopInv, BitsRight, BitRight
<1>2. Blocks' = Blocks /\ Separate' /\ Unsliced' = Unsliced
  BY DEF IInv, Blocks, FreeBlocks, InHand, Separate, Unsliced, Entry
<1>3. Tiling(Blocks, Usable \ Unsliced)' /\ (Unsliced \subseteq Usable)'
  BY <1>2 DEF IInv, Tiling, Apart, Covers, Overlap, Span, Aligned, Block,
              Page, Order, Usable, Entry
<1>4. QED
  BY <1>1, <1>2, <1>3 DEF IInv

(* The inductive invariant holds of every behaviour of the allocator.      *)
THEOREM BuddyInvariant == Spec => []IInv
<1>1. Init => IInv
  BY InitIInv
<1>2. IInv /\ [Next]_vars => IInv'
  <2> SUFFICES ASSUME IInv, [Next]_vars PROVE IInv'
    OBVIOUS
  <2>1. CASE InitSlice
    BY <2>1, SlicePreserves
  <2>2. CASE InitNextEntry
    BY <2>2, NextEntryPreserves
  <2>3. CASE InitFlip
    BY <2>3, FlipPreserves
  <2>4. CASE AllocFound
    BY <2>4, FoundPreserves
  <2>5. CASE AllocNextOrder \/ AllocFail
    BY <2>5, SearchPreserves
  <2>6. CASE AllocSplit
    BY <2>6, SplitPreserves
  <2>7. CASE AllocDone
    BY <2>7, DonePreserves
  <2>8. CASE FreeMerge
    BY <2>8, MergePreserves
  <2>9. CASE FreeLink \/ FreeLinkTop
    BY <2>9, LinkPreserves
  <2>10. CASE \E o \in Order : AllocStart(o)
    BY <2>10, StartPreserves
  <2>11. CASE \E b \in owned : FreeStart(b[1], b[2])
    BY <2>11, FreeStartPreserves
  <2>12. CASE UNCHANGED vars
    BY <2>12, StutterPreserves
  <2>13. QED
    BY <2>1, <2>2, <2>3, <2>4, <2>5, <2>6, <2>7, <2>8, <2>9, <2>10, <2>11, <2>12
    DEF Next, Continue
<1>3. QED
  BY <1>1, <1>2, PTL DEF Spec

-----------------------------------------------------------------------------
(* The state of the allocator is always well typed.                        *)
THEOREM BuddyTypeCorrect == Spec => []TypeOK
<1>1. IInv => TypeOK
  BY DEF IInv
<1>2. QED
  BY <1>1, BuddyInvariant, PTL

(* No page is in two blocks: page_alloc never hands out a page in use,     *)
(* whatever the memory map and the sequence of calls.                      *)
THEOREM BuddyBlocksDisjoint == Spec => []BlocksDisjoint
<1>1. IInv => BlocksDisjoint
  BY DEF IInv, Tiling, Apart, Separate, BlocksDisjoint
<1>2. QED
  BY <1>1, BuddyInvariant, PTL

(* Splits, merges and boot-time slicing lose no usable page.               *)
THEOREM BuddyNoPageLost == Spec => []NoPageLost
<1>1. IInv => NoPageLost
  <2> SUFFICES ASSUME IInv PROVE NoPageLost
    OBVIOUS
  <2>1. UNION {Span(b[1], b[2]) : b \in Blocks} = Usable \ Unsliced
    BY DEF IInv, Tiling, Covers
  <2>2. (Usable \ Unsliced) \cup Unsliced = Usable
    BY DEF IInv
  <2>3. QED
    BY <2>1, <2>2 DEF NoPageLost
<1>2. QED
  BY <1>1, BuddyInvariant, PTL

(* buddy_alloc's panic on a bad split is unreachable.                      *)
THEOREM BuddySplitSafe == Spec => []SplitSafe
<1>1. IInv => SplitSafe
  <2> SUFFICES ASSUME IInv, pc = "split", order > want
               PROVE  ~order_status_at(get_buddy(page, order - 1), order - 1)
    BY DEF SplitSafe
  <2> DEFINE o == order - 1
  <2> DEFINE m == page + order2size[o]
  <2>1. /\ o \in Order /\ o < HighOrder /\ page \in Page /\ m \in Page
        /\ Aligned(page, o + 1) /\ get_buddy(page, o) = m
        /\ PairOf(m, o) = PairOf(page, o)
        /\ <<page, o>> \notin Blocks /\ <<m, o>> \notin Blocks
    BY SplitFacts
  <2> HIDE DEF o, m
  <2>2. page \notin list[o] /\ m \notin list[o]
    BY <2>1, FreeBlockIn DEF IInv, Blocks
  <2>3. BitRight(page, o)
    BY <2>1 DEF IInv, BitsRight
  <2>4. ~bitmap[o][PairOf(page, o)]
    BY <2>2, <2>3 DEF BitRight, m
  <2>5. QED
    BY <2>1, <2>4 DEF order_status_at, o
<1>2. QED
  BY <1>1, BuddyInvariant, PTL

(* buddy_free only unlinks a buddy that is in its free list.               *)
THEOREM BuddyUnlinkSafe == Spec => []UnlinkSafe
<1>1. IInv => UnlinkSafe
  BY MergeFacts DEF UnlinkSafe
<1>2. QED
  BY <1>1, BuddyInvariant, PTL

(* One more block adds its pages to the pages of a set of blocks.          *)
LEMMA SpansAdd ==
    ASSUME NEW B, NEW n, NEW o
    PROVE  UNION {Span(b[1], b[2]) : b \in B \cup {<<n, o>>}}
             = (UNION {Span(b[1], b[2]) : b \in B}) \cup Span(n, o)
<1> DEFINE C == B \cup {<<n, o>>}
<1>1. ASSUME NEW p \in UNION {Span(b[1], b[2]) : b \in C}
      PROVE  p \in (UNION {Span(b[1], b[2]) : b \in B}) \cup Span(n, o)
  <2>1. PICK b \in C : p \in Span(b[1], b[2])
    OBVIOUS
  <2>2. CASE b \in B
    BY <2>1, <2>2
  <2>3. CASE b = <<n, o>>
    BY <2>1, <2>3
  <2>4. QED
    BY <2>2, <2>3
<1>2. <<n, o>> \in C /\ <<n, o>>[1] = n /\ <<n, o>>[2] = o /\ B \subseteq C
  OBVIOUS
<1> HIDE DEF C
<1>3. ASSUME NEW p \in UNION {Span(b[1], b[2]) : b \in B}
      PROVE  p \in UNION {Span(b[1], b[2]) : b \in C}
  BY <1>2
<1>4. ASSUME NEW p \in Span(n, o) PROVE p \in UNION {Span(b[1], b[2]) : b \in C}
  BY <1>2
<1>5. UNION {Span(b[1], b[2]) : b \in C}
        = (UNION {Span(b[1], b[2]) : b \in B}) \cup Span(n, o)
  BY <1>1, <1>3, <1>4
<1>6. QED
  BY <1>5 DEF C

(* The allocator implements the contract of page_alloc and page_free.      *)
THEOREM BuddyImplements == Spec => ImplementsPageAlloc
<1>1. Init => PA!Init
  BY DEF Init, PA!Init, OwnedPages
<1>2. IInv /\ [Next]_vars => [PA!Next]_(PA!vars)
  <2> SUFFICES ASSUME IInv, [Next]_vars PROVE [PA!Next]_(PA!vars)
    OBVIOUS
  <2> USE DEF PA!vars
  <2>1. CASE owned' = owned
    BY <2>1 DEF OwnedPages, Span, Usable, Entry
  <2>2. CASE AllocDone
    <3>1. /\ pc = "split" /\ order = want /\ owned' = owned \cup {<<page, want>>}
      BY <2>2 DEF AllocDone
    <3>2. Tiling(Blocks, Usable)
      BY <3>1, AfterBootTiling
    <3>3. <<page, want>> \in InHand /\ <<page, want>> \in Blocks
      BY <3>1 DEF InHand, Blocks
    <3>4. page \in Page /\ want \in Order
      BY <3>2, <3>3 DEF Tiling, Block
    <3>5. <<page, want>> \notin owned
      BY <3>3 DEF IInv, Separate
    <3>6. Span(page, want) \subseteq Usable
      <4>1. \A b \in Blocks : Span(b[1], b[2]) \subseteq Usable
        BY <3>2 DEF Tiling, Covers
      <4>2. Span(<<page, want>>[1], <<page, want>>[2]) \subseteq Usable
        BY <3>3, <4>1
      <4>3. QED
        BY <4>2
    <3>7. Span(page, want) \cap OwnedPages = {}
      <4> SUFFICES ASSUME NEW b \in owned, NEW x \in Span(b[1], b[2]),
                          x \in Span(page, want)
                   PROVE  FALSE
        BY DEF OwnedPages
      <4>1. b \in Blocks /\ b # <<page, want>>
        BY <3>5 DEF Blocks
      <4>2. x \in Span(<<page, want>>[1], <<page, want>>[2])
        OBVIOUS
      <4>3. QED
        BY <3>2, <3>3, <4>1, <4>2 DEF Tiling, Apart, Overlap
    <3>8. OwnedPages' = OwnedPages \cup Span(page, want)
      <4>1. OwnedPages' = UNION {Span(b[1], b[2]) : b \in owned \cup {<<page, want>>}}
        BY <3>1 DEF OwnedPages, Span
      <4>2. QED
        BY <4>1, SpansAdd DEF OwnedPages
    <3>9. PA!Span(page, want) = Span(page, want)
      BY DEF PA!Span, Span
    <3>10. page % order2size[want] = 0
      BY <3>2, <3>3 DEF Tiling, Aligned
    <3>11. PA!Alloc(page, want)
      <4>1. (Usable \ OwnedPages)' = (Usable \ OwnedPages) \ Span(page, want)
        <5>1. Usable' = Usable
          BY DEF Usable, Entry
        <5>2. QED
          BY <3>8, <5>1
      <4>2. Span(page, want) \subseteq Usable \ OwnedPages
        BY <3>6, <3>7
      <4>3. QED
        BY <3>1, <3>9, <3>10, <4>1, <4>2 DEF PA!Alloc
    <3>12. QED
      BY <3>4, <3>11 DEF PA!Next
  <2>3. ASSUME NEW b \in owned, FreeStart(b[1], b[2]) PROVE PA!Next
    <3> DEFINE p == b[1]
    <3> DEFINE o == b[2]
    <3>1. pc = "idle" /\ owned' = owned \ {<<p, o>>} /\ <<p, o>> \in owned
      BY <2>3 DEF FreeStart
    <3>2. p \in Page /\ o \in Order /\ b = <<p, o>>
      BY DEF IInv, TypeOK, Block
    <3>3. Tiling(Blocks, Usable)
      BY <3>1, AfterBootTiling
    <3> HIDE DEF p, o
    <3>4. \A c \in owned : Span(c[1], c[2]) \subseteq Usable
      BY <3>3 DEF Tiling, Covers, Blocks
    <3>5. Span(p, o) \subseteq Usable
      <4>1. Span(<<p, o>>[1], <<p, o>>[2]) \subseteq Usable
        BY <3>1, <3>4
      <4>2. QED
        BY <4>1
    <3>6. \A c \in owned \ {<<p, o>>} : Span(c[1], c[2]) \cap Span(p, o) = {}
      <4> SUFFICES ASSUME NEW c \in owned \ {<<p, o>>}
                   PROVE  Span(c[1], c[2]) \cap Span(<<p, o>>[1], <<p, o>>[2]) = {}
        OBVIOUS
      <4>1. c \in Blocks /\ <<p, o>> \in Blocks /\ c # <<p, o>>
        BY <3>1 DEF Blocks
      <4>2. QED
        BY <3>3, <4>1 DEF Tiling, Apart, Overlap
    <3>7. OwnedPages = (UNION {Span(c[1], c[2]) : c \in owned \ {<<p, o>>}}) \cup Span(p, o)
      <4>1. owned = (owned \ {<<p, o>>}) \cup {<<p, o>>}
        BY <3>1
      <4>2. OwnedPages = UNION {Span(c[1], c[2]) : c \in (owned \ {<<p, o>>}) \cup {<<p, o>>}}
        BY <4>1 DEF OwnedPages
      <4>3. QED
        BY <4>2, SpansAdd
    <3>8. OwnedPages' = UNION {Span(c[1], c[2]) : c \in owned \ {<<p, o>>}}
      BY <3>1 DEF OwnedPages, Span
    <3>9. OwnedPages' = OwnedPages \ Span(p, o)
      <4> DEFINE R == UNION {Span(c[1], c[2]) : c \in owned \ {<<p, o>>}}
      <4>1. R \cap Span(p, o) = {}
        BY <3>6
      <4> HIDE DEF R
      <4>2. OwnedPages = R \cup Span(p, o) /\ OwnedPages' = R
        BY <3>7, <3>8 DEF R
      <4>3. QED
        BY <4>1, <4>2
    <3>10. (Usable \ OwnedPages)' = (Usable \ OwnedPages) \cup Span(p, o)
      <4>1. Usable' = Usable
        BY DEF Usable, Entry
      <4>2. QED
        BY <3>5, <3>9, <4>1
    <3>11. PA!Span(p, o) = Span(p, o)
      BY DEF PA!Span, Span
    <3>12. PA!Free(p, o)
      BY <3>1, <3>10, <3>11 DEF PA!Free
    <3>13. QED
      BY <3>2, <3>12 DEF PA!Next
  <2>4. CASE \E b \in owned : FreeStart(b[1], b[2])
    BY <2>3, <2>4
  <2>5. AllocDone \/ (\E b \in owned : FreeStart(b[1], b[2])) \/ owned' = owned
    BY DEF Next, Continue, vars, InitSlice, InitNextEntry, InitFlip, AllocFound,
           AllocNextOrder, AllocFail, AllocSplit, FreeMerge, FreeLink, FreeLinkTop,
           AllocStart
  <2>6. QED
    BY <2>1, <2>2, <2>4, <2>5
<1>3. QED
  BY <1>1, <1>2, BuddyInvariant, PTL DEF Spec, ImplementsPageAlloc, PA!Spec
=============================================================================
