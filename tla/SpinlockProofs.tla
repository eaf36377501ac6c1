--------------------------- MODULE SpinlockProofs ---------------------------
(***************************************************************************)
(* Theorems about Spinlock for any number of processors, locks and nesting *)
(* depth.  MutualExclusion needs no assumption on the callers; the saved   *)
(* interrupt flag is right on one processor, or when every lock is always  *)
(* requested in the same interrupt context.                                *)
(***************************************************************************)
EXTENDS Spinlock, SequenceTheorems, TLAPS

(* What the three ways of changing a processor's brackets do.              *)

(* Push(c, f) leaves the open brackets alone and adds f above them.        *)
LEMMA PushEffect ==
    ASSUME stack \in [CPU -> Seq(Frame)], NEW c \in CPU, NEW f \in Frame,
           Push(c, f)
    PROVE  /\ stack' \in [CPU -> Seq(Frame)]
           /\ Len(stack'[c]) = Len(stack[c]) + 1
           /\ stack'[c][Len(stack[c]) + 1] = f
           /\ \A i \in 1..Len(stack[c]) : stack'[c][i] = stack[c][i]
           /\ \A d \in CPU : d # c => stack'[d] = stack[d]
BY DEF Push

(* Dropping the last element of a sequence keeps the others.               *)
LEMMA DropLast ==
    ASSUME NEW S, NEW s \in Seq(S), Len(s) > 0
    PROVE  /\ SubSeq(s, 1, Len(s) - 1) \in Seq(S)
           /\ Len(SubSeq(s, 1, Len(s) - 1)) = Len(s) - 1
           /\ \A i \in 1..(Len(s) - 1) : SubSeq(s, 1, Len(s) - 1)[i] = s[i]
<1> DEFINE n == Len(s) - 1
<1>1. n \in Nat
  BY LenProperties
<1>2. \A i \in 1..n : s[i] \in S
  BY ElementOfSeq, LenProperties
<1> HIDE DEF n
<1>3. /\ SubSeq(s, 1, n) \in Seq(S)
      /\ Len(SubSeq(s, 1, n)) = IF 1 <= n THEN n - 1 + 1 ELSE 0
      /\ \A i \in 1..(n - 1 + 1) : SubSeq(s, 1, n)[i] = s[1 + i - 1]
  BY <1>1, <1>2, SubSeqProperties
<1>4. /\ SubSeq(s, 1, n) \in Seq(S)
      /\ Len(SubSeq(s, 1, n)) = n
      /\ \A i \in 1..n : SubSeq(s, 1, n)[i] = s[i]
  BY <1>1, <1>3
<1>5. QED
  BY <1>4 DEF n

(* Pop(c) removes the innermost bracket.                                   *)
LEMMA PopEffect ==
    ASSUME stack \in [CPU -> Seq(Frame)], NEW c \in CPU, Depth(c) > 0, Pop(c)
    PROVE  /\ stack' \in [CPU -> Seq(Frame)]
           /\ Len(stack'[c]) = Len(stack[c]) - 1
           /\ \A i \in 1..(Len(stack[c]) - 1) : stack'[c][i] = stack[c][i]
           /\ \A d \in CPU : d # c => stack'[d] = stack[d]
<1>1. stack'[c] = SubSeq(stack[c], 1, Len(stack[c]) - 1)
  BY DEF Pop
<1>2. QED
  BY <1>1, DropLast DEF Pop, Depth

(* SetTop(c, s) changes the status of the innermost bracket only.          *)
LEMMA SetTopEffect ==
    ASSUME stack \in [CPU -> Seq(Frame)], NEW c \in CPU, Depth(c) > 0,
           NEW s \in {"spin", "held", "restore"}, SetTop(c, s)
    PROVE  /\ stack' \in [CPU -> Seq(Frame)]
           /\ Len(stack'[c]) = Len(stack[c])
           /\ stack'[c][Len(stack[c])] = [stack[c][Len(stack[c])] EXCEPT !.st = s]
           /\ \A i \in 1..(Len(stack[c]) - 1) : stack'[c][i] = stack[c][i]
           /\ \A d \in CPU : d # c => stack'[d] = stack[d]
<1> DEFINE q == stack[c]
           n == Len(q)
           f == [q[n] EXCEPT !.st = s]
<1>1. q \in Seq(Frame) /\ n \in Nat /\ n > 0 /\ q[n] \in Frame
  BY LenProperties, ElementOfSeq DEF Depth
<1>2. f \in Frame
  BY <1>1 DEF Frame
<1>3. stack' = [stack EXCEPT ![c] = [q EXCEPT ![n] = f]]
  BY DEF SetTop, Depth
<1>4. /\ [q EXCEPT ![n] = f] \in Seq(Frame)
      /\ Len([q EXCEPT ![n] = f]) = n
      /\ \A j \in 1..n : [q EXCEPT ![n] = f][j] = IF j = n THEN f ELSE q[j]
  <2> HIDE DEF q, f
  <2>1. n \in 1..Len(q)
    BY <1>1
  <2>2. QED
    BY <1>1, <1>2, <2>1, ExceptSeq
<1>5. PICK r : r = [q EXCEPT ![n] = f]
  OBVIOUS
<1>6. stack' \in [CPU -> Seq(Frame)] /\ stack'[c] = r
  BY <1>3, <1>4, <1>5
<1>7. \A d \in CPU : d # c => stack'[d] = stack[d]
  BY <1>3
<1>8. Len(r) = n /\ r[n] = f /\ \A i \in 1..(n - 1) : r[i] = q[i]
  <2>1. Len(r) = n /\ \A j \in 1..n : r[j] = IF j = n THEN f ELSE q[j]
    <3> HIDE DEF q, n, f
    <3>1. QED
      BY <1>4, <1>5, Zenon
  <2> HIDE DEF q, n, f
  <2>2. QED
    BY <1>1, <2>1
<1>9. QED
  BY <1>6, <1>7, <1>8

-----------------------------------------------------------------------------
(* A bracket's lock is of the kind its bracket takes, and a bracket that   *)
(* takes none is never waiting.                                            *)
FrameOK(f) ==
    /\ f.kind = "global" => f.lock \in Lock
    /\ f.kind = "mutex" => f.lock \in Mutex
    /\ f.kind \in {"bracket", "irq"} => f.lock = NoLock /\ f.st = "held"

FramesOK == \A c \in CPU : \A i \in 1..Len(stack[c]) : FrameOK(stack[c][i])

Typed == TypeOK /\ FramesOK

(* Type correctness is preserved by every step of every processor.         *)
LEMMA TypedStep ==
    ASSUME Typed, [Next]_vars
    PROVE  Typed'
<1> USE DEF Typed
<1>1. CASE UNCHANGED vars
  BY <1>1 DEF vars, TypeOK, FramesOK, Depth
<1>2. ASSUME NEW c \in CPU, Step(c)
      PROVE  Typed'
  <2>0. /\ stack \in [CPU -> Seq(Frame)]
        /\ \A d \in CPU : Len(stack[d]) \in Nat
        /\ \A d \in CPU : \A i \in 1..Len(stack[d]) : stack[d][i] \in Frame
    BY LenProperties, ElementOfSeq DEF TypeOK
  <2>a. ASSUME NEW f \in Frame, Push(c, f), Depth(c) < MaxDepth,
               FrameOK(f),
               lock' \in [Lock \cup Mutex -> BOOLEAN],
               old_state' \in [Lock \cup Mutex -> BOOLEAN],
               intr' \in [CPU -> BOOLEAN]
        PROVE  Typed'
    <3>1. /\ stack' \in [CPU -> Seq(Frame)]
          /\ Len(stack'[c]) = Len(stack[c]) + 1
          /\ stack'[c][Len(stack[c]) + 1] = f
          /\ \A i \in 1..Len(stack[c]) : stack'[c][i] = stack[c][i]
          /\ \A d \in CPU : d # c => stack'[d] = stack[d]
      BY <2>0, <2>a, PushEffect
    <3>2. TypeOK'
      <4>1. ASSUME NEW d \in CPU PROVE Len(stack'[d]) <= MaxDepth
        <5>1. Len(stack[d]) <= MaxDepth /\ Len(stack[c]) \in Nat
          BY <2>0 DEF TypeOK, Depth
        <5>2. QED
          BY <2>a, <3>1, <5>1, ConstantsAssumption DEF Depth
      <4>2. QED
        BY <2>a, <3>1, <4>1 DEF TypeOK, Depth
    <3>3. FramesOK'
      <4> SUFFICES ASSUME NEW d \in CPU, NEW i \in 1..Len(stack'[d])
                   PROVE  FrameOK(stack'[d][i])
        BY DEF FramesOK
      <4>0. Len(stack[c]) \in Nat
        BY <2>0
      <4>1. CASE d # c
        BY <3>1, <4>1 DEF FramesOK
      <4>2. CASE d = c /\ i \in 1..Len(stack[c])
        BY <2>0, <3>1, <4>0, <4>2 DEF FramesOK
      <4>3. CASE d = c /\ i = Len(stack[c]) + 1
        BY <2>a, <3>1, <4>0, <4>3 DEF FrameOK, FramesOK, Depth, Top, Frame
      <4>4. QED
        BY <3>1, <4>0, <4>1, <4>2, <4>3
    <3>4. QED
      BY <3>2, <3>3
  <2>b. ASSUME Pop(c), Depth(c) > 0,
               lock' \in [Lock \cup Mutex -> BOOLEAN],
               old_state' \in [Lock \cup Mutex -> BOOLEAN],
               intr' \in [CPU -> BOOLEAN]
        PROVE  Typed'
    <3>1. /\ stack' \in [CPU -> Seq(Frame)]
          /\ Len(stack'[c]) = Len(stack[c]) - 1
          /\ \A i \in 1..(Len(stack[c]) - 1) : stack'[c][i] = stack[c][i]
          /\ \A d \in CPU : d # c => stack'[d] = stack[d]
      BY <2>0, <2>b, PopEffect
    <3>2. TypeOK'
      <4>1. ASSUME NEW d \in CPU PROVE Len(stack'[d]) <= MaxDepth
        <5>1. Len(stack[d]) <= MaxDepth /\ Len(stack[c]) \in Nat
          BY <2>0 DEF TypeOK, Depth
        <5>2. QED
          BY <2>b, <3>1, <5>1, ConstantsAssumption DEF Depth
      <4>2. QED
        BY <2>b, <3>1, <4>1 DEF TypeOK, Depth
    <3>3. FramesOK'
      <4> SUFFICES ASSUME NEW d \in CPU, NEW i \in 1..Len(stack'[d])
                   PROVE  FrameOK(stack'[d][i])
        BY DEF FramesOK
      <4>0. Len(stack[c]) \in Nat
        BY <2>0
      <4>1. CASE d # c
        BY <3>1, <4>1 DEF FramesOK
      <4>2. CASE d = c /\ i \in 1..(Len(stack[c]) - 1)
        BY <2>0, <3>1, <4>0, <4>2 DEF FramesOK
      <4>3. QED
        BY <3>1, <4>0, <4>1, <4>2
    <3>4. QED
      BY <3>2, <3>3
  <2>c. ASSUME NEW s \in {"spin", "held", "restore"}, SetTop(c, s), Depth(c) > 0,
               Top(c).kind \in {"global", "mutex"},
               lock' \in [Lock \cup Mutex -> BOOLEAN],
               old_state' \in [Lock \cup Mutex -> BOOLEAN],
               intr' \in [CPU -> BOOLEAN]
        PROVE  Typed'
    <3>1. /\ stack' \in [CPU -> Seq(Frame)]
          /\ Len(stack'[c]) = Len(stack[c])
          /\ stack'[c][Len(stack[c])] = [stack[c][Len(stack[c])] EXCEPT !.st = s]
          /\ \A i \in 1..(Len(stack[c]) - 1) : stack'[c][i] = stack[c][i]
          /\ \A d \in CPU : d # c => stack'[d] = stack[d]
      BY <2>0, <2>c, SetTopEffect
    <3>2. TypeOK'
      <4>1. ASSUME NEW d \in CPU PROVE Len(stack'[d]) <= MaxDepth
        <5>1. Len(stack[d]) <= MaxDepth /\ Len(stack[c]) \in Nat
          BY <2>0 DEF TypeOK, Depth
        <5>2. QED
          BY <2>c, <3>1, <5>1, ConstantsAssumption DEF Depth
      <4>2. QED
        BY <2>c, <3>1, <4>1 DEF TypeOK, Depth
    <3>3. FramesOK'
      <4> SUFFICES ASSUME NEW d \in CPU, NEW i \in 1..Len(stack'[d])
                   PROVE  FrameOK(stack'[d][i])
        BY DEF FramesOK
      <4>0. Len(stack[c]) \in Nat
        BY <2>0
      <4>1. CASE d # c
        BY <3>1, <4>1 DEF FramesOK
      <4>2. CASE d = c /\ i \in 1..(Len(stack[c]) - 1)
        BY <2>0, <3>1, <4>0, <4>2 DEF FramesOK
      <4>3. CASE d = c /\ i = Len(stack[c])
        <5> DEFINE f == stack[c][Len(stack[c])]
        <5>1. f \in Frame /\ FrameOK(f) /\ f.kind \in {"global", "mutex"}
          BY <2>0, <2>c, <4>0 DEF FramesOK, Depth, Top
        <5>2. stack'[d][i] = [f EXCEPT !.st = s]
          BY <3>1, <4>3
        <5> HIDE DEF f
        <5>3. [f EXCEPT !.st = s].kind = f.kind /\ [f EXCEPT !.st = s].lock = f.lock
          BY <5>1 DEF Frame
        <5>4. QED
          BY <5>1, <5>2, <5>3 DEF FrameOK
      <4>4. QED
        BY <3>1, <4>0, <4>1, <4>2, <4>3
    <3>4. QED
      BY <3>2, <3>3
  <2>1. CASE PreemptFetchDisable(c)
    <3>1. NewFrame("bracket", NoLock, intr[c], "held") \in Frame
      BY DEF TypeOK, Frame, NewFrame
    <3>2. QED
      BY <2>1, <2>a, <3>1 DEF PreemptFetchDisable, TypeOK, NewFrame, FrameOK
  <2>2. CASE PreemptRestore(c)
    <3>1. Depth(c) > 0 /\ Top(c) \in Frame
      BY <2>0, <2>2 DEF PreemptRestore, AtTop, Top, Depth
    <3>2. Top(c).old \in BOOLEAN
      BY <3>1 DEF Frame
    <3>3. QED
      BY <2>2, <2>b, <3>1, <3>2 DEF PreemptRestore, Restored, TypeOK
  <2>3. CASE Interrupt(c)
    <3>1. NewFrame("irq", NoLock, TRUE, "held") \in Frame
      BY DEF Frame, NewFrame
    <3>2. QED
      BY <2>3, <2>a, <3>1 DEF Interrupt, TypeOK, NewFrame, FrameOK
  <2>4. CASE Iret(c)
    <3>1. Depth(c) > 0 /\ Top(c) \in Frame
      BY <2>0, <2>4 DEF Iret, AtTop, Top, Depth
    <3>2. Top(c).old \in BOOLEAN
      BY <3>1 DEF Frame
    <3>3. QED
      BY <2>4, <2>b, <3>1, <3>2 DEF Iret, TypeOK
  <2>5. ASSUME NEW l \in Lock, SpinLockGlobal(c, l)
        PROVE  Typed'
    <3>1. NewFrame("global", l, intr[c], "spin") \in Frame
      BY DEF TypeOK, Frame, NewFrame
    <3>2. QED
      BY <2>5, <2>a, <3>1 DEF SpinLockGlobal, TypeOK, NewFrame, FrameOK
  <2>6. CASE SpinLock(c)
    BY <2>6, <2>c DEF SpinLock, AtTop, TypeOK
  <2>7. CASE SpinUnlock(c)
    BY <2>7, <2>c DEF SpinUnlock, AtTop, TypeOK
  <2>8. CASE SpinUnlockGlobal(c)
    <3>1. Depth(c) > 0 /\ Top(c).lock \in Lock \cup Mutex
      BY <2>0, <2>8 DEF SpinUnlockGlobal, AtTop, Top, Depth, FramesOK, FrameOK
    <3>2. QED
      BY <2>8, <2>b, <3>1 DEF SpinUnlockGlobal, Restored, TypeOK
  <2>9. ASSUME NEW m \in Mutex, AcquireMutex(c, m)
        PROVE  Typed'
    <3>1. NewFrame("mutex", m, intr[c], "spin") \in Frame
      BY DEF TypeOK, Frame, NewFrame
    <3>2. QED
      BY <2>9, <2>a, <3>1 DEF AcquireMutex, TypeOK, NewFrame, FrameOK
  <2>10. CASE SpinLockTimeoutTaken(c)
    BY <2>10, <2>c DEF SpinLockTimeoutTaken, AtTop, TypeOK
  <2>11. CASE SpinLockTimeoutExpired(c)
    BY <2>11, <2>c DEF SpinLockTimeoutExpired, AtTop, TypeOK
  <2>12. QED
    BY <1>2, <2>1, <2>2, <2>3, <2>4, <2>5, <2>6, <2>7, <2>8, <2>9, <2>10,
       <2>11 DEF Step
<1>3. QED
  BY <1>1, <1>2 DEF Next

(* Every variable, and every bracket, has its type in every reachable      *)
(* state, for any number of processors, locks and mutexes.                 *)
THEOREM TypeCorrect == Spec => []TypeOK
<1>1. Init => Typed
  <2> SUFFICES ASSUME Init PROVE Typed
    OBVIOUS
  <2>1. \A c \in CPU : stack[c] = <<>> /\ Len(stack[c]) = 0
    BY DEF Init
  <2>2. <<>> \in Seq(Frame)
    OBVIOUS
  <2>3. QED
    BY <2>1, <2>2, ConstantsAssumption DEF Init, Typed, TypeOK, FramesOK, Depth
<1>2. Typed /\ [Next]_vars => Typed'
  BY TypedStep
<1>3. QED
  BY <1>1, <1>2, PTL DEF Spec, Typed

-----------------------------------------------------------------------------
(* Mutual exclusion, bracket by bracket.                                   *)

Own(c, i, l) == i \in 1..Len(stack[c]) /\ Owns(stack[c][i], l)

OneOwner ==
    \A l \in Lock : \A c, d \in CPU : \A i, j \in Nat :
        Own(c, i, l) /\ Own(d, j, l) => c = d /\ i = j

WordTrue ==
    \A l \in Lock : lock[l] <=> \E c \in CPU : \E i \in Nat : Own(c, i, l)

MutexInv == Typed /\ OneOwner /\ WordTrue

(* A step that neither takes nor releases a spinlock changes no ownership. *)
LEMMA QuietKeeps ==
    ASSUME MutexInv, Typed',
           \A l \in Lock : lock'[l] = lock[l],
           \A l \in Lock : \A d \in CPU : \A i \in Nat :
               Own(d, i, l)' <=> Own(d, i, l)
    PROVE  MutexInv'
<1>1. OneOwner'
  BY DEF MutexInv, OneOwner
<1>2. WordTrue'
  BY DEF MutexInv, WordTrue
<1>3. QED
  BY <1>1, <1>2 DEF MutexInv

(* Only a processor's new innermost bracket, or its changed one, can own a *)
(* lock that it did not own before.                                        *)
LEMMA OwnershipStep ==
    ASSUME MutexInv, NEW c \in CPU, Step(c), Typed'
    PROVE  MutexInv'
<1>0. /\ stack \in [CPU -> Seq(Frame)]
      /\ \A d \in CPU : Len(stack[d]) \in Nat
      /\ \A d \in CPU : \A i \in 1..Len(stack[d]) : stack[d][i] \in Frame
      /\ Len(stack[c]) > 0 => Top(c) \in Frame /\ FrameOK(Top(c))
  <2>1. /\ stack \in [CPU -> Seq(Frame)]
        /\ \A d \in CPU : Len(stack[d]) \in Nat
        /\ \A d \in CPU : \A i \in 1..Len(stack[d]) : stack[d][i] \in Frame
    BY LenProperties, ElementOfSeq DEF MutexInv, Typed, TypeOK
  <2>2. QED
    BY <2>1 DEF MutexInv, Typed, FramesOK, Top, Depth
<1>a. ASSUME NEW f \in Frame, Push(c, f), f.lock \notin Lock \/ f.st # "held",
             UNCHANGED lock
      PROVE  MutexInv'
  <2>1. /\ Len(stack'[c]) = Len(stack[c]) + 1
        /\ stack'[c][Len(stack[c]) + 1] = f
        /\ \A i \in 1..Len(stack[c]) : stack'[c][i] = stack[c][i]
        /\ \A d \in CPU : d # c => stack'[d] = stack[d]
    BY <1>0, <1>a, PushEffect
  <2>2. ASSUME NEW l \in Lock, NEW d \in CPU, NEW i \in Nat
        PROVE  Own(d, i, l)' <=> Own(d, i, l)
    <3>1. CASE d # c
      BY <2>1, <3>1 DEF Own, Owns
    <3>2. CASE d = c /\ i = Len(stack[c]) + 1
      BY <1>0, <1>a, <2>1, <3>2 DEF Own, Owns
    <3>3. CASE d = c /\ i # Len(stack[c]) + 1
      BY <1>0, <2>1, <3>3 DEF Own, Owns
    <3>4. QED
      BY <3>1, <3>2, <3>3
  <2>3. QED
    BY <1>a, <2>2, QuietKeeps
<1>b. ASSUME Pop(c), Len(stack[c]) > 0,
             Top(c).lock \notin Lock \/ Top(c).st # "held", UNCHANGED lock
      PROVE  MutexInv'
  <2>1. /\ Len(stack'[c]) = Len(stack[c]) - 1
        /\ \A i \in 1..(Len(stack[c]) - 1) : stack'[c][i] = stack[c][i]
        /\ \A d \in CPU : d # c => stack'[d] = stack[d]
    BY <1>0, <1>b, PopEffect DEF Depth
  <2>2. ASSUME NEW l \in Lock, NEW d \in CPU, NEW i \in Nat
        PROVE  Own(d, i, l)' <=> Own(d, i, l)
    <3>1. CASE d # c
      BY <2>1, <3>1 DEF Own, Owns
    <3>2. CASE d = c /\ i = Len(stack[c])
      BY <1>0, <1>b, <2>1, <3>2 DEF Own, Owns, Top, Depth
    <3>3. CASE d = c /\ i # Len(stack[c])
      BY <1>0, <2>1, <3>3 DEF Own, Owns
    <3>4. QED
      BY <3>1, <3>2, <3>3
  <2>3. QED
    BY <1>b, <2>2, QuietKeeps
<1>c. ASSUME NEW s \in {"held", "restore"}, SetTop(c, s), Len(stack[c]) > 0
      PROVE  \A l \in Lock : \A d \in CPU : \A i \in Nat :
                Own(d, i, l)' <=> IF d = c /\ i = Len(stack[c])
                                  THEN l = Top(c).lock /\ s = "held"
                                  ELSE Own(d, i, l)
  <2> DEFINE f == stack[c][Len(stack[c])]
             g == [f EXCEPT !.st = s]
  <2>1. /\ Len(stack'[c]) = Len(stack[c])
        /\ stack'[c][Len(stack[c])] = g
        /\ \A i \in 1..(Len(stack[c]) - 1) : stack'[c][i] = stack[c][i]
        /\ \A d \in CPU : d # c => stack'[d] = stack[d]
    BY <1>0, <1>c, SetTopEffect DEF Depth
  <2>2. g.st = s /\ g.lock = Top(c).lock
    BY <1>0, <1>c DEF Top, Depth, Frame
  <2> HIDE DEF g
  <2> SUFFICES ASSUME NEW l \in Lock, NEW d \in CPU, NEW i \in Nat
               PROVE  Own(d, i, l)' <=> IF d = c /\ i = Len(stack[c])
                                        THEN l = Top(c).lock /\ s = "held"
                                        ELSE Own(d, i, l)
    OBVIOUS
  <2>3. CASE d # c
    BY <2>1, <2>3 DEF Own, Owns
  <2>4. CASE d = c /\ i = Len(stack[c])
    <3>1. Own(d, i, l)' <=> Owns(g, l)
      BY <1>0, <1>c, <2>1, <2>4 DEF Own, Owns
    <3>2. QED
      BY <2>2, <2>4, <3>1 DEF Owns
  <2>5. CASE d = c /\ i # Len(stack[c])
    BY <1>0, <2>1, <2>5 DEF Own, Owns
  <2>6. QED
    BY <2>3, <2>4, <2>5
<1>1. CASE PreemptFetchDisable(c)
  <2>1. NewFrame("bracket", NoLock, intr[c], "held") \in Frame
    BY DEF MutexInv, Typed, TypeOK, Frame, NewFrame
  <2>2. QED
    BY <1>1, <1>a, <2>1, ConstantsAssumption DEF PreemptFetchDisable, NewFrame
<1>2. CASE PreemptRestore(c)
  BY <1>0, <1>2, <1>b, ConstantsAssumption DEF PreemptRestore, AtTop, FrameOK, Depth
<1>3. CASE Interrupt(c)
  <2>1. NewFrame("irq", NoLock, TRUE, "held") \in Frame
    BY DEF Frame, NewFrame
  <2>2. QED
    BY <1>3, <1>a, <2>1, ConstantsAssumption DEF Interrupt, NewFrame
<1>4. CASE Iret(c)
  BY <1>0, <1>4, <1>b, ConstantsAssumption DEF Iret, AtTop, FrameOK, Depth
<1>5. ASSUME NEW l \in Lock, SpinLockGlobal(c, l)
      PROVE  MutexInv'
  <2>1. NewFrame("global", l, intr[c], "spin") \in Frame
    BY DEF MutexInv, Typed, TypeOK, Frame, NewFrame
  <2>2. QED
    BY <1>5, <1>a, <2>1 DEF SpinLockGlobal, NewFrame
<1>6. CASE SpinLock(c)
  <2> DEFINE k == Top(c).lock
             n == Len(stack[c])
  <2>1. n \in Nat /\ n > 0 /\ k \in Lock /\ ~lock[k] /\ SetTop(c, "held")
    BY <1>0, <1>6 DEF SpinLock, AtTop, FrameOK, Depth
  <2>2. \A l \in Lock : \A d \in CPU : \A i \in Nat :
           Own(d, i, l)' <=> IF d = c /\ i = n THEN l = k ELSE Own(d, i, l)
    BY <1>c, <2>1
  <2>3. \A l \in Lock : lock'[l] = IF l = k THEN TRUE ELSE lock[l]
    BY <1>6 DEF SpinLock, MutexInv, Typed, TypeOK
  <2>4. \A l \in Lock : ~Own(c, n, l)
    BY <1>6 DEF SpinLock, AtTop, Own, Owns, Top, Depth
  <2> HIDE DEF k, n
  <2>5. \A d \in CPU : \A i \in Nat : ~Own(d, i, k)
    BY <2>1 DEF MutexInv, WordTrue
  <2>6. OneOwner'
    BY <2>1, <2>2, <2>5 DEF MutexInv, OneOwner
  <2>7. WordTrue'
    BY <2>1, <2>2, <2>3, <2>4 DEF MutexInv, WordTrue
  <2>8. QED
    BY <2>6, <2>7 DEF MutexInv
<1>7. CASE SpinUnlock(c)
  <2> DEFINE k == Top(c).lock
             n == Len(stack[c])
  <2>1. /\ n \in Nat /\ n > 0 /\ k \in Lock \cup Mutex /\ SetTop(c, "restore")
        /\ Top(c).st = "held"
    BY <1>0, <1>7 DEF SpinUnlock, AtTop, FrameOK, Depth
  <2>2. \A l \in Lock : \A d \in CPU : \A i \in Nat :
           Own(d, i, l)' <=> Own(d, i, l) /\ ~(d = c /\ i = n)
    BY <1>c, <2>1
  <2>3. \A l \in Lock : lock'[l] <=> l # k /\ lock[l]
    BY <1>7 DEF SpinUnlock, MutexInv, Typed, TypeOK
  <2>4. \A l \in Lock : Own(c, n, l) <=> l = k
    BY <2>1 DEF Own, Owns, Top, Depth
  <2> HIDE DEF k, n
  <2>5. OneOwner'
    BY <2>2 DEF MutexInv, OneOwner
  <2>6. WordTrue'
    <3> SUFFICES ASSUME NEW l \in Lock
                 PROVE  lock'[l] <=> \E d \in CPU : \E i \in Nat : Own(d, i, l)'
      BY DEF WordTrue
    <3>1. CASE l = k
      BY <2>1, <2>2, <2>3, <2>4, <3>1 DEF MutexInv, OneOwner
    <3>2. CASE l # k
      <4>1. \A d \in CPU : \A i \in Nat : Own(d, i, l)' <=> Own(d, i, l)
        BY <2>2, <2>4, <3>2
      <4>2. QED
        BY <2>3, <3>2, <4>1 DEF MutexInv, WordTrue
    <3>3. QED
      BY <3>1, <3>2
  <2>7. QED
    BY <2>5, <2>6 DEF MutexInv
<1>8. CASE SpinUnlockGlobal(c)
  BY <1>0, <1>8, <1>b DEF SpinUnlockGlobal, AtTop, Depth
<1>9. ASSUME NEW m \in Mutex, AcquireMutex(c, m)
      PROVE  MutexInv'
  <2>1. NewFrame("mutex", m, intr[c], "spin") \in Frame
    BY DEF MutexInv, Typed, TypeOK, Frame, NewFrame
  <2>2. QED
    BY <1>9, <1>a, <2>1 DEF AcquireMutex, NewFrame
<1>10. CASE SpinLockTimeoutTaken(c) \/ SpinLockTimeoutExpired(c)
  <2>1. /\ Len(stack[c]) \in Nat /\ Len(stack[c]) > 0 /\ SetTop(c, "held")
        /\ Top(c).lock \notin Lock
    BY <1>0, <1>10, ConstantsAssumption
    DEF SpinLockTimeoutTaken, SpinLockTimeoutExpired, AtTop, FrameOK, Depth
  <2>2. \A l \in Lock : lock'[l] = lock[l]
    BY <1>10, <2>1
    DEF SpinLockTimeoutTaken, SpinLockTimeoutExpired, MutexInv, Typed, TypeOK
  <2>3. \A l \in Lock : ~Own(c, Len(stack[c]), l)
    BY <2>1 DEF Own, Owns, Top, Depth
  <2>4. \A l \in Lock : \A d \in CPU : \A i \in Nat :
           Own(d, i, l)' <=> Own(d, i, l)
    BY <1>c, <2>1, <2>3
  <2>5. QED
    BY <2>2, <2>4, QuietKeeps
<1>11. QED
  BY <1>1, <1>2, <1>3, <1>4, <1>5, <1>6, <1>7, <1>8, <1>9, <1>10 DEF Step

(* Owners(l), the set MutualExclusion speaks of, lists the owning brackets.*)
LEMMA OwnersAreOwn ==
    ASSUME Typed, OneOwner, WordTrue
    PROVE  MutualExclusion
<1>1. ASSUME NEW l \in Lock, NEW c \in CPU, NEW i \in Nat
      PROVE  <<c, i>> \in Owners(l) <=> Own(c, i, l)
  <2>1. Len(stack[c]) \in Nat /\ Len(stack[c]) <= MaxDepth
    BY LenProperties DEF Typed, TypeOK, Depth
  <2>2. QED
    BY <2>1, ConstantsAssumption DEF Owners, Own, Depth
<1>2. \A l \in Lock : \A o \in Owners(l) :
         \E c \in CPU : \E i \in Nat : o = <<c, i>> /\ Own(c, i, l)
  <2> SUFFICES ASSUME NEW l \in Lock, NEW o \in Owners(l)
               PROVE  \E c \in CPU : \E i \in Nat : o = <<c, i>> /\ Own(c, i, l)
    OBVIOUS
  <2>1. PICK c \in CPU, i \in 1..MaxDepth : o = <<c, i>>
    BY DEF Owners
  <2>2. QED
    BY <1>1, <2>1
<1>3. ASSUME NEW l \in Lock
      PROVE  lock[l] <=> Owners(l) # {}
  BY <1>1, <1>2, <1>3 DEF WordTrue
<1>4. ASSUME NEW l \in Lock, NEW o \in Owners(l), NEW p \in Owners(l)
      PROVE  o = p
  BY <1>2, <1>4 DEF OneOwner
<1>5. QED
  BY <1>3, <1>4 DEF MutualExclusion

(* spin_lock and spin_unlock exclude each other's critical sections on any *)
(* number of processors, whatever interrupts arrive and whatever interrupt *)
(* flag spin_unlock_global restores.                                       *)
THEOREM MutualExclusionHolds == Spec => []MutualExclusion
<1>1. Init => MutexInv
  <2> SUFFICES ASSUME Init PROVE MutexInv
    OBVIOUS
  <2>1. \A c \in CPU : stack[c] = <<>> /\ Len(stack[c]) = 0
    BY DEF Init
  <2>2. Typed
    <3>1. <<>> \in Seq(Frame)
      OBVIOUS
    <3>2. QED
      BY <2>1, <3>1, ConstantsAssumption DEF Init, Typed, TypeOK, FramesOK, Depth
  <2>3. \A l \in Lock : \A c \in CPU : \A i \in Nat : ~Own(c, i, l)
    BY <2>1 DEF Own
  <2>4. QED
    BY <2>2, <2>3 DEF Init, MutexInv, OneOwner, WordTrue
<1>2. MutexInv /\ [Next]_vars => MutexInv'
  <2> SUFFICES ASSUME MutexInv, [Next]_vars PROVE MutexInv'
    OBVIOUS
  <2>1. Typed'
    BY TypedStep DEF MutexInv
  <2>2. CASE UNCHANGED vars
    BY <2>1, <2>2 DEF vars, MutexInv, OneOwner, WordTrue, Own
  <2>3. CASE Next
    BY <2>1, <2>3, OwnershipStep DEF Next
  <2>4. QED
    BY <2>2, <2>3
<1>3. MutexInv => MutualExclusion
  BY OwnersAreOwn DEF MutexInv
<1>4. QED
  BY <1>1, <1>2, <1>3, PTL DEF Spec


-----------------------------------------------------------------------------
(* The saved interrupt flag.                                               *)

Masks(c, i) == stack[c][i].kind # "mutex"

(* What each bracket remembers is whether the brackets around it leave     *)
(* interrupts enabled.                                                     *)
SavedFlags ==
    \A c \in CPU : \A i \in 1..Len(stack[c]) : Masks(c, i) =>
        (stack[c][i].old <=> \A j \in 1..(i - 1) : ~Masks(c, j))

(* The lock's copy of the flag is the owner's, while it waits and owns.    *)
OldStateRight ==
    /\ \A c \in CPU : \A i \in 1..Len(stack[c]) : stack[c][i].kind = "global" =>
          /\ old_state[stack[c][i].lock] = stack[c][i].old
          /\ <<stack[c][i].lock, stack[c][i].old>> \in CallSites
    /\ \A m \in Mutex : old_state[m] = FALSE

(* A processor is in no two global brackets of the same lock.              *)
LocksDistinct ==
    \A c \in CPU : \A i, j \in 1..Len(stack[c]) :
        stack[c][i].kind = "global" /\ stack[c][j].kind = "global" /\ i < j
            => stack[c][i].lock # stack[c][j].lock

(* An interrupt gate pushed an RFLAGS image with IF set.                   *)
IrqOld ==
    \A c \in CPU : \A i \in 1..Len(stack[c]) :
        stack[c][i].kind = "irq" => stack[c][i].old = TRUE

FlagRight ==
    \A c \in CPU : intr[c] <=> \A i \in 1..Len(stack[c]) : ~Masks(c, i)

IntrInv ==
    /\ Typed
    /\ FlagRight
    /\ SavedFlags
    /\ OldStateRight
    /\ LocksDistinct
    /\ IrqOld

(* Opening a bracket preserves IntrInv, provided a global bracket is       *)
(* opened by a caller whose context agrees with everyone who uses the lock.*)
LEMMA IntrPush ==
    ASSUME IntrInv, Typed', NEW c \in CPU, NEW f \in Frame, Push(c, f),
           f.kind # "mutex" => f.old = intr[c],
           f.kind = "irq" => f.old = TRUE,
           intr' = [intr EXCEPT ![c] = @ /\ f.kind = "mutex"],
           f.kind = "global" =>
               /\ f.lock \in Lock /\ <<f.lock, f.old>> \in CallSites
               /\ old_state' = [old_state EXCEPT ![f.lock] = f.old]
               /\ \A d \in CPU : \A i \in 1..Len(stack[d]) :
                     stack[d][i].kind = "global" /\ stack[d][i].lock = f.lock
                         => d # c /\ stack[d][i].old = f.old,
           f.kind # "global" => old_state' = old_state
    PROVE  IntrInv'
<1>0. /\ stack \in [CPU -> Seq(Frame)]
      /\ \A d \in CPU : Len(stack[d]) \in Nat
      /\ old_state \in [Lock \cup Mutex -> BOOLEAN] /\ intr \in [CPU -> BOOLEAN]
  BY LenProperties DEF IntrInv, Typed, TypeOK
<1>n. PICK n \in Nat : n = Len(stack[c])
  BY <1>0
<1>1. /\ Len(stack'[c]) = n + 1
      /\ stack'[c][n + 1] = f
      /\ \A i \in 1..n : stack'[c][i] = stack[c][i]
      /\ \A d \in CPU : d # c => stack'[d] = stack[d]
  BY <1>0, <1>n, PushEffect
<1>2. \A d \in CPU : \A i \in 1..Len(stack[d]) :
         stack'[d][i] = stack[d][i] /\ (Masks(d, i)' <=> Masks(d, i))
  BY <1>0, <1>n, <1>1 DEF Masks
<1>3. Masks(c, n + 1)' <=> f.kind # "mutex"
  BY <1>1 DEF Masks
<1>4. ASSUME NEW d \in CPU, NEW i \in 1..Len(stack'[d])
      PROVE  i \in 1..Len(stack[d]) \/ (d = c /\ i = n + 1 /\ stack'[d][i] = f)
  BY <1>0, <1>n, <1>1
<1>5. FlagRight'
  <2> SUFFICES ASSUME NEW d \in CPU
               PROVE  intr'[d] <=> \A i \in 1..Len(stack'[d]) : ~Masks(d, i)'
    BY DEF FlagRight
  <2>1. intr[d] <=> \A i \in 1..Len(stack[d]) : ~Masks(d, i)
    BY DEF IntrInv, FlagRight
  <2>2. CASE d # c
    BY <1>0, <1>1, <1>2, <2>1, <2>2
  <2>3. CASE d = c
    <3>1. intr'[c] <=> intr[c] /\ f.kind = "mutex"
      BY <1>0
    <3>2. 1..Len(stack'[c]) = 1..Len(stack[c]) \cup {n + 1}
      BY <1>0, <1>n, <1>1
    <3>3. QED
      BY <1>2, <1>3, <2>1, <2>3, <3>1, <3>2
  <2>4. QED
    BY <2>2, <2>3
<1>6. SavedFlags'
  <2> SUFFICES ASSUME NEW d \in CPU, NEW i \in 1..Len(stack'[d]), Masks(d, i)'
               PROVE  stack'[d][i].old <=> \A j \in 1..(i - 1) : ~Masks(d, j)'
    BY DEF SavedFlags
  <2>1. CASE i \in 1..Len(stack[d])
    <3>1. \A j \in 1..(i - 1) : Masks(d, j)' <=> Masks(d, j)
      BY <1>0, <1>2, <2>1
    <3>2. stack[d][i].old <=> \A j \in 1..(i - 1) : ~Masks(d, j)
      BY <1>2, <2>1 DEF IntrInv, SavedFlags
    <3>3. QED
      BY <1>2, <2>1, <3>1, <3>2
  <2>2. CASE d = c /\ i = n + 1 /\ stack'[d][i] = f
    <3>1. 1..(i - 1) = 1..Len(stack[c])
      BY <1>0, <1>n, <2>2
    <3>2. f.old = intr[c]
      BY <1>3, <2>2
    <3>3. intr[c] <=> \A j \in 1..Len(stack[c]) : ~Masks(c, j)
      BY DEF IntrInv, FlagRight
    <3>4. f.old <=> \A j \in 1..Len(stack[c]) : ~Masks(c, j)'
      BY <1>2, <3>2, <3>3
    <3>5. QED
      BY <2>2, <3>1, <3>4
  <2>3. QED
    BY <1>4, <2>1, <2>2
<1>7. OldStateRight'
  <2>1. ASSUME NEW d \in CPU, NEW i \in 1..Len(stack'[d]), stack'[d][i].kind = "global"
        PROVE  /\ old_state'[stack'[d][i].lock] = stack'[d][i].old
               /\ <<stack'[d][i].lock, stack'[d][i].old>> \in CallSites
    <3>1. CASE i \in 1..Len(stack[d])
      <4>1. /\ old_state[stack[d][i].lock] = stack[d][i].old
            /\ <<stack[d][i].lock, stack[d][i].old>> \in CallSites
            /\ stack[d][i].lock \in Lock
        BY <1>2, <2>1, <3>1, SMTT(30) DEF IntrInv, OldStateRight, Typed, FramesOK, FrameOK
      <4>2. stack'[d][i] = stack[d][i]
        BY <1>2, <3>1
      <4>3. old_state'[stack[d][i].lock] = stack[d][i].old
        <5>1. CASE f.kind # "global"
          BY <4>1, <5>1
        <5>2. CASE f.kind = "global" /\ f.lock = stack[d][i].lock
          BY <1>0, <2>1, <3>1, <4>1, <4>2, <5>2
        <5>3. CASE f.kind = "global" /\ f.lock # stack[d][i].lock
          BY <1>0, <4>1, <5>3
        <5>4. QED
          BY <5>1, <5>2, <5>3
      <4>4. QED
        BY <4>1, <4>2, <4>3
    <3>2. CASE d = c /\ i = n + 1 /\ stack'[d][i] = f
      BY <1>0, <2>1, <3>2
    <3>3. QED
      BY <1>4, <3>1, <3>2
  <2>2. \A m \in Mutex : old_state'[m] = FALSE
    BY <1>0, ConstantsAssumption DEF IntrInv, OldStateRight
  <2>3. QED
    BY <2>1, <2>2 DEF OldStateRight
<1>8. LocksDistinct'
  <2> SUFFICES ASSUME NEW d \in CPU, NEW i \in 1..Len(stack'[d]),
                      NEW j \in 1..Len(stack'[d]), i < j,
                      stack'[d][i].kind = "global", stack'[d][j].kind = "global"
               PROVE  stack'[d][i].lock # stack'[d][j].lock
    BY DEF LocksDistinct
  <2>1. i \in 1..Len(stack[d])
    BY <1>0, <1>n, <1>1, <1>4
  <2>2. CASE j \in 1..Len(stack[d])
    <3>1. stack'[d][i] = stack[d][i] /\ stack'[d][j] = stack[d][j]
      BY <1>2, <2>1, <2>2
    <3>2. QED
      BY <2>1, <2>2, <3>1 DEF IntrInv, LocksDistinct
  <2>3. CASE d = c /\ j = n + 1 /\ stack'[d][j] = f
    <3>1. stack'[d][i] = stack[d][i]
      BY <1>2, <2>1
    <3>2. QED
      BY <2>1, <2>3, <3>1
  <2>4. QED
    BY <1>4, <2>2, <2>3
<1>9. IrqOld'
  BY <1>2, <1>4 DEF IntrInv, IrqOld
<1>10. QED
  BY <1>5, <1>6, <1>7, <1>8, <1>9 DEF IntrInv

(* Closing the innermost bracket preserves IntrInv when the flag becomes   *)
(* what the remaining brackets call for.                                   *)
LEMMA IntrPop ==
    ASSUME IntrInv, Typed', NEW c \in CPU, Depth(c) > 0, Pop(c),
           NEW b \in BOOLEAN, intr' = [intr EXCEPT ![c] = b],
           b <=> \A j \in 1..(Len(stack[c]) - 1) : ~Masks(c, j),
           old_state' = old_state
    PROVE  IntrInv'
<1>0. /\ stack \in [CPU -> Seq(Frame)]
      /\ \A d \in CPU : Len(stack[d]) \in Nat
      /\ intr \in [CPU -> BOOLEAN]
  BY LenProperties DEF IntrInv, Typed, TypeOK
<1>1. /\ Len(stack'[c]) = Len(stack[c]) - 1
      /\ \A i \in 1..(Len(stack[c]) - 1) : stack'[c][i] = stack[c][i]
      /\ \A d \in CPU : d # c => stack'[d] = stack[d]
  BY <1>0, PopEffect
<1>2. \A d \in CPU : \A i \in 1..Len(stack'[d]) :
         i \in 1..Len(stack[d]) /\ stack'[d][i] = stack[d][i]
  BY <1>0, <1>1, SMTT(30)
<1>3. \A d \in CPU : \A i \in 1..Len(stack'[d]) : Masks(d, i)' <=> Masks(d, i)
  BY <1>2 DEF Masks
<1>4. FlagRight'
  <2> SUFFICES ASSUME NEW d \in CPU
               PROVE  intr'[d] <=> \A i \in 1..Len(stack'[d]) : ~Masks(d, i)'
    BY DEF FlagRight
  <2>1. CASE d # c
    BY <1>0, <1>1, <1>3, <2>1 DEF IntrInv, FlagRight
  <2>2. CASE d = c
    BY <1>0, <1>1, <1>3, <2>2
  <2>3. QED
    BY <2>1, <2>2
<1>5. SavedFlags'
  <2> SUFFICES ASSUME NEW d \in CPU, NEW i \in 1..Len(stack'[d]), Masks(d, i)'
               PROVE  stack'[d][i].old <=> \A j \in 1..(i - 1) : ~Masks(d, j)'
    BY DEF SavedFlags
  <2>0. Len(stack'[d]) \in Nat
    BY <1>0, <1>1 DEF Depth
  <2>1. \A j \in 1..(i - 1) : Masks(d, j)' <=> Masks(d, j)
    BY <1>3, <2>0
  <2>2. stack[d][i].old <=> \A j \in 1..(i - 1) : ~Masks(d, j)
    BY <1>2, <1>3 DEF IntrInv, SavedFlags
  <2>3. QED
    BY <1>2, <2>1, <2>2
<1>6. OldStateRight'
  BY <1>2 DEF IntrInv, OldStateRight
<1>7. LocksDistinct'
  BY <1>2 DEF IntrInv, LocksDistinct
<1>8. IrqOld'
  BY <1>2 DEF IntrInv, IrqOld
<1>9. QED
  BY <1>4, <1>5, <1>6, <1>7, <1>8 DEF IntrInv

(* Taking or releasing the word of the innermost bracket leaves IntrInv    *)
(* alone: it speaks of no bracket's status.                                *)
LEMMA IntrSetTop ==
    ASSUME IntrInv, Typed', NEW c \in CPU, Depth(c) > 0,
           NEW s \in {"spin", "held", "restore"}, SetTop(c, s),
           UNCHANGED <<intr, old_state>>
    PROVE  IntrInv'
<1>0. /\ stack \in [CPU -> Seq(Frame)]
      /\ \A d \in CPU : Len(stack[d]) \in Nat
      /\ \A d \in CPU : \A i \in 1..Len(stack[d]) : stack[d][i] \in Frame
  BY LenProperties, ElementOfSeq DEF IntrInv, Typed, TypeOK
<1>1. /\ Len(stack'[c]) = Len(stack[c])
      /\ stack'[c][Len(stack[c])] = [stack[c][Len(stack[c])] EXCEPT !.st = s]
      /\ \A i \in 1..(Len(stack[c]) - 1) : stack'[c][i] = stack[c][i]
      /\ \A d \in CPU : d # c => stack'[d] = stack[d]
  BY <1>0, SetTopEffect
<1>2. ASSUME NEW d \in CPU, NEW i \in 1..Len(stack[d])
      PROVE  /\ stack'[d][i].kind = stack[d][i].kind
             /\ stack'[d][i].lock = stack[d][i].lock
             /\ stack'[d][i].old = stack[d][i].old
  <2>1. CASE d = c /\ i = Len(stack[c])
    <3> DEFINE f == stack[c][Len(stack[c])]
    <3>1. f \in Frame /\ stack'[d][i] = [f EXCEPT !.st = s]
      BY <1>0, <1>1, <2>1
    <3>2. QED
      BY <2>1, <3>1 DEF Frame
  <2>2. CASE ~(d = c /\ i = Len(stack[c]))
    BY <1>0, <1>1, <2>2
  <2>3. QED
    BY <2>1, <2>2
<1>3. \A d \in CPU : Len(stack'[d]) = Len(stack[d])
  BY <1>1
<1>4. \A d \in CPU : \A i \in 1..Len(stack[d]) : Masks(d, i)' <=> Masks(d, i)
  BY <1>2 DEF Masks
<1>5. FlagRight'
  BY <1>3, <1>4 DEF IntrInv, FlagRight
<1>6. SavedFlags'
  <2> SUFFICES ASSUME NEW d \in CPU, NEW i \in 1..Len(stack[d]), Masks(d, i)
               PROVE  stack'[d][i].old <=> \A j \in 1..(i - 1) : ~Masks(d, j)'
    BY <1>3, <1>4 DEF SavedFlags
  <2>1. \A j \in 1..(i - 1) : Masks(d, j)' <=> Masks(d, j)
    BY <1>0, <1>4
  <2>2. QED
    BY <1>2, <2>1 DEF IntrInv, SavedFlags
<1>7. OldStateRight'
  BY <1>2, <1>3 DEF IntrInv, OldStateRight
<1>8. LocksDistinct'
  BY <1>2, <1>3 DEF IntrInv, LocksDistinct
<1>9. IrqOld'
  BY <1>2, <1>3 DEF IntrInv, IrqOld
<1>10. QED
  BY <1>5, <1>6, <1>7, <1>8, <1>9 DEF IntrInv

(* A caller of spin_lock_global under PreemptionSafe: whoever else is in a *)
(* bracket of the same lock is another processor, with the same flag.      *)
LEMMA SameContext ==
    ASSUME PreemptionSafe, IntrInv, NEW c \in CPU, NEW l \in Lock,
           SpinLockGlobal(c, l),
           NEW d \in CPU, NEW i \in 1..Len(stack[d]),
           stack[d][i].kind = "global", stack[d][i].lock = l
    PROVE  d # c /\ stack[d][i].old = intr[c]
<1>0. /\ \A e \in CPU : Len(stack[e]) \in Nat
      /\ \A e \in CPU : \A k \in 1..Len(stack[e]) : stack[e][k] \in Frame
      /\ intr \in [CPU -> BOOLEAN]
  BY LenProperties, ElementOfSeq DEF IntrInv, Typed, TypeOK
<1>1. d # c
  <2> SUFFICES ASSUME d = c PROVE FALSE
    OBVIOUS
  <2>1. i \notin Visible(c)
    BY ConstantsAssumption DEF SpinLockGlobal
  <2>2. PICK j \in i..Len(stack[c]) : stack[c][j].kind = "irq"
    BY <2>1 DEF Visible, Depth
  <2>3. i < j /\ j \in 1..Len(stack[c])
    BY <1>0, <2>2
  <2>4. Masks(c, i) /\ Masks(c, j)
    BY <2>2 DEF Masks
  <2>5. ~stack[c][j].old
    BY <1>0, <2>3, <2>4 DEF IntrInv, SavedFlags
  <2>6. QED
    BY <2>2, <2>3, <2>5 DEF IntrInv, IrqOld
<1>2. stack[d][i].old = intr[c]
  <2>1. <<l, stack[d][i].old>> \in CallSites /\ <<l, intr[c]>> \in CallSites
    BY DEF IntrInv, OldStateRight, SpinLockGlobal
  <2>2. stack[d][i].old \in BOOLEAN /\ intr[c] \in BOOLEAN
    BY <1>0 DEF Frame
  <2>3. QED
    BY <1>1, <2>1, <2>2 DEF PreemptionSafe
<1>3. QED
  BY <1>1, <1>2

(* Every step preserves IntrInv.                                           *)
LEMMA IntrStep ==
    ASSUME PreemptionSafe, IntrInv, Typed', NEW c \in CPU, Step(c)
    PROVE  IntrInv'
<1>0. /\ stack \in [CPU -> Seq(Frame)] /\ intr \in [CPU -> BOOLEAN]
      /\ old_state \in [Lock \cup Mutex -> BOOLEAN]
      /\ Len(stack[c]) \in Nat
      /\ Len(stack[c]) > 0 =>
            /\ Len(stack[c]) \in 1..Len(stack[c])
            /\ Top(c) \in Frame /\ FrameOK(Top(c)) /\ Top(c) = stack[c][Len(stack[c])]
  <2>1. /\ stack \in [CPU -> Seq(Frame)] /\ intr \in [CPU -> BOOLEAN]
        /\ old_state \in [Lock \cup Mutex -> BOOLEAN]
        /\ Len(stack[c]) \in Nat
        /\ \A i \in 1..Len(stack[c]) : stack[c][i] \in Frame
    BY LenProperties, ElementOfSeq DEF IntrInv, Typed, TypeOK
  <2>2. QED
    BY <2>1 DEF IntrInv, Typed, FramesOK, Top, Depth
<1>a. ASSUME Len(stack[c]) > 0, Top(c).kind # "mutex"
      PROVE  /\ intr[c] = FALSE
             /\ Top(c).old \in BOOLEAN
             /\ Top(c).old <=> \A j \in 1..(Len(stack[c]) - 1) : ~Masks(c, j)
  BY <1>0, <1>a, SMTT(30) DEF IntrInv, FlagRight, SavedFlags, Masks, Frame
<1>1. CASE PreemptFetchDisable(c)
  <2> DEFINE f == NewFrame("bracket", NoLock, intr[c], "held")
  <2>1. f \in Frame /\ f.kind = "bracket" /\ f.old = intr[c]
    BY <1>0 DEF Frame, NewFrame
  <2>2. Push(c, f) /\ old_state' = old_state
    BY <1>1 DEF PreemptFetchDisable
  <2>3. intr' = [intr EXCEPT ![c] = @ /\ f.kind = "mutex"]
    BY <1>1, <2>1 DEF PreemptFetchDisable
  <2> HIDE DEF f
  <2>4. QED
    BY <2>1, <2>2, <2>3, IntrPush
<1>2. CASE PreemptRestore(c)
  <2>1. Depth(c) > 0 /\ Top(c).kind # "mutex" /\ Pop(c) /\ old_state' = old_state
    BY <1>2 DEF PreemptRestore, AtTop
  <2>2. intr' = [intr EXCEPT ![c] = Top(c).old]
    BY <1>0, <1>2, <1>a, <2>1 DEF PreemptRestore, Restored, Depth
  <2>3. QED
    BY <1>a, <2>1, <2>2, IntrPop DEF Depth
<1>3. CASE Interrupt(c)
  <2> DEFINE f == NewFrame("irq", NoLock, TRUE, "held")
  <2>1. f \in Frame /\ f.kind = "irq" /\ f.old = intr[c] /\ f.old = TRUE
    BY <1>0, <1>3 DEF Frame, NewFrame, Interrupt
  <2>2. Push(c, f) /\ old_state' = old_state
    BY <1>3 DEF Interrupt
  <2>3. intr' = [intr EXCEPT ![c] = @ /\ f.kind = "mutex"]
    BY <1>3, <2>1 DEF Interrupt
  <2> HIDE DEF f
  <2>4. QED
    BY <2>1, <2>2, <2>3, IntrPush
<1>4. CASE Iret(c)
  <2>1. Depth(c) > 0 /\ Top(c).kind # "mutex" /\ Pop(c) /\ old_state' = old_state
    BY <1>4 DEF Iret, AtTop
  <2>2. intr' = [intr EXCEPT ![c] = Top(c).old]
    BY <1>4 DEF Iret
  <2>3. QED
    BY <1>a, <2>1, <2>2, IntrPop DEF Depth
<1>5. ASSUME NEW l \in Lock, SpinLockGlobal(c, l)
      PROVE  IntrInv'
  <2> DEFINE f == NewFrame("global", l, intr[c], "spin")
  <2>1. f \in Frame /\ f.kind = "global" /\ f.old = intr[c] /\ f.lock = l
    BY <1>0 DEF Frame, NewFrame
  <2>2. Push(c, f)
    BY <1>5 DEF SpinLockGlobal
  <2>3. intr' = [intr EXCEPT ![c] = @ /\ f.kind = "mutex"]
    BY <1>5, <2>1 DEF SpinLockGlobal
  <2>4. /\ <<f.lock, f.old>> \in CallSites
        /\ old_state' = [old_state EXCEPT ![f.lock] = f.old]
    BY <1>5, <2>1 DEF SpinLockGlobal
  <2>5. \A d \in CPU : \A i \in 1..Len(stack[d]) :
           stack[d][i].kind = "global" /\ stack[d][i].lock = f.lock
               => d # c /\ stack[d][i].old = f.old
    BY <1>5, <2>1, SameContext, SMTT(30)
  <2> HIDE DEF f
  <2>6. QED
    BY <2>1, <2>2, <2>3, <2>4, <2>5, IntrPush
<1>6. CASE SpinLock(c)
  BY <1>6, IntrSetTop DEF SpinLock, AtTop
<1>7. CASE SpinUnlock(c)
  BY <1>7, IntrSetTop DEF SpinUnlock, AtTop
<1>8. CASE SpinUnlockGlobal(c)
  <2>1. Depth(c) > 0 /\ Pop(c) /\ old_state' = old_state
    BY <1>8 DEF SpinUnlockGlobal, AtTop
  <2>2. CASE Top(c).kind = "global"
    <3>1. old_state[Top(c).lock] = Top(c).old
      BY <1>0, <2>1, <2>2 DEF IntrInv, OldStateRight, Depth
    <3>2. intr' = [intr EXCEPT ![c] = Top(c).old]
      BY <1>0, <1>8, <1>a, <2>1, <2>2, <3>1 DEF SpinUnlockGlobal, Restored, Depth
    <3>3. QED
      BY <1>a, <2>1, <2>2, <3>2, IntrPop DEF Depth
  <2>3. CASE Top(c).kind = "mutex"
    <3>1. old_state[Top(c).lock] = FALSE
      BY <1>0, <2>1, <2>3 DEF IntrInv, OldStateRight, FrameOK, Depth
    <3>2. intr' = [intr EXCEPT ![c] = intr[c]]
      BY <1>0, <1>8, <3>1 DEF SpinUnlockGlobal, Restored
    <3>3. intr[c] <=> \A j \in 1..(Len(stack[c]) - 1) : ~Masks(c, j)
      BY <1>0, <2>1, <2>3 DEF IntrInv, FlagRight, Masks, Depth
    <3>4. QED
      BY <1>0, <2>1, <3>2, <3>3, IntrPop
  <2>4. QED
    BY <1>8, <2>2, <2>3 DEF SpinUnlockGlobal, AtTop
<1>9. ASSUME NEW m \in Mutex, AcquireMutex(c, m)
      PROVE  IntrInv'
  <2> DEFINE f == NewFrame("mutex", m, intr[c], "spin")
  <2>1. f \in Frame /\ f.kind = "mutex"
    BY <1>0 DEF Frame, NewFrame
  <2>2. Push(c, f) /\ old_state' = old_state
    BY <1>9 DEF AcquireMutex
  <2>3. intr' = [intr EXCEPT ![c] = @ /\ f.kind = "mutex"]
    BY <1>0, <1>9, <2>1 DEF AcquireMutex
  <2> HIDE DEF f
  <2>4. QED
    BY <2>1, <2>2, <2>3, IntrPush
<1>10. CASE SpinLockTimeoutTaken(c)
  BY <1>10, IntrSetTop DEF SpinLockTimeoutTaken, AtTop
<1>11. CASE SpinLockTimeoutExpired(c)
  BY <1>11, IntrSetTop DEF SpinLockTimeoutExpired, AtTop
<1>12. QED
  BY <1>1, <1>2, <1>3, <1>4, <1>5, <1>6, <1>7, <1>8, <1>9, <1>10, <1>11 DEF Step

(* IntrInv holds throughout, given one processor or uniform contexts.      *)
LEMMA IntrAlways ==
    ASSUME PreemptionSafe
    PROVE  Spec => []IntrInv
<1>1. Init => IntrInv
  <2> SUFFICES ASSUME Init PROVE IntrInv
    OBVIOUS
  <2>1. \A c \in CPU : stack[c] = <<>> /\ Len(stack[c]) = 0
    BY DEF Init
  <2>2. Typed
    <3>1. <<>> \in Seq(Frame)
      OBVIOUS
    <3>2. QED
      BY <2>1, <3>1, ConstantsAssumption DEF Init, Typed, TypeOK, FramesOK, Depth
  <2>3. QED
    BY <2>1, <2>2
    DEF Init, IntrInv, FlagRight, SavedFlags, OldStateRight, LocksDistinct, IrqOld
<1>2. IntrInv /\ [Next]_vars => IntrInv'
  <2> SUFFICES ASSUME IntrInv, [Next]_vars PROVE IntrInv'
    OBVIOUS
  <2>1. Typed'
    BY TypedStep DEF IntrInv
  <2>2. CASE UNCHANGED vars
    BY <2>1, <2>2, SMTT(30)
    DEF vars, IntrInv, FlagRight, SavedFlags, OldStateRight, LocksDistinct, Masks, IrqOld
  <2>3. CASE Next
    BY <2>1, <2>3, IntrStep DEF Next
  <2>4. QED
    BY <2>2, <2>3
<1>3. QED
  BY <1>1, <1>2, PTL DEF Spec

(* spin_unlock_global and preempt_restore leave IF as their caller had it, *)
(* on one processor or when every lock is requested in one context only.   *)
THEOREM PreemptionRestoredHolds ==
    ASSUME PreemptionSafe
    PROVE  Spec => []PreemptionRestored
<1>1. IntrInv => PreemptionRestored
  BY DEF IntrInv, FlagRight, PreemptionRestored, Masks, Depth
<1>2. QED
  BY <1>1, IntrAlways, PTL

(* Under the same condition no interrupt handler spins on a lock of the    *)
(* code it interrupted, and no caller on a lock of its own.                *)
THEOREM NoSelfDeadlockHolds ==
    ASSUME PreemptionSafe
    PROVE  Spec => []NoSelfDeadlock
<1>1. IntrInv => NoSelfDeadlock
  <2> SUFFICES ASSUME IntrInv, NEW c \in CPU, AtTop(c, "global", "spin"),
                      NEW i \in 1..Len(stack[c]), Owns(stack[c][i], Top(c).lock)
               PROVE  FALSE
    BY DEF NoSelfDeadlock, Depth
  <2>1. Len(stack[c]) \in Nat /\ Len(stack[c]) > 0
    BY LenProperties DEF IntrInv, Typed, TypeOK, AtTop, Depth
  <2>2. i < Len(stack[c])
    BY <2>1 DEF AtTop, Owns, Top, Depth
  <2>3. stack[c][i].kind = "global"
    <3>1. Top(c).lock \in Lock /\ FrameOK(stack[c][i]) /\ stack[c][i] \in Frame
      BY <2>1, ElementOfSeq, SMTT(30)
      DEF IntrInv, Typed, TypeOK, FramesOK, FrameOK, AtTop, Top, Depth
    <3>2. QED
      BY <3>1, ConstantsAssumption DEF FrameOK, Owns, Frame
  <2>4. QED
    BY <2>1, <2>2, <2>3 DEF IntrInv, LocksDistinct, AtTop, Owns, Top, Depth
<1>2. QED
  BY <1>1, IntrAlways, PTL

=============================================================================
