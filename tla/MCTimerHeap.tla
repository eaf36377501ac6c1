---------------------------- MODULE MCTimerHeap -----------------------------
(* Small instances of the timer heap.  The behaviours end when MaxTick is  *)
(* reached, so deadlock is not checked.                                    *)
EXTENDS TimerHeap, TLC

TimerSymmetry == Permutations(Timer)
=============================================================================
