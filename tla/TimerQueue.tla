----------------------------- MODULE TimerQueue -----------------------------
(***************************************************************************)
(* What the system timers promise (kernel/src/misc/time.c): a timer's      *)
(* event is launched by the first tick at or after its expiration time,    *)
(* the earlier timer first.                                                *)
(***************************************************************************)
EXTENDS Naturals

CONSTANTS Timer, Delay

VARIABLES
    now,          \* system_ticks
    exp,          \* expiration_time of every timer
    pending       \* timers registered and not launched

vars == <<now, exp, pending>>

Init == now = 0 /\ exp = [t \in Timer |-> 0] /\ pending = {}

Due(t) == t \in pending /\ exp[t] <= now

Register(t, ms) ==
    /\ t \notin pending
    /\ exp' = [exp EXCEPT ![t] = now + ms]
    /\ pending' = pending \cup {t}
    /\ UNCHANGED now

Tick ==
    /\ \A t \in Timer : ~Due(t)
    /\ now' = now + 1
    /\ UNCHANGED <<exp, pending>>

Launch(t) ==
    /\ Due(t) /\ \A u \in pending : exp[t] <= exp[u]
    /\ pending' = pending \ {t}
    /\ UNCHANGED <<now, exp>>

Next == Tick \/ \E t \in Timer : Launch(t) \/ \E ms \in Delay : Register(t, ms)

Spec == Init /\ [][Next]_vars
=============================================================================
