---------------------------- MODULE MCScheduler ----------------------------
(* Small instances of the scheduler: three workers at most, the reaper     *)
(* above them, one idle thread per processor, three of the five levels.    *)
EXTENDS Scheduler

CONSTANTS w1, w2, w3, reaper, kernel, idle1, idle2, c1, c2

MCQueue == -2..(NPrio - 1)
MCTask == Worker \cup {reaper, kernel} \cup {IdleOf[c] : c \in CPU}
IdleUp == [c \in {c1} |-> idle1]
IdleSmp == [c \in {c1, c2} |-> IF c = c1 THEN idle1 ELSE idle2]
(* All workers at TASK_PRIORITY_NORMAL, as in kmain.c.                     *)
PrioNormal == [t \in Worker \cup {reaper} |-> IF t = reaper THEN 0 ELSE 1]
=============================================================================
