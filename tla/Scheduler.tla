----------------------------- MODULE Scheduler -----------------------------
(***************************************************************************)
(* The priority round-robin scheduler (kernel/src/proc/scheduler.c) with   *)
(* the kernel events that put its threads to sleep and wake them           *)
(* (kernel/src/misc/kevent.c) and the timers behind scheduler_sleep_for    *)
(* (kernel/src/misc/time.c, whose heap is here just the set of armed       *)
(* timers).                                                                *)
(*                                                                         *)
(* A thread's code is at at[t]; while no processor runs t this is also its *)
(* saved context.  A processor runs the code of the thread whose stack it  *)
(* is on (pc = "run"), or scheduler, event or interrupt code on top of it. *)
(* One step is one critical section or one access to shared state; where   *)
(* IntrOn holds an interrupt may come in between.                          *)
(***************************************************************************)
EXTENDS RunQueue, Sequences, FiniteSets

CONSTANTS
    CPU,
    Bsp,          \* the processor that the timer interrupt is routed to
    Worker,       \* threads of kmain.c: work, sleep, create threads, exit
    Reaper,       \* the kernel_reaper thread
    KernelTask,   \* kernel_task: never runs, stays in the sleep queue
    IdleOf,       \* idle_thread of every processor
    NPrio,        \* TASK_PRIORITY_MAX_PRIORITIES
    PrioOf,       \* the priority threads are created with
    Main,         \* the worker that kernel_entry creates (kernel_main)
    Ops,          \* what workers do: a subset of {"sleep", "exit", "spawn"}
    EagerTimers   \* may a timer expire before its thread has subscribed?

(* prio_queue[i] is queue i.                                               *)
sleep_queue == -1
reap_queue == -2
Prio == 0..(NPrio - 1)

ASSUME SchedulerAssumption ==
    /\ Queue = -2..(NPrio - 1) /\ Bsp \in CPU /\ Main \in Worker
    /\ Task = Worker \cup {Reaper, KernelTask} \cup {IdleOf[c] : c \in CPU}
    /\ PrioOf \in [Worker \cup {Reaper} -> Prio] /\ NULL \notin Task \cup CPU

(* A thread polls one event: the reaper reap_event, a worker the event of  *)
(* the timer on its stack.  The event has the thread's name.               *)
Poller == Worker \cup {Reaper}

VARIABLES
    rq,           \* the links of all queues
    state, prio,  \* of every task; state "NONE": not created, or cleaned up
    at,           \* where every task's code is
    arg,          \* the task a thread is creating, or cleaning up
    cpu,          \* pc, curr (curr_thread), stk, and locals of every processor
    subs,         \* subscribers of every event, newest first
    unprocessed,  \* launches of every event that nobody has processed
    evlock,       \* the holder of every event's lock
    armed,        \* timers in the heap
    expired       \* those of them whose time has come

vars == <<rq, state, prio, at, arg, cpu, subs, unprocessed, evlock, armed, expired>>

-----------------------------------------------------------------------------
Position == {"new", "start", "work", "poll", "sub", "sleep", "sleepq", "yield",
             "woken", "unsub", "reap", "clean", "init", "wake", "ready", "insert", "idle"}

(* Interrupts are off in a new thread, and inside kevents_poll.  This is   *)
(* what the brackets of the code say; on one processor they keep it, see   *)
(* PreemptionRestored of Spinlock.  On several a waiter for a lock may     *)
(* overwrite the flag its owner saved (locking.c:63), and interrupts come  *)
(* back early; there this is only one of the schedules, enough to exhibit  *)
(* a violation but not to exclude one.                                     *)
IntrOn(c) ==
    /\ cpu[c].pc = "run"
    /\ at[cpu[c].stk] \in {"work", "poll", "reap", "clean", "init", "wake", "ready",
                           "insert", "idle"}

Runs(c, t) == cpu[c].pc = "run" /\ cpu[c].stk = t

Go(c, pc) == cpu' = [cpu EXCEPT ![c].pc = pc]

Goto(t, l) == at' = [at EXCEPT ![t] = l]

(* switch_to_next_task looks at the queues from the highest priority down. *)
GoFind(c) == cpu' = [cpu EXCEPT ![c].pc = "find", ![c].i = 0]

SetState(t, s) == state' = [state EXCEPT ![t] = s]

NotLinked(t) == rq.next[t] = NULL /\ rq.prev[t] = NULL

(* init_scheduling and kernel_entry have created the reaper and the main   *)
(* thread; the bsp calls switch_to_next_task, the others run their idle    *)
(* threads.                                                                *)
BootQueues ==
    LET q0 == runqueue_insert_front(NoLinks, sleep_queue, KernelTask)
        q1 == runqueue_insert_front(q0, PrioOf[Reaper], Reaper)
    IN  runqueue_insert_front(q1, PrioOf[Main], Main)

Idle == {IdleOf[c] : c \in CPU}

Init ==
    /\ rq = BootQueues
    /\ state = [t \in Task |->
          IF t = KernelTask THEN "UNINITIALIZED"
          ELSE IF \E c \in CPU \ {Bsp} : t = IdleOf[c] THEN "RUNNING"
          ELSE IF t \in Idle \cup {Main, Reaper} THEN "READY" ELSE "NONE"]
    /\ prio = [t \in Task |-> IF t \in {Main, Reaper} THEN PrioOf[t] ELSE NPrio - 1]
    /\ at = [t \in Task |-> IF t \in Idle THEN "idle"
                            ELSE IF t \in {Main, Reaper} THEN "start" ELSE "new"]
    /\ arg = [t \in Task |-> NULL]
    /\ cpu = [c \in CPU |-> [pc |-> IF c = Bsp THEN "find" ELSE "run",
                             curr |-> IF c = Bsp THEN NULL ELSE IdleOf[c],
                             stk |-> IF c = Bsp THEN NULL ELSE IdleOf[c],
                             i |-> 0, ev |-> NULL, todo |-> <<>>]]
    /\ subs = [e \in Poller |-> <<>>]
    /\ unprocessed = [e \in Poller |-> 0]
    /\ evlock = [e \in Poller |-> NULL]
    /\ armed = {} /\ expired = {}

-----------------------------------------------------------------------------
(* Scheduling.                                                             *)

(* scheduler_preempt, on the timer interrupt of this processor.  An idle   *)
(* thread's context is not saved.                                          *)
Preempt(c) ==
    /\ IntrOn(c)
    /\ LET t == cpu[c].stk IN
          /\ SetState(t, "READY")
          /\ cpu' = [cpu EXCEPT ![c].curr = NULL, ![c].i = 0,
                                ![c].pc = IF t = IdleOf[c] THEN "find" ELSE "enq"]
    /\ UNCHANGED <<rq, prio, at, arg, subs, unprocessed, evlock, armed, expired>>

(* scheduler_preempt, after save_task_context.                             *)
PreemptEnqueue(c) ==
    /\ cpu[c].pc = "enq"
    /\ LET t == cpu[c].stk IN rq' = runqueue_insert_back(rq, prio[t], t)
    /\ GoFind(c)
    /\ UNCHANGED <<state, prio, at, arg, subs, unprocessed, evlock, armed, expired>>

(* find_task_to_run: this queue is empty.                                  *)
FindEmpty(c) ==
    /\ cpu[c].pc = "find" /\ cpu[c].i < NPrio /\ rq.head[cpu[c].i] = NULL
    /\ cpu' = [cpu EXCEPT ![c].i = @ + 1]
    /\ UNCHANGED <<rq, state, prio, at, arg, subs, unprocessed, evlock, armed, expired>>

(* switch2task: the processor leaves the stack it was on.                  *)
switch2task(c, t) ==
    /\ state[t] = "READY"
    /\ SetState(t, "RUNNING")
    /\ cpu' = [cpu EXCEPT ![c].pc = "run", ![c].curr = t, ![c].stk = t, ![c].i = 0]

(* Mutant: the queues are searched from the lowest priority up.            *)
FindTask_LowestFirst(c) ==
    /\ cpu[c].pc = "find"
    /\ \E i \in Prio :
          /\ rq.head[i] # NULL /\ \A j \in Prio : j > i => rq.head[j] = NULL
          /\ rq' = runqueue_pop_front(rq, i)
          /\ switch2task(c, rq.head[i])
    /\ UNCHANGED <<prio, at, arg, subs, unprocessed, evlock, armed, expired>>

(* find_task_to_run and switch_to_next_task: take the first task, which    *)
(* must be READY (kpanic; QueuesMatchStates: those in a queue are) ...     *)
FindTask(c) ==
    /\ cpu[c].pc = "find" /\ cpu[c].i < NPrio /\ rq.head[cpu[c].i] # NULL
    /\ rq' = runqueue_pop_front(rq, cpu[c].i)
    /\ switch2task(c, rq.head[cpu[c].i])
    /\ UNCHANGED <<prio, at, arg, subs, unprocessed, evlock, armed, expired>>

(* ... or the idle thread when there is none.                              *)
FindIdle(c) ==
    /\ cpu[c].pc = "find" /\ cpu[c].i = NPrio
    /\ switch2task(c, IdleOf[c])
    /\ UNCHANGED <<rq, prio, at, arg, subs, unprocessed, evlock, armed, expired>>

(* A new thread enables interrupts.                                        *)
Start(c, t) ==
    /\ Runs(c, t) /\ at[t] = "start"
    /\ Goto(t, IF t = Reaper THEN "poll" ELSE "work")
    /\ UNCHANGED <<rq, state, prio, arg, cpu, subs, unprocessed, evlock, armed, expired>>

-----------------------------------------------------------------------------
(* scheduler_sleep_for and kevents_poll.                                   *)

(* register_system_timer, with interrupts off: a fresh event, and the      *)
(* timer goes into the heap.                                               *)
RegisterTimer(c, t) ==
    /\ "sleep" \in Ops /\ t \in Worker
    /\ Runs(c, t) /\ at[t] = "work"
    /\ armed' = armed \cup {t}
    /\ subs' = [subs EXCEPT ![t] = <<>>]
    /\ unprocessed' = [unprocessed EXCEPT ![t] = 0]
    /\ evlock' = [evlock EXCEPT ![t] = NULL]
    /\ Goto(t, "poll")
    /\ UNCHANGED <<rq, state, prio, arg, cpu, expired>>

(* Where a poll that found its event returns to.                           *)
Polled(t) == IF t = Reaper THEN "reap" ELSE "work"

(* kevents_poll disables interrupts and calls _find_unprocessed.           *)
PollFind(c, t) ==
    /\ Runs(c, t) /\ at[t] = "poll" /\ evlock[t] = NULL
    /\ IF unprocessed[t] > 0
       THEN unprocessed' = [unprocessed EXCEPT ![t] = @ - 1] /\ Goto(t, Polled(t))
       ELSE Goto(t, "sub") /\ UNCHANGED unprocessed
    /\ UNCHANGED <<rq, state, prio, arg, cpu, subs, evlock, armed, expired>>

kevent_subscribe(c, t) ==
    /\ Runs(c, t) /\ at[t] = "sub" /\ evlock[t] = NULL
    /\ subs' = [subs EXCEPT ![t] = <<t>> \o @]
    /\ Goto(t, "sleep")
    /\ UNCHANGED <<rq, state, prio, arg, cpu, unprocessed, evlock, armed, expired>>

(* scheduler_put_task2sleep of the current task: the state, ...            *)
PutToSleep(c, t) ==
    /\ Runs(c, t) /\ at[t] = "sleep"
    /\ SetState(t, "SLEEPING")
    /\ Goto(t, "sleepq")
    /\ UNCHANGED <<rq, prio, arg, cpu, subs, unprocessed, evlock, armed, expired>>

(* ... then the queue.                                                     *)
PutToSleepQueue(c, t) ==
    /\ Runs(c, t) /\ at[t] = "sleepq"
    /\ rq' = runqueue_insert_back(rq, sleep_queue, t)
    /\ Goto(t, "yield")
    /\ UNCHANGED <<state, prio, arg, cpu, subs, unprocessed, evlock, armed, expired>>

(* scheduler_yield: the context is saved behind the call; a thread that is *)
(* no longer asleep is queued again (kpanic if it is queued already, see   *)
(* YieldNotEnqueued).                                                      *)
scheduler_yield(c, t) ==
    /\ Runs(c, t) /\ at[t] = "yield"
    /\ state[t] # "SLEEPING" => NotLinked(t)
    /\ rq' = IF state[t] = "SLEEPING" THEN rq ELSE runqueue_insert_back(rq, prio[t], t)
    /\ Goto(t, "woken")
    /\ GoFind(c)
    /\ UNCHANGED <<state, prio, arg, subs, unprocessed, evlock, armed, expired>>

(* Mutant: the event stays unprocessed.                                    *)
PollWoken_KeepCount(c, t) ==
    /\ Runs(c, t) /\ at[t] = "woken" /\ evlock[t] = NULL
    /\ Goto(t, "unsub")
    /\ UNCHANGED <<rq, state, prio, arg, cpu, subs, unprocessed, evlock, armed, expired>>

(* kevents_poll after the wake-up: _find_unprocessed must find the event   *)
(* (kpanic in the callers otherwise, see WokenByEvent).                    *)
PollWoken(c, t) ==
    /\ Runs(c, t) /\ at[t] = "woken" /\ evlock[t] = NULL
    /\ unprocessed[t] > 0
    /\ unprocessed' = [unprocessed EXCEPT ![t] = @ - 1]
    /\ Goto(t, "unsub")
    /\ UNCHANGED <<rq, state, prio, arg, cpu, subs, evlock, armed, expired>>

kevent_unsubscribe(c, t) ==
    /\ Runs(c, t) /\ at[t] = "unsub" /\ evlock[t] = NULL
    /\ subs' = [subs EXCEPT ![t] = SelectSeq(@, LAMBDA u : u # t)]
    /\ Goto(t, Polled(t))
    /\ UNCHANGED <<rq, state, prio, arg, cpu, unprocessed, evlock, armed, expired>>

-----------------------------------------------------------------------------
(* kevent_launch, from the timer interrupt or from an exiting thread.      *)

(* Time passes: the timer's expiration_time is reached.                    *)
Expire(e) ==
    /\ e \in armed \ expired
    /\ EagerTimers \/ subs[e] # <<>>
    /\ expired' = expired \cup {e}
    /\ UNCHANGED <<rq, state, prio, at, arg, cpu, subs, unprocessed, evlock, armed>>

(* rtc_handler on the bsp.  (A tick with no expired timer changes nothing  *)
(* but the time.)                                                          *)
Tick(c) ==
    /\ c = Bsp /\ IntrOn(c) /\ expired # {}
    /\ Go(c, "tick")
    /\ UNCHANGED <<rq, state, prio, at, arg, subs, unprocessed, evlock, armed, expired>>

(* system_timer_handler: pop the next expired timer, ...                   *)
TickPop(c) ==
    /\ cpu[c].pc = "tick"
    /\ \E e \in expired :
          /\ armed' = armed \ {e} /\ expired' = expired \ {e}
          /\ cpu' = [cpu EXCEPT ![c].pc = "launch", ![c].ev = e]
    /\ UNCHANGED <<rq, state, prio, at, arg, subs, unprocessed, evlock>>

(* ... and return from the interrupt when there is none.                   *)
TickEnd(c) ==
    /\ cpu[c].pc = "tick" /\ expired = {}
    /\ Go(c, "run")
    /\ UNCHANGED <<rq, state, prio, at, arg, subs, unprocessed, evlock, armed, expired>>

(* kevent_launch: without a subscriber it panics (see LaunchHasSubscriber). *)
LaunchCheck(c) ==
    /\ cpu[c].pc = "launch" /\ subs[cpu[c].ev] # <<>>
    /\ Go(c, "count")
    /\ UNCHANGED <<rq, state, prio, at, arg, subs, unprocessed, evlock, armed, expired>>

(* Mutant: the launch is not counted.                                      *)
LaunchCount_Lost(c) ==
    /\ cpu[c].pc = "count" /\ evlock[cpu[c].ev] = NULL
    /\ evlock' = [evlock EXCEPT ![cpu[c].ev] = c]
    /\ cpu' = [cpu EXCEPT ![c].pc = "loop", ![c].todo = subs[cpu[c].ev]]
    /\ UNCHANGED <<rq, state, prio, at, arg, subs, unprocessed, armed, expired>>

(* kevent_launch takes the event's lock and counts the launch.             *)
LaunchCount(c) ==
    /\ cpu[c].pc = "count" /\ evlock[cpu[c].ev] = NULL
    /\ evlock' = [evlock EXCEPT ![cpu[c].ev] = c]
    /\ unprocessed' = [unprocessed EXCEPT ![cpu[c].ev] = @ + 1]
    /\ cpu' = [cpu EXCEPT ![c].pc = "loop", ![c].todo = subs[cpu[c].ev]]
    /\ UNCHANGED <<rq, state, prio, at, arg, subs, armed, expired>>

(* Mutant: the first subscriber is skipped.                                *)
LaunchNext_SkipFirst(c) ==
    /\ cpu[c].pc = "loop" /\ cpu[c].todo # <<>>
    /\ cpu' = [cpu EXCEPT ![c].todo = Tail(@)]
    /\ UNCHANGED <<rq, state, prio, at, arg, subs, unprocessed, evlock, armed, expired>>

(* scheduler_attempt_wake of the next subscriber: is it asleep?            *)
LaunchNext(c) ==
    /\ cpu[c].pc = "loop" /\ cpu[c].todo # <<>>
    /\ cpu' = IF state[Head(cpu[c].todo)] = "SLEEPING"
              THEN [cpu EXCEPT ![c].pc = "wake"]
              ELSE [cpu EXCEPT ![c].todo = Tail(@)]
    /\ UNCHANGED <<rq, state, prio, at, arg, subs, unprocessed, evlock, armed, expired>>

(* The three steps of scheduler_attempt_wake(u).                           *)
WakeRemove(u) == rq' = runqueue_remove(rq, sleep_queue, u)

WakeReady(u) == SetState(u, "READY")

WakeInsert(u) == rq' = runqueue_insert_front(rq, prio[u], u)

LaunchRemove(c) ==
    /\ cpu[c].pc = "wake"
    /\ WakeRemove(Head(cpu[c].todo))
    /\ Go(c, "ready")
    /\ UNCHANGED <<state, prio, at, arg, subs, unprocessed, evlock, armed, expired>>

LaunchReady(c) ==
    /\ cpu[c].pc = "ready"
    /\ WakeReady(Head(cpu[c].todo))
    /\ Go(c, "insert")
    /\ UNCHANGED <<rq, prio, at, arg, subs, unprocessed, evlock, armed, expired>>

LaunchInsert(c) ==
    /\ cpu[c].pc = "insert"
    /\ WakeInsert(Head(cpu[c].todo))
    /\ cpu' = [cpu EXCEPT ![c].pc = "loop", ![c].todo = Tail(@)]
    /\ UNCHANGED <<state, prio, at, arg, subs, unprocessed, evlock, armed, expired>>

(* kevent_launch unlocks and returns: to system_timer_handler, or, for     *)
(* reap_event, to scheduler_kernel_thread_exit.                            *)
LaunchDone(c) ==
    /\ cpu[c].pc = "loop" /\ cpu[c].todo = <<>>
    /\ evlock' = [evlock EXCEPT ![cpu[c].ev] = NULL]
    /\ cpu' = [cpu EXCEPT ![c].pc = IF cpu[c].ev = Reaper THEN "find" ELSE "tick",
                          ![c].i = 0, ![c].ev = NULL]
    /\ UNCHANGED <<rq, state, prio, at, arg, subs, unprocessed, armed, expired>>

-----------------------------------------------------------------------------
(* Threads end: scheduler_kernel_thread_exit and the reaper.               *)

(* Mutant: the exiting thread is not marked.                               *)
Exit_StaysRunning(c, t) ==
    /\ "exit" \in Ops /\ t \in Worker
    /\ Runs(c, t) /\ at[t] = "work"
    /\ Go(c, "exit")
    /\ UNCHANGED <<rq, state, prio, at, arg, subs, unprocessed, evlock, armed, expired>>

Exit(c, t) ==
    /\ "exit" \in Ops /\ t \in Worker
    /\ Runs(c, t) /\ at[t] = "work"
    /\ SetState(t, "KILLED")
    /\ Go(c, "exit")
    /\ UNCHANGED <<rq, prio, at, arg, subs, unprocessed, evlock, armed, expired>>

(* Mutant: reap_event is not launched.                                     *)
ExitEnqueue_NoLaunch(c) ==
    /\ cpu[c].pc = "exit"
    /\ rq' = runqueue_insert_back(rq, reap_queue, cpu[c].stk)
    /\ GoFind(c)
    /\ UNCHANGED <<state, prio, at, arg, subs, unprocessed, evlock, armed, expired>>

ExitEnqueue(c) ==
    /\ cpu[c].pc = "exit"
    /\ rq' = runqueue_insert_back(rq, reap_queue, cpu[c].stk)
    /\ cpu' = [cpu EXCEPT ![c].pc = "launch", ![c].ev = Reaper]
    /\ UNCHANGED <<state, prio, at, arg, subs, unprocessed, evlock, armed, expired>>

(* kernel_reaper: the queue is not empty (see ReapAccounted).              *)
ReaperPop(c, t) ==
    /\ Runs(c, t) /\ at[t] = "reap" /\ rq.head[reap_queue] # NULL
    /\ arg' = [arg EXCEPT ![t] = rq.head[reap_queue]]
    /\ rq' = runqueue_pop_front(rq, reap_queue)
    /\ Goto(t, "clean")
    /\ UNCHANGED <<state, prio, cpu, subs, unprocessed, evlock, armed, expired>>

(* scheduler_cleanup_task frees the dead thread's stacks (kpanic if it is  *)
(* not dead or still linked, see CleanupSafe).                             *)
scheduler_cleanup_task(c, t) ==
    /\ Runs(c, t) /\ at[t] = "clean"
    /\ state[arg[t]] = "KILLED" /\ NotLinked(arg[t])
    /\ SetState(arg[t], "NONE")
    /\ at' = [at EXCEPT ![t] = "poll", ![arg[t]] = "new"]
    /\ arg' = [arg EXCEPT ![t] = NULL]
    /\ UNCHANGED <<rq, prio, cpu, subs, unprocessed, evlock, armed, expired>>

-----------------------------------------------------------------------------
(* scheduler_new_kernel_thread.                                            *)

scheduler_spawn_task(c, t, u) ==
    /\ "spawn" \in Ops /\ t \in Worker /\ u \in Worker
    /\ Runs(c, t) /\ at[t] = "work" /\ state[u] = "NONE"
    /\ SetState(u, "UNINITIALIZED")
    /\ prio' = [prio EXCEPT ![u] = NPrio - 1]
    /\ rq' = runqueue_insert_front(rq, sleep_queue, u)
    /\ arg' = [arg EXCEPT ![t] = u]
    /\ Goto(t, "init")
    /\ UNCHANGED <<cpu, subs, unprocessed, evlock, armed, expired>>

(* The rest of its second critical section: entry point, priority, state.  *)
SpawnInit(c, t) ==
    /\ Runs(c, t) /\ at[t] = "init"
    /\ prio' = [prio EXCEPT ![arg[t]] = PrioOf[arg[t]]]
    /\ SetState(arg[t], "SLEEPING")
    /\ at' = [at EXCEPT ![t] = "wake", ![arg[t]] = "start"]
    /\ UNCHANGED <<rq, arg, cpu, subs, unprocessed, evlock, armed, expired>>

(* Its scheduler_attempt_wake: nobody else knows the new task yet.         *)
SpawnRemove(c, t) ==
    /\ Runs(c, t) /\ at[t] = "wake" /\ state[arg[t]] = "SLEEPING"
    /\ WakeRemove(arg[t])
    /\ Goto(t, "ready")
    /\ UNCHANGED <<state, prio, arg, cpu, subs, unprocessed, evlock, armed, expired>>

SpawnReady(c, t) ==
    /\ Runs(c, t) /\ at[t] = "ready"
    /\ WakeReady(arg[t])
    /\ Goto(t, "insert")
    /\ UNCHANGED <<rq, prio, arg, cpu, subs, unprocessed, evlock, armed, expired>>

SpawnInsert(c, t) ==
    /\ Runs(c, t) /\ at[t] = "insert"
    /\ WakeInsert(arg[t])
    /\ Goto(t, "work")
    /\ arg' = [arg EXCEPT ![t] = NULL]
    /\ UNCHANGED <<state, prio, cpu, subs, unprocessed, evlock, armed, expired>>

-----------------------------------------------------------------------------
(* Scheduler and event code of processor c.                                *)
Kernel(c) ==
    \/ PreemptEnqueue(c) \/ FindEmpty(c) \/ FindTask(c) \/ FindIdle(c)
    \/ TickPop(c) \/ TickEnd(c)
    \/ LaunchCheck(c) \/ LaunchCount(c) \/ LaunchNext(c)
    \/ LaunchRemove(c) \/ LaunchReady(c) \/ LaunchInsert(c) \/ LaunchDone(c)
    \/ ExitEnqueue(c)

(* Code of thread t that runs to its end once started ...                  *)
Code(c, t) ==
    \/ Start(c, t)
    \/ PollFind(c, t) \/ kevent_subscribe(c, t) \/ PutToSleep(c, t)
    \/ PutToSleepQueue(c, t) \/ scheduler_yield(c, t)
    \/ PollWoken(c, t) \/ kevent_unsubscribe(c, t)
    \/ ReaperPop(c, t) \/ scheduler_cleanup_task(c, t)
    \/ SpawnInit(c, t) \/ SpawnRemove(c, t) \/ SpawnReady(c, t) \/ SpawnInsert(c, t)

(* ... and the calls it makes when it likes.                               *)
Call(c, t) ==
    \/ RegisterTimer(c, t) \/ Exit(c, t)
    \/ \E u \in Worker : scheduler_spawn_task(c, t, u)

Next ==
    \/ \E c \in CPU : Kernel(c) \/ Preempt(c) \/ Tick(c)
    \/ \E c \in CPU, t \in Poller : Code(c, t) \/ Call(c, t)
    \/ \E e \in Worker : Expire(e)

Spec == Init /\ [][Next]_vars

(* A processor does not stop inside the kernel; a thread that is given the *)
(* processor again and again gets somewhere in its 20 ms; a thread that    *)
(* stays on its processor is preempted (the slice starts anew with every   *)
(* switch2task); pending ticks are taken when the flag is on; time passes. *)
FairSpec ==
    /\ Spec
    /\ \A c \in CPU : WF_vars(Kernel(c)) /\ SF_vars(Tick(c)) /\ WF_vars(Preempt(c))
    /\ \A t \in Poller : SF_vars(\E c \in CPU : Code(c, t))
    /\ \A e \in Worker : WF_vars(Expire(e))

-----------------------------------------------------------------------------
TypeOK ==
    /\ rq \in Links
    /\ state \in [Task -> {"NONE", "UNINITIALIZED", "RUNNING", "READY", "SLEEPING", "KILLED"}]
    /\ prio \in [Task -> Prio]
    /\ at \in [Task -> Position]
    /\ arg \in [Task -> Task \cup {NULL}]
    /\ \A c \in CPU : /\ cpu[c].pc \in {"run", "enq", "find", "tick", "launch", "count",
                                         "loop", "wake", "ready", "insert", "exit"}
                      /\ {cpu[c].curr, cpu[c].stk} \subseteq Task \cup {NULL}
                      /\ cpu[c].i \in 0..NPrio
                      /\ cpu[c].ev \in Poller \cup {NULL}
    /\ unprocessed \in [Poller -> Nat]
    /\ evlock \in [Poller -> CPU \cup {NULL}]
    /\ expired \subseteq armed /\ armed \subseteq Worker

(* The tasks a walk along rr_next from the head of q meets.                *)
Members(q) ==
    LET walk[n \in 0..Cardinality(Task)] ==
            IF n = 0 THEN rq.head[q]
            ELSE IF walk[n - 1] = NULL THEN NULL ELSE rq.next[walk[n - 1]]
    IN  {walk[n] : n \in DOMAIN walk} \ {NULL}

(* Tasks on their way from one queue to another, in nobody's queue.        *)
InTransit(t) ==
    \/ t \in Idle
    \/ \E c \in CPU :
          \/ cpu[c].pc \in {"enq", "exit"} /\ cpu[c].stk = t
          \/ cpu[c].pc \in {"ready", "insert"} /\ Head(cpu[c].todo) = t
          \/ Runs(c, t) /\ at[t] = "sleepq"
    \/ \E u \in Task : at[u] \in {"ready", "insert", "clean"} /\ arg[u] = t

Home(t) ==
    IF InTransit(t) THEN {}
    ELSE CASE state[t] = "READY" -> {prio[t]}
           [] state[t] \in {"UNINITIALIZED", "SLEEPING"} -> {sleep_queue}
           [] state[t] = "KILLED" -> {reap_queue}
           [] OTHER -> {}

(* Every task is in the one queue that its state names, whichever call of  *)
(* the scheduler moved it there: a READY thread can be found, a sleeping   *)
(* one be woken, a dead one be reaped, and a RUNNING one has a processor.  *)
(* The pair of links that all queues share spells out each of them in both *)
(* directions, num_tasks counts it, and a task in no queue has no links.   *)
QueuesMatchStates ==
    /\ \A t \in Task : {q \in Queue : t \in Members(q)} = Home(t)
    /\ \A t \in Task : Home(t) = {} => NotLinked(t)
    /\ \A t \in Task : state[t] = "RUNNING" => \E c \in CPU : cpu[c].stk = t
    /\ \A q \in Queue :
          /\ rq.num[q] = Cardinality(Members(q))
          /\ \A t \in Members(q) :
                /\ IF t = rq.head[q] THEN rq.prev[t] = NULL
                   ELSE rq.prev[t] # NULL /\ rq.next[rq.prev[t]] = t
                /\ IF t = rq.tail[q] THEN rq.next[t] = NULL
                   ELSE rq.next[t] # NULL /\ rq.prev[rq.next[t]] = t
          /\ rq.head[q] = NULL => rq.tail[q] = NULL

(* An event is launched only while a thread waits for it: kevent_launch    *)
(* panics otherwise.                                                       *)
LaunchHasSubscriber == \A c \in CPU : cpu[c].pc = "launch" => subs[cpu[c].ev] # <<>>

(* scheduler_yield: a thread that is not asleep any more "should not be    *)
(* enqueued at all" (scheduler.c:495); it panics if the thread is.         *)
YieldNotEnqueued ==
    \A c \in CPU, t \in Poller :
        Runs(c, t) /\ at[t] = "yield" /\ state[t] # "SLEEPING" => NotLinked(t)

(* A thread comes back from kevents_poll only with its event: the result   *)
(* -1 makes scheduler_sleep_for and kernel_reaper panic.                   *)
WokenByEvent ==
    \A c \in CPU, t \in Poller :
        Runs(c, t) /\ at[t] = "woken" /\ evlock[t] = NULL => unprocessed[t] > 0

Exiting(c) == cpu[c].ev = Reaper /\ cpu[c].pc \in {"launch", "count"}

(* Every launch of reap_event stands for one thread in the reap queue, so  *)
(* the reaper, which takes one thread per event, never takes NULL and      *)
(* leaves nobody behind.                                                   *)
ReapAccounted ==
    rq.num[reap_queue] =
        unprocessed[Reaper] + Cardinality({c \in CPU : Exiting(c)})
        + (IF at[Reaper] \in {"unsub", "reap"} THEN 1 ELSE 0)

(* The reaper frees the stack of a dead, unlinked thread that no processor *)
(* is executing on.                                                        *)
CleanupSafe ==
    at[Reaper] = "clean" =>
        LET t == arg[Reaper]
        IN  state[t] = "KILLED" /\ NotLinked(t) /\ \A c \in CPU : cpu[c].stk # t

(* No two processors execute on the stack of one thread.                   *)
StackPrivate == \A c, d \in CPU : c # d /\ cpu[c].stk = cpu[d].stk => cpu[c].stk = NULL

(* A thread asleep on an event has not already been notified: a launch     *)
(* that is over has woken it.                                              *)
NoLostWakeup ==
    \A t \in Poller :
        state[t] = "SLEEPING" /\ at[t] = "woken" /\ evlock[t] = NULL
            => unprocessed[t] = 0

(* A thread that sleeps for some time is woken.                            *)
SleepersWake == \A t \in Worker : state[t] = "SLEEPING" ~> state[t] # "SLEEPING"

(* A thread that exits is cleaned up.                                      *)
ExitedReaped == \A t \in Worker : state[t] = "KILLED" ~> state[t] = "NONE"

(* Threads take turns: one that is ready is given a processor, if no       *)
(* thread has a higher priority.                                           *)
RoundRobin == \A t \in Worker : state[t] = "READY" ~> state[t] = "RUNNING"
=============================================================================
