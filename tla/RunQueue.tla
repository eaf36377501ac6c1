------------------------------ MODULE RunQueue ------------------------------
(***************************************************************************)
(* The intrusive doubly linked queues of kernel/src/proc/scheduler.c: the  *)
(* run queues, the sleep queue and the reap queue.  A task has one pair of *)
(* links, shared by all queues, so it must be in at most one of them.  The *)
(* operators give the memory after a call; each runs under rq->lock.       *)
(***************************************************************************)
EXTENDS Integers

CONSTANTS Task, Queue, NULL

(* head, tail and num_tasks of every queue; rr_next and rr_prev of every   *)
(* task.                                                                   *)
Links ==
    [head : [Queue -> Task \cup {NULL}], tail : [Queue -> Task \cup {NULL}],
     num : [Queue -> Nat],
     next : [Task -> Task \cup {NULL}], prev : [Task -> Task \cup {NULL}]]

NoLinks ==
    [head |-> [q \in Queue |-> NULL], tail |-> [q \in Queue |-> NULL],
     num |-> [q \in Queue |-> 0],
     next |-> [t \in Task |-> NULL], prev |-> [t \in Task |-> NULL]]

(* Both insertions into an empty queue.                                    *)
InsertOnly(r, q, t) ==
    [r EXCEPT !.head[q] = t, !.tail[q] = t, !.next[t] = NULL, !.prev[t] = NULL,
              !.num[q] = @ + 1]

runqueue_insert_front(r, q, t) ==
    IF r.head[q] = NULL
    THEN InsertOnly(r, q, t)
    ELSE [r EXCEPT !.prev[t] = NULL, !.next[t] = r.head[q], !.prev[r.head[q]] = t,
                   !.head[q] = t, !.num[q] = @ + 1]

runqueue_insert_back(r, q, t) ==
    IF r.tail[q] = NULL
    THEN InsertOnly(r, q, t)
    ELSE [r EXCEPT !.next[t] = NULL, !.next[r.tail[q]] = t, !.prev[t] = r.tail[q],
                   !.tail[q] = t, !.num[q] = @ + 1]

(* The links after t is cut out: its neighbours are joined.                *)
Joined(r, t) ==
    LET p == r.prev[t]
        n == r.next[t]
        nx == IF p # NULL THEN [r.next EXCEPT ![p] = n] ELSE r.next
        pv == IF n # NULL THEN [r.prev EXCEPT ![n] = p] ELSE r.prev
    IN  [r EXCEPT !.next = [nx EXCEPT ![t] = NULL], !.prev = [pv EXCEPT ![t] = NULL]]

(* Mutant: the tail is not moved when the last of several tasks leaves.    *)
runqueue_remove_KeepTail(r, q, t) ==
    [Joined(r, t) EXCEPT
        !.head[q] = IF t = r.head[q] THEN r.next[t] ELSE @,
        !.tail[q] = IF t = r.head[q] /\ r.next[t] = NULL THEN NULL ELSE @,
        !.num[q] = @ - 1]

runqueue_remove(r, q, t) ==
    LET first == t = r.head[q]
        last == ~first /\ t = r.tail[q]
    IN  [Joined(r, t) EXCEPT
            !.head[q] = IF first THEN r.next[t]
                        ELSE IF last /\ r.prev[t] = NULL THEN NULL ELSE @,
            !.tail[q] = IF first /\ r.next[t] = NULL THEN NULL
                        ELSE IF last THEN r.prev[t] ELSE @,
            !.num[q] = @ - 1]

(* runqueue_pop_front returns r.head[q]; the links after it returned a task. *)
runqueue_pop_front(r, q) ==
    LET t == r.head[q]
        r2 == IF t = r.tail[q]
              THEN [r EXCEPT !.head[q] = NULL, !.tail[q] = NULL]
              ELSE [r EXCEPT !.head[q] = r.next[t], !.prev[r.next[t]] = NULL]
    IN  [r2 EXCEPT !.next[t] = NULL, !.prev[t] = NULL, !.num[q] = @ - 1]
=============================================================================
