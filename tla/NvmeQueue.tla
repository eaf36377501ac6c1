------------------------------ MODULE NvmeQueue ------------------------------
(***************************************************************************)
(* The queue pairs of the NVMe driver (nvme_init_queue,                    *)
(* nvme_queue_submit_single_cmd and nvme_queue_poll_single_cqe of          *)
(* src/driver/nvme.c) and the controller at their other end.               *)
(*                                                                         *)
(* A command is known by a tag; the command identifier the driver assigns  *)
(* is written into its own copy of the command after the copy into the     *)
(* ring, so every command in a ring carries identifier 0.  The driver's    *)
(* half of a pair is q[n], the controller's half ctl[n]; the rings lie in  *)
(* memory that both access.  Pair 0 is the admin pair.                     *)
(***************************************************************************)
EXTENDS Integers, Sequences, FiniteSets

CONSTANTS
    Entries,    \* entries of a ring: CAP.MQES + 1
    MaxNs       \* bound: namespaces of the controller

Pair == 0 .. MaxNs
Slot == 0 .. Entries - 1
NoTag == <<"none">>
ZeroCqe == [tag |-> NoTag, phase |-> 0, ok |-> FALSE, sqhd |-> 0]

VARIABLES
    q,          \* struct nvme_queue_ctx of each pair
    ring,       \* the memory of the two rings of each pair
    ctl,        \* the controller's view of each pair
    pend        \* submitted commands of each pair that are not yet answered
qvars == <<q, ring, ctl, pend>>

\* A pair in zeroed memory (kcalloc), and one the controller does not know.
NoQueue == [entries |-> 0, head |-> 0, tail |-> 0, cid |-> 0, free |-> 0,
            cqHead |-> 0, phase |-> 0, prp |-> [s \in Slot |-> 0]]
NoCtl == [sqSize |-> 0, cqSize |-> 0, sqHead |-> 0, sqTail |-> 0, fetched |-> {},
          cqTail |-> 0, cqHead |-> 0, phase |-> 1]

QInit ==
    /\ q = [n \in Pair |-> NoQueue]
    /\ ring = [n \in Pair |-> [sq |-> [s \in Slot |-> NoTag], cq |-> [s \in Slot |-> ZeroCqe]]]
    /\ ctl = [n \in Pair |-> NoCtl]
    /\ pend = [n \in Pair |-> {}]

\* nvme_init_queue; the rings are zeroed.
NewQueue(entries) ==
    [NoQueue EXCEPT !.entries = entries, !.phase = 1, !.free = entries - 1]

InitQueue(n, entries) ==
    /\ q' = [q EXCEPT ![n] = NewQueue(entries)]
    /\ ring' = [ring EXCEPT ![n] = [sq |-> [s \in Slot |-> NoTag], cq |-> [s \in Slot |-> ZeroCqe]]]

\* Mutant: the place after the last one is used.
Submit_NoWrap(n, tag, listed) ==
    /\ q[n].free # 0
    /\ ring' = [ring EXCEPT ![n].sq[q[n].tail] = tag]
    /\ q' = [q EXCEPT ![n].tail = IF @ + 1 = q[n].entries THEN @ ELSE @ + 1,
                      ![n].cid = (@ + 1) % Entries, ![n].free = @ - 1,
                      ![n].prp[q[n].cid % q[n].entries] = IF listed THEN 1 ELSE @]
    /\ ctl' = [ctl EXCEPT ![n].sqTail = q'[n].tail]
    /\ pend' = [pend EXCEPT ![n] = @ \cup {tag}]

\* nvme_queue_submit_single_cmd on a ring with room: append, ring the
\* doorbell.  The identifier counter is kept modulo Entries, as it is used;
\* a caller with a PRP list has stored it under that counter (listed).
Submit(n, tag, listed) ==
    /\ q[n].free # 0
    /\ ring' = [ring EXCEPT ![n].sq[q[n].tail] = tag]
    /\ q' = [q EXCEPT ![n].tail = (@ + 1) % q[n].entries,
                      ![n].cid = (@ + 1) % Entries, ![n].free = @ - 1,
                      ![n].prp[q[n].cid % q[n].entries] = IF listed THEN 1 ELSE @]
    /\ ctl' = [ctl EXCEPT ![n].sqTail = q'[n].tail]
    /\ pend' = [pend EXCEPT ![n] = @ \cup {tag}]

\* The entry nvme_queue_poll_single_cqe waits at, and whether its phase tag
\* ends the wait.
Cqe(n) == ring[n].cq[q[n].cqHead]
Arrived(n) == Cqe(n).phase = q[n].phase

\* Mutant: the expected phase stays the same when the head wraps.
Poll_KeepPhase(n) ==
    LET head == (q[n].cqHead + 1) % q[n].entries IN
    /\ Arrived(n)
    /\ q' = [q EXCEPT ![n].head = Cqe(n).sqhd, ![n].prp[0] = 0,
                      ![n].cqHead = head, ![n].free = @ + 1]
    /\ ctl' = [ctl EXCEPT ![n].cqHead = head]
    /\ pend' = [pend EXCEPT ![n] = @ \ {Cqe(n).tag}]
    /\ UNCHANGED ring

\* nvme_queue_poll_single_cqe once the entry has arrived: free the PRP list
\* of identifier 0, advance, flip the phase on wrapping, ring the doorbell.
Poll(n) ==
    LET head == (q[n].cqHead + 1) % q[n].entries IN
    /\ Arrived(n)
    /\ q' = [q EXCEPT ![n].head = Cqe(n).sqhd, ![n].prp[0] = 0,
                      ![n].cqHead = head, ![n].free = @ + 1,
                      ![n].phase = IF head = 0 THEN 1 - @ ELSE @]
    /\ ctl' = [ctl EXCEPT ![n].cqHead = head]
    /\ pend' = [pend EXCEPT ![n] = @ \ {Cqe(n).tag}]
    /\ UNCHANGED ring

-----------------------------------------------------------------------------
(* The controller: it fetches in order and completes in any order. *)

Fetch(n) ==
    /\ ctl[n].sqHead # ctl[n].sqTail
    /\ ctl' = [ctl EXCEPT ![n].fetched = @ \cup {ring[n].sq[ctl[n].sqHead]},
                          ![n].sqHead = (@ + 1) % ctl[n].sqSize]
    /\ UNCHANGED <<q, ring, pend>>

\* Whether a command succeeds, where the driver's order decides it: a
\* submission queue needs its completion queue.
Accepted(tag) == tag[1] = "ciosq" => ctl[tag[2]].cqSize # 0

\* What creating a queue does, else nothing.
Created(tag, k) ==
    CASE tag[1] = "ciocq" -> [k EXCEPT ![tag[2]].cqSize = Entries]
      [] tag[1] = "ciosq" /\ Accepted(tag) -> [k EXCEPT ![tag[2]].sqSize = Entries]
      [] OTHER -> k

Complete(n, tag) ==
    /\ tag \in ctl[n].fetched
    /\ (ctl[n].cqTail + 1) % ctl[n].cqSize # ctl[n].cqHead
    /\ ring' = [ring EXCEPT ![n].cq[ctl[n].cqTail] =
                    [tag |-> tag, phase |-> ctl[n].phase, ok |-> Accepted(tag), sqhd |-> ctl[n].sqHead]]
    /\ LET tail == (ctl[n].cqTail + 1) % ctl[n].cqSize IN
       ctl' = Created(tag, [ctl EXCEPT ![n].fetched = @ \ {tag}, ![n].cqTail = tail,
                                       ![n].phase = IF tail = 0 THEN 1 - @ ELSE @])
    /\ UNCHANGED <<q, pend>>

Controller == \E n \in Pair : Fetch(n) \/ \E tag \in ctl[n].fetched : Complete(n, tag)
=============================================================================
