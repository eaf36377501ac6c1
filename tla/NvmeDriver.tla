------------------------------ MODULE NvmeDriver ------------------------------
(***************************************************************************)
(* Initialisation of an NVMe controller (init_nvme_controller) and the     *)
(* blocking transfers of its last namespace (nvme_rw_blocking), on the     *)
(* queue pairs of NvmeQueue.  Each admin command is a step that submits it *)
(* and a step that polls for it, between which the controller works.  Only *)
(* the device created last, tempdev, is handed on; nothing refers to the   *)
(* devices of the other namespaces.                                        *)
(***************************************************************************)
EXTENDS NvmeQueue

CONSTANTS
    NsList,         \* the active namespace lists a controller may report
    Nn,             \* number of namespaces the controller reports
    Dword0,         \* values of an uninitialised completion's dword 0: <<nsqa - 1, ncqa - 1>>
    VecCapacity,    \* first capacity of the namespace vector
    PageSize,       \* in bytes
    Buffer,         \* virtual addresses of the cached blocks' buffers
    BufferLen,      \* NVME_BLOCK_SIZE in bytes
    FrameOf(_)      \* page frame behind a virtual page of the kernel map

VARIABLES
    pc,         \* where init_nvme_controller is
    list,       \* nsid_list, and i, its index in the two loops
    i,
    dword0,     \* cqe.dword_0
    qcount,     \* controller->queue_count
    vec,        \* active_ns: nsids, capacity and the number of reallocations
    dev,        \* tempdev: its nsid and dev_specific, an element of the vector
    io          \* the transfer it is waiting for, under its lock
dvars == <<qvars, pc, list, i, dword0, qcount, vec, dev, io>>
locals == <<list, i, dword0, qcount, vec, dev, io>>

ASSUME NvmeDriverAssumption ==
    /\ MaxNs \in Nat /\ Entries \in Nat /\ PageSize \in Nat \ {0} /\ VecCapacity \in Nat \ {0}
    /\ \A l \in NsList : Len(l) <= MaxNs /\ \A j \in DOMAIN l : l[j] \in Nat
    \* aqa announces one entry more than nvme_init_queue is told for the admin
    \* pair; the pair must not wrap.
    /\ 4 + 3 * MaxNs <= Entries - 2

Idle == [at |-> "idle"]
NoDevice == [nsid |-> 0, index |-> 0, gen |-> 0]

DInit ==
    /\ QInit
    /\ pc = "reset" /\ i = 0 /\ qcount = 0 /\ dev = NoDevice
    /\ list \in NsList
    /\ dword0 \in Dword0
    /\ vec = [data |-> <<>>, cap |-> 0, gen |-> 0]
    /\ io = Idle

Goto(p) == pc' = p

\* Registers: compatibility checks, reset, configuration, the admin pair.
Reset ==
    /\ pc = "reset"
    /\ \/ InitQueue(0, Entries - 1)
          /\ ctl' = [ctl EXCEPT ![0].sqSize = Entries, ![0].cqSize = Entries]
          /\ Goto("ctrl")
       \/ Goto("panic") /\ UNCHANGED <<q, ring, ctl>>
    /\ UNCHANGED <<pend, locals>>

\* Submit tag at pc = from, and wait at to; a full ring is a panic.
Issue(from, tag, to) ==
    /\ pc = from
    /\ IF q[0].free # 0 THEN Submit(0, tag, FALSE) /\ Goto(to)
                        ELSE Goto("panic") /\ UNCHANGED qvars
    /\ UNCHANGED locals

\* Poll at pc = at: the status is the controller's choice.
Answer(at) == pc = at /\ Poll(0)
Good == Cqe(0).ok

Identify == Issue("ctrl", <<"identify", "ctrl">>, "ctrl_poll")
\* Only I/O controllers are taken on; the progress marker is optional.
IdentifyDone ==
    /\ Answer("ctrl_poll")
    /\ \E next \in {"marker", "nslist", "return", "panic"} : Goto(next)
    /\ UNCHANGED locals

Marker == Issue("marker", <<"features", "marker">>, "marker_poll")
\* Its failure is only reported; its completion is left in cqe.
MarkerDone ==
    /\ Answer("marker_poll")
    /\ dword0' = <<0, 0>>
    /\ Goto("nslist")
    /\ UNCHANGED <<list, i, qcount, vec, dev, io>>

NsIds == Issue("nslist", <<"identify", "nslist">>, "nslist_poll")
NsIdsDone ==
    /\ Answer("nslist_poll")
    /\ \E next \in {"setq", "panic"} : Goto(next)
    /\ UNCHANGED locals

SetQueues == Issue("setq", <<"features", "queues">>, "setq_poll")
\* The number of queues is taken from cqe, not from this completion.
SetQueuesDone ==
    /\ Answer("setq_poll")
    /\ \/ Goto("panic") /\ UNCHANGED <<i, qcount>>
       \/ /\ Goto(IF dword0[1] = dword0[2] THEN "ns" ELSE "panic")
          /\ qcount' = IF dword0[1] = dword0[2] THEN dword0[1] + 1 ELSE qcount
          /\ i' = 1
    /\ UNCHANGED <<list, dword0, vec, dev, io>>

\* The loop over the list skips free and impossible entries.
NsSkip ==
    /\ pc = "ns" /\ i <= Len(list)
    /\ list[i] \notin 1 .. Nn
    /\ i' = i + 1
    /\ UNCHANGED <<qvars, pc, list, dword0, qcount, vec, dev, io>>
NsIdentify ==
    /\ pc = "ns" /\ i <= Len(list) /\ list[i] \in 1 .. Nn
    /\ Issue("ns", <<"identify", i>>, "ns_poll")

\* push_back of struct vector.
PushBack(v, x) ==
    LET grow == Len(v.data) >= v.cap IN
    [data |-> Append(v.data, x),
     cap  |-> IF ~ grow THEN v.cap ELSE IF v.cap = 0 THEN VecCapacity ELSE 2 * v.cap,
     gen  |-> IF grow THEN v.gen + 1 ELSE v.gen]

\* Mutant: the device points to where the vector was before the push_back.
NsDone_Early ==
    /\ Answer("ns_poll")
    /\ \/ Goto("panic") /\ UNCHANGED <<i, vec, dev>>
       \/ /\ Goto("ns")
          /\ vec' = PushBack(vec, list[i])
          /\ dev' = [nsid |-> list[i], index |-> i, gen |-> vec.gen]
          /\ i' = i + 1
    /\ UNCHANGED <<list, dword0, qcount, io>>

\* The context is copied to the end of the vector; the device points to
\* element i of the vector as it lies now.
NsDone ==
    /\ Answer("ns_poll")
    /\ \/ Goto("panic") /\ UNCHANGED <<i, vec, dev>>
       \/ /\ Goto("ns")
          /\ vec' = PushBack(vec, list[i])
          /\ dev' = [nsid |-> list[i], index |-> i, gen |-> vec'.gen]
          /\ i' = i + 1
    /\ UNCHANGED <<list, dword0, qcount, io>>

NsEnd ==
    /\ pc = "ns" /\ i > Len(list)
    /\ Goto("queues") /\ i' = 1
    /\ UNCHANGED <<qvars, list, dword0, qcount, vec, dev, io>>

\* One pair of queues for each namespace, while there are queues; both
\* commands are submitted before either is polled for.
QueueInit ==
    /\ pc = "queues" /\ i <= Len(vec.data) /\ i <= qcount
    /\ InitQueue(i, Entries)
    /\ Goto("ciocq")
    /\ UNCHANGED <<ctl, pend, locals>>
CreateCq == Issue("ciocq", <<"ciocq", i>>, "ciosq")
CreateSq == Issue("ciosq", <<"ciosq", i>>, "ciocq_poll")
CreateCqDone ==
    /\ Answer("ciocq_poll")
    /\ \/ Goto("panic")
       \/ Good /\ Goto("ciosq_poll")
    /\ UNCHANGED locals
CreateSqDone ==
    /\ Answer("ciosq_poll")
    /\ \/ Goto("panic") /\ UNCHANGED i
       \/ Good /\ Goto("queues") /\ i' = i + 1
    /\ UNCHANGED <<list, dword0, qcount, vec, dev, io>>

\* partition_disk_device(tempdev) reads through the device; without one it
\* faults.
InitEnd ==
    /\ pc = "queues" /\ (i > Len(vec.data) \/ i > qcount)
    /\ Goto(IF dev = NoDevice THEN "panic" ELSE "done")
    /\ UNCHANGED <<qvars, locals>>

\* nvme_queue_poll_single_cqe gives up after a million reads of the entry.
PollTimeout ==
    /\ pc \in {"ctrl_poll", "marker_poll", "nslist_poll", "setq_poll", "ns_poll",
              "ciocq_poll", "ciosq_poll"}
    /\ ~ Arrived(0)
    /\ Goto("panic")
    /\ UNCHANGED <<qvars, locals>>

-----------------------------------------------------------------------------
(* nvme_rw_blocking, called by the block cache under the device's lock. *)

Page(a) == a \div PageSize
PageUp(a) == Page(a + PageSize - 1) * PageSize
Virt2Phys(a) == FrameOf(Page(a)) * PageSize + (a % PageSize)
CrossesBoundary(start, len) == Page(start) # Page(start + len - 1)

\* Mutant: the second pointer is the end of the first page, not the next one.
DataPointers_Contiguous(b, len) ==
    LET start == Virt2Phys(b) IN
    IF ~ CrossesBoundary(start, len) THEN [prp1 |-> start, prp2 |-> 0, list |-> FALSE]
    ELSE [prp1 |-> start, prp2 |-> PageUp(start), list |-> FALSE]

\* The data pointers of the command; the callers' buffers are shorter than
\* a page and never need the list.
DataPointers(b, len) ==
    LET start   == Virt2Phys(b)
        aligned == start % PageSize = 0
    IN  IF ~ CrossesBoundary(start, len) THEN [prp1 |-> start, prp2 |-> 0, list |-> FALSE]
        ELSE IF (len >= 2 * PageSize /\ ~ aligned) \/ len > 2 * PageSize
        THEN [prp1 |-> IF aligned THEN 0 ELSE start, prp2 |-> 0, list |-> TRUE]
        ELSE [prp1 |-> start, prp2 |-> Virt2Phys(PageUp(b)), list |-> FALSE]

\* Where the device's pointer leads: an element of the vector as it lies now.
Valid == dev.gen = vec.gen /\ dev.index \in DOMAIN vec.data
Ns == dev.index

\* Commands in the same place of the ring have different tags in
\* successive rounds.
NextTag(n) == <<"io", ctl[n].phase>>

\* The context is not one: what it holds is undefined, and nothing is said
\* of what happens then.
RwUndefined ==
    /\ pc = "done" /\ ~ Valid
    /\ Goto("undefined")
    /\ UNCHANGED <<qvars, locals>>

\* A pair without entries fails the test of the transfer's size.
RwRefused ==
    /\ pc = "done" /\ io = Idle /\ Valid
    /\ BufferLen > PageSize * q[Ns].entries
    /\ UNCHANGED dvars

Rw(b) ==
    /\ pc = "done" /\ io = Idle /\ Valid
    /\ BufferLen <= PageSize * q[Ns].entries
    /\ LET p == DataPointers(b, BufferLen) IN
       /\ Submit(Ns, NextTag(Ns), p.list)
       /\ io' = [at |-> "poll", tag |-> NextTag(Ns), buf |-> b, prp |-> p]
    /\ UNCHANGED <<pc, list, i, dword0, qcount, vec, dev>>

\* Success and failure of the transfer only differ in what is returned.
RwDone ==
    /\ io.at = "poll"
    /\ Poll(Ns)
    /\ io' = Idle
    /\ UNCHANGED <<pc, list, i, dword0, qcount, vec, dev>>

RwTimeout ==
    /\ pc = "done" /\ io.at = "poll"
    /\ ~ Arrived(Ns)
    /\ Goto("panic")
    /\ UNCHANGED <<qvars, locals>>

\* After a panic or when the controller is not taken on nothing happens.
Stopped == pc \in {"panic", "return", "undefined"} /\ UNCHANGED dvars

DNext ==
    \/ Reset \/ Identify \/ IdentifyDone \/ Marker \/ MarkerDone \/ NsIds \/ NsIdsDone
    \/ SetQueues \/ SetQueuesDone \/ NsSkip \/ NsIdentify \/ NsDone \/ NsEnd
    \/ QueueInit \/ CreateCq \/ CreateSq \/ CreateCqDone \/ CreateSqDone \/ InitEnd
    \/ PollTimeout \/ Stopped
    \/ RwUndefined \/ RwRefused \/ (\E b \in Buffer : Rw(b)) \/ RwDone \/ RwTimeout
    \/ Controller /\ pc \notin {"panic", "undefined"} /\ UNCHANGED <<pc, locals>>

DSpec == DInit /\ [][DNext]_dvars

-----------------------------------------------------------------------------
\* A completion that nvme_queue_poll_single_cqe takes, by its phase tag alone, always
\* answers a command of that pair that was submitted and not answered yet: never
\* an entry left from an earlier round of the ring.  For a transfer it is the
\* very command nvme_rw_blocking waits for.
CompletionFresh ==
    pc # "panic" => \A n \in Pair : q[n].entries # 0 /\ pend[n] # {} /\ Arrived(n) =>
        /\ Cqe(n).tag \in pend[n]
        /\ io.at = "poll" /\ n = Ns => Cqe(n).tag = io.tag

\* The driver's count of free places is exact, and every command that is not answered
\* is in exactly one place: in the ring before the controller's head, with the
\* controller, or in the completion ring before the driver's head.  None is
\* overwritten, lost or taken twice when tail, heads and phase wrap.
RingsExact ==
    \A n \in Pair : q[n].entries # 0 =>
        LET unfetched == (q[n].tail - ctl[n].sqHead) % Entries
            posted    == (ctl[n].cqTail - q[n].cqHead) % Entries
        IN  /\ Cardinality(pend[n]) = q[n].entries - 1 - q[n].free
            /\ Cardinality(pend[n]) = unfetched + Cardinality(ctl[n].fetched) + posted
            /\ pend[n] = {ring[n].sq[(ctl[n].sqHead + j) % Entries] : j \in 0 .. unfetched - 1}
                           \cup ctl[n].fetched
                           \cup {ring[n].cq[(q[n].cqHead + j) % Entries].tag : j \in 0 .. posted - 1}

\* Once the controller is initialised the device handed on points to the context of
\* its own namespace where the vector now lies, however often push_back moved
\* it, exactly when no entry of the list before it was skipped: the pointer is
\* taken with the list's index.  And a context whose pair is initialised has both
\* queues at the controller, with the same size.
DeviceUsable ==
    pc = "done" =>
        /\ Valid /\ vec.data[Ns] = dev.nsid <=> \A j \in 1 .. Ns : list[j] \in 1 .. Nn
        /\ \A n \in DOMAIN vec.data : q[n].entries = ctl[n].sqSize /\ q[n].entries = ctl[n].cqSize

\* The bytes a transfer's data pointers make the controller access are those of the
\* buffer, for buffers inside a page and across two pages whose frames need not
\* be adjacent.
TransferCovers ==
    io.at = "poll" =>
        LET p       == io.prp
            inFirst == PageSize - (p.prp1 % PageSize)
        IN  \A o \in 0 .. BufferLen - 1 :
                Virt2Phys(io.buf + o) = IF o < inFirst THEN p.prp1 + o ELSE p.prp2 + o - inFirst

\* Every namespace has a pair of queues, as "allocate 1 sq and cq per namespace
\* (for now)" says, when the controller grants them.
EveryNamespaceHasQueue ==
    pc = "done" => \A n \in DOMAIN vec.data : q[n].entries # 0
=============================================================================
