------------------------------ MODULE BlockDev ------------------------------
(***************************************************************************)
(* What struct device promises about a block device: an array of bytes,    *)
(* read and written by one request at a time.  A write changes no byte     *)
(* outside its range, a read returns the bytes of its range in order, and  *)
(* nothing else changes a byte.  A request may end early.                  *)
(***************************************************************************)
EXTENDS Naturals, Sequences

CONSTANTS Capacity, Byte, Request, NoReq
VARIABLES contents, req, buf

Init == contents \in [0 .. Capacity - 1 -> Byte] /\ req = NoReq /\ buf = <<>>

Begin(r) == req = NoReq /\ req' = r /\ buf' = <<>> /\ UNCHANGED contents

\* Bytes off .. off + count - 1 are the request's.
Covers(r, a) == r.off <= a /\ a < r.off + r.count

Put ==
    /\ req # NoReq /\ req.op = "write"
    /\ contents' \in [0 .. Capacity - 1 -> Byte]
    /\ \A a \in DOMAIN contents : contents'[a] # contents[a] =>
           Covers(req, a) /\ contents'[a] = req.val
    /\ UNCHANGED <<req, buf>>

Take(n) ==
    /\ req # NoReq /\ req.op = "read"
    /\ Len(buf) + n <= req.count
    /\ buf' = buf \o [i \in 1 .. n |-> contents[req.off + Len(buf) + i - 1]]
    /\ UNCHANGED <<contents, req>>

End == req # NoReq /\ req' = NoReq /\ buf' = <<>> /\ UNCHANGED contents

Next ==
    \/ \E r \in Request : Begin(r)
    \/ Put
    \/ \E n \in 1 .. Capacity : Take(n)
    \/ End

Spec == Init /\ [][Next]_<<contents, req, buf>>
=============================================================================
