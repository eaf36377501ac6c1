------------------------------- MODULE KeySet -------------------------------
(***************************************************************************)
(* What the red-black tree promises to its callers: a set of keys that     *)
(* grows by one key with tree_insert and loses one key with tree_remove.   *)
(* Inserting a key that is present, and removing one that is absent,       *)
(* changes nothing.                                                        *)
(***************************************************************************)
CONSTANT Keys
VARIABLE keys

Init == keys = {}
Add(k)  == k \notin keys /\ keys' = keys \cup {k}
Drop(k) == k \in keys /\ keys' = keys \ {k}
Next == \E k \in Keys : Add(k) \/ Drop(k)
Spec == Init /\ [][Next]_keys
=============================================================================
