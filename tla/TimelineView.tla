---------------------------- MODULE TimelineView -----------------------------
(***************************************************************************)
(* What the delta engine promises, without saying how: the timelines of a  *)
(* case are a view of its active evidence.  Evidence changes in one step   *)
(* and marks the timelines it is about; a marked timeline is rebuilt in    *)
(* one step, from the evidence active at that very moment, or given up     *)
(* where everybody can see it.  There are no jobs, leases, keys or locks.  *)
(***************************************************************************)
CONSTANTS Key, Doc, KeysOf

VARIABLES
    recorded,  \* documents the case has ever received
    active,    \* those that are not retracted
    status,    \* status[k] of timeline k
    view       \* view[k]: the documents that timeline k shows

vars == <<recorded, active, status, view>>

Rebuilt(k) == {d \in active : k \in KeysOf[d]}

Init ==
    /\ recorded = {}
    /\ active = {}
    /\ status = [k \in Key |-> "absent"]
    /\ view = [k \in Key |-> {}]

Mark(keys) == status' = [k \in Key |-> IF k \in keys THEN "pending" ELSE status[k]]

Add(d) ==
    /\ d \notin recorded
    /\ recorded' = recorded \cup {d}
    /\ active' = active \cup {d}
    /\ Mark(KeysOf[d])
    /\ UNCHANGED view

Retract(d) ==
    /\ d \in active
    /\ active' = active \ {d}
    /\ Mark(KeysOf[d])
    /\ UNCHANGED <<recorded, view>>

Refresh(k) ==
    /\ status[k] = "pending"
    /\ status' = [status EXCEPT ![k] = "fresh"]
    /\ view' = [view EXCEPT ![k] = Rebuilt(k)]
    /\ UNCHANGED <<recorded, active>>

\* One sweep can find the last attempt of several timelines expired.
GiveUp(keys) ==
    /\ keys # {}
    /\ \A k \in keys : status[k] = "pending"
    /\ status' = [k \in Key |-> IF k \in keys THEN "failed" ELSE status[k]]
    /\ UNCHANGED <<recorded, active, view>>

Next ==
    \/ \E d \in Doc : Add(d) \/ Retract(d)
    \/ \E k \in Key : Refresh(k)
    \/ \E keys \in SUBSET Key : GiveUp(keys)

Spec == Init /\ [][Next]_vars

\* Whatever is fresh is exact: the readers' view of the promise.
FreshIsRebuilt == \A k \in Key : status[k] = "fresh" => view[k] = Rebuilt(k)
=============================================================================
