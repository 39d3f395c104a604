------------------------------ MODULE CustodyLog ------------------------------
(***************************************************************************)
(* What custody promises: for each document an append-only log of the      *)
(* attempts to obtain its source, numbered without gaps.                   *)
(***************************************************************************)
EXTENDS Integers, Sequences

CONSTANTS Doc, Payload

VARIABLE log

Init == log = [d \in Doc |-> <<>>]

\* One more attempt at the end of the log of document d, all else as it was.
Record(d) ==
    LET next == Len(log[d]) + 1
    IN  /\ Len(log'[d]) = next
        /\ SubSeq(log'[d], 1, Len(log[d])) = log[d]
        /\ log'[d][next] \in Payload
        /\ log'[d][next].document = d
        /\ log'[d][next].sequence = next
        /\ \A e \in Doc \ {d} : log'[e] = log[e]

Next == \E d \in Doc : Record(d)

Spec == Init /\ [][Next]_log
=============================================================================
