---------------------------- MODULE MCDeltaEngine ----------------------------
(***************************************************************************)
(* Small instances of DeltaEngine for TLC.                                 *)
(***************************************************************************)
EXTENDS DeltaEngine, TLC

CONSTANTS d1, d2

\* One source about one day, one whose assertions span two.
MCKeysOf == [d \in {d1, d2} |-> IF d = d1 THEN {1} ELSE {1, 2}]

\* Two sources about the same day.
MCOneKey == [d \in {d1, d2} |-> {1}]

\* A source whose assertions lie on day 1 in UTC and on day 2 where the database
\* server stands.
MCNextDay == [d \in {d1, d2} |-> {2}]

\* Hosts agree about the time, or the host of the second mutation is behind.
ClocksAgree == [r \in 1..MaxRevision |-> r]
ClocksDisagree == [r \in 1..MaxRevision |-> IF r = 2 THEN 0 ELSE r]

Interchangeable == Permutations(Client) \cup Permutations(Worker)
=============================================================================
