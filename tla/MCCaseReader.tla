----------------------------- MODULE MCCaseReader -----------------------------
(***************************************************************************)
(* Small instances of CaseReader for TLC.                                  *)
(***************************************************************************)
EXTENDS CaseReader

CONSTANTS d1, d2

\* One source about one day, one whose assertions span two.
MCKeysOf == [d \in {d1, d2} |-> IF d = d1 THEN {1} ELSE {1, 2}]

ClocksAgree == [r \in 1..MaxRevision |-> r]
=============================================================================
