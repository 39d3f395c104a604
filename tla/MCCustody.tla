------------------------------ MODULE MCCustody ------------------------------
(***************************************************************************)
(* Small instances of Custody for TLC.                                     *)
(***************************************************************************)
EXTENDS Custody, TLC

CONSTANTS doc, challenge, ruling

\* The bytes of an anti-bot page, and those of the document itself.
MCInspected ==
    [x \in {challenge, ruling, NoContent} |->
       CASE x = challenge -> [status |-> "ACCESS_CHALLENGE", verification |-> "NOT_RUN"]
         [] x = ruling    -> [status |-> "FETCHED", verification |-> "VERIFIED"]
         [] OTHER         -> [status |-> "FETCH_FAILED", verification |-> "NOT_RUN"]]

\* All imports are for one document.
MCOneDocument == [i \in Import |-> doc]

Reviewers == Permutations(Import)
=============================================================================
