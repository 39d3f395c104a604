---------------------------- MODULE MCCaseAnalysis ----------------------------
(***************************************************************************)
(* Small instances of CaseAnalysis for TLC.                                *)
(***************************************************************************)
EXTENDS CaseAnalysis

CONSTANTS verdict, complaint, tip

MCSourceTypeOf ==
    [d \in {verdict, complaint, tip} |->
       CASE d = verdict   -> <<"court", "outcome", "record">>
         [] d = complaint -> <<"criminal", "complaint">>
         [] d = tip       -> <<"officer", "observation">>]

\* One entity-day with both sides of a conflict, a kind that is in the court
\* tier only in a verdict and one without a class; and another entity-day.
MCStatement ==
    {[entity |-> "backpack", day |-> 1, kind |-> <<"COURT", "ESTABLISHED", "DISPOSAL">>],
     [entity |-> "backpack", day |-> 1, kind |-> <<"REPORTED", "DISPOSAL">>],
     [entity |-> "backpack", day |-> 1, kind |-> <<"REPORTED", "CONCEALMENT">>],
     [entity |-> "backpack", day |-> 1, kind |-> <<"MENTIONED">>],
     [entity |-> "laptop", day |-> 2, kind |-> <<"REPORTED", "CONCEALMENT">>]}
=============================================================================
