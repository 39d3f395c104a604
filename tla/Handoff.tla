------------------------------- MODULE Handoff -------------------------------
(***************************************************************************)
(* assign_case beside the mutations: who is assigned to the case, and      *)
(* whose name each change set carries.                                     *)
(***************************************************************************)
EXTENDS DeltaEngine

CONSTANTS
    Officer,   \* officers that the case may be assigned to
    NoOfficer  \* the case is not assigned, or no longer

ASSUME OfficerAssumption == NoOfficer \notin Officer

VARIABLES
    officer,     \* cases.assigned_officer; badge, unit and note go with it
    loaded,      \* the officer in the case that each mutation has loaded
    performedBy  \* change_sets.performed_by, of the last change set

handoffVars == <<officer, loaded, performedBy>>
allVars == <<vars, handoffVars>>

Assignee == Officer \cup {NoOfficer}

HandoffInit ==
    /\ officer = NoOfficer
    /\ loaded = [c \in Client |-> NoOfficer]
    /\ performedBy = NoOfficer

-----------------------------------------------------------------------------
(* assign_case *)

\* Mutant: mutations load the case without locking it.
NeverLockedByMutation == TRUE
FreeOfMutations == ~CaseLocked

\* One transaction that locks the case row, so it waits for a mutation.  Nothing but
\* that row is read or written, and a mutation that comes in between waits: the lock
\* and the commit are one step.  One that fails leaves nothing.
Assign(to) ==
    /\ FreeOfMutations
    /\ officer' = to
    /\ UNCHANGED <<vars, loaded, performedBy>>

-----------------------------------------------------------------------------
(* Mutations *)

\* The row that a mutation locks comes with the officer.
LockAssignedCase(c, op, d) ==
    /\ LockCase(c, op, d)
    /\ loaded' = [loaded EXCEPT ![c] = officer]
    /\ UNCHANGED <<officer, performedBy>>

CommitAttributed(c) ==
    /\ Commit(c)
    /\ performedBy' = loaded[c]
    /\ loaded' = [loaded EXCEPT ![c] = NoOfficer]
    /\ UNCHANGED officer

RollbackAttributed(c) ==
    /\ Rollback(c)
    /\ loaded' = [loaded EXCEPT ![c] = NoOfficer]
    /\ UNCHANGED <<officer, performedBy>>

HandoffNext ==
    \/ \E to \in Assignee : Assign(to)
    \/ \E c \in Client :
         \/ \E op \in Operation, d \in Doc : LockAssignedCase(c, op, d)
         \/ (TouchKey(c) \/ ReadDependents(c) \/ Bootstrap(c)) /\ UNCHANGED handoffVars
         \/ CommitAttributed(c) \/ RollbackAttributed(c)
    \/ WorkerNext /\ UNCHANGED handoffVars

HandoffSpec == Init /\ HandoffInit /\ [][HandoffNext]_allVars

-----------------------------------------------------------------------------
\* A change set carries the name of who is assigned when it is committed, however
\* long the mutation waited, for the case or for a worker, and whatever was assigned
\* meanwhile (README: performed_by "snapshots the assigned reviewer at mutation
\* time"; _record_mutation takes it from the case that was loaded at the start).
AttributedToAssigned ==
    [][changeSets' # changeSets => performedBy' = officer]_allVars
=============================================================================
