---------------------------- MODULE HandoffProofs ----------------------------
(***************************************************************************)
(* Theorems about Handoff, for any number of officers, keys, documents,    *)
(* requests in flight and workers, and about readers beside it.            *)
(***************************************************************************)
EXTENDS Handoff, CaseReaderProofs

\* The engine's steps are the same with assignments beside them.
LEMMA EngineBesideAssignments == [HandoffNext]_allVars => [Next]_vars
BY DEF HandoffNext, Assign, LockAssignedCase, CommitAttributed, RollbackAttributed, Next,
   ServiceNext, TxStep, allVars

\* Assignments disturb nothing: what is proved of the engine holds beside them
\* (assign_case writes no table but the case row).
THEOREM AssignmentsDisturbNothing == HandoffSpec => Spec
BY EngineBesideAssignments, PTL DEF HandoffSpec, Spec

\* A request that reads, beside mutations, workers and assignments.  It does not read
\* the officer for anything that it derives.
ReadOrHandoff ==
    \/ HandoffNext /\ UNCHANGED reader
    \/ ReaderStep /\ UNCHANGED handoffVars
ReadersBesideHandoff ==
    Init /\ HandoffInit /\ reader = NoRequest /\ [][ReadOrHandoff]_<<allVars, reader>>

\* Whoever reads beside assignments sees what he sees without them, so what is proved of
\* his answers holds there, too; and his reads do not disturb the assignments.
THEOREM AssignmentsDisturbNoReader == ReadersBesideHandoff => ReaderSpec /\ HandoffSpec
<1>1. [ReadOrHandoff]_<<allVars, reader>> => [ReaderNext]_readerVars
  BY EngineBesideAssignments DEF ReadOrHandoff, ReaderNext, readerVars, allVars
<1>2. [ReadOrHandoff]_<<allVars, reader>> => [HandoffNext]_allVars
  BY ReadersOnlyRead DEF ReadOrHandoff, allVars
<1> QED
  BY <1>1, <1>2, PTL DEF ReadersBesideHandoff, ReaderSpec, HandoffSpec

-----------------------------------------------------------------------------
(* The name on a change set *)

\* A mutation that has locked the case has the officer that the case has, as
\* nobody is assigned until it ends.
OfficerLoaded ==
    /\ loaded \in [Client -> Assignee]
    /\ officer \in Assignee
    /\ \A c \in Client : tx[c].pc # "idle" => loaded[c] = officer

AttributionInv == QueueInv /\ OfficerLoaded

\* No step but the lock of the case begins a mutation.
LEMMA MutationsBeginLocked ==
    ASSUME Shape, \/ \E c \in Client : TouchKey(c) \/ ReadDependents(c) \/ Bootstrap(c)
                  \/ WorkerNext \/ UNCHANGED vars
    PROVE  /\ \A c \in Client : tx'[c].pc # "idle" => tx[c].pc # "idle"
           /\ changeSets' = changeSets
<1>1. tx \in [Client -> Tx]
  BY DEF Shape, TypeOK
<1>2. ASSUME NEW c \in Client, TouchKey(c) \/ ReadDependents(c) \/ Bootstrap(c)
      PROVE  /\ tx[c].pc # "idle" /\ \A other \in Client \ {c} : tx'[other] = tx[other]
             /\ changeSets' = changeSets
  <2>1. CASE TouchKey(c)
    BY <1>1, <2>1 DEF TouchKey, tables
  <2>2. CASE ReadDependents(c)
    BY <1>1, <2>2 DEF ReadDependents, tables
  <2>3. CASE Bootstrap(c)
    BY <1>1, <2>3 DEF Bootstrap, tables
  <2> QED
    BY <1>2, <2>1, <2>2, <2>3
<1>3. ASSUME NEW w \in Worker, WorkerStep(w) \/ PollEmpty(w) \/ Fail(w) \/ Crash(w)
      PROVE  tx' = tx /\ changeSets' = changeSets
  BY <1>3 DEF WorkerStep, SweepOnly, Claim, PollEmpty, ReadFirst, ReadInputs, ReadSecond,
     LockJob, LockKey, LockKeyTooLate, Publish, MarkSuperseded, RecordFailure, Settle, Fail,
     Crash, tables, vars
<1>4. CASE WorkerNext
  BY <1>3, <1>4 DEF WorkerNext, LeaseExpires
<1>5. CASE UNCHANGED vars
  BY <1>5 DEF vars, tables
<1> QED
  BY <1>2, <1>4, <1>5

LEMMA AttributionInit == Init /\ HandoffInit => AttributionInv
<1> SUFFICES ASSUME Init, HandoffInit PROVE AttributionInv
  OBVIOUS
<1>1. \A c \in Client : tx[c].pc = "idle"
  BY DEF Init, IdleTx
<1> QED
  BY <1>1, InitQueue DEF HandoffInit, AttributionInv, OfficerLoaded, Assignee

LEMMA AttributionNext == AttributionInv /\ [HandoffNext]_allVars => AttributionInv'
<1> SUFFICES ASSUME AttributionInv, [HandoffNext]_allVars PROVE OfficerLoaded'
  BY EngineBesideAssignments, NextQueue DEF AttributionInv
<1>1. /\ loaded \in [Client -> Assignee] /\ officer \in Assignee
      /\ \A c \in Client : tx[c].pc # "idle" => loaded[c] = officer
      /\ tx \in [Client -> Tx] /\ Shape
  BY DEF AttributionInv, OfficerLoaded, QueueInv, Shape, TypeOK
<1>2. ASSUME NEW to \in Assignee, Assign(to)
      PROVE  OfficerLoaded'
  BY <1>1, <1>2 DEF Assign, FreeOfMutations, CaseLocked, OfficerLoaded, vars
<1>3. ASSUME NEW c \in Client, NEW op \in Operation, NEW d \in Doc, LockAssignedCase(c, op, d)
      PROVE  OfficerLoaded'
  <2>1. \A other \in Client : tx[other].pc = "idle"
    BY <1>3 DEF LockAssignedCase, LockCase, CaseLocked
  <2>2. \A other \in Client \ {c} : tx'[other] = tx[other]
    BY <1>1, <1>3 DEF LockAssignedCase, LockCase
  <2>3. loaded' = [loaded EXCEPT ![c] = officer] /\ officer' = officer
    BY <1>3 DEF LockAssignedCase
  <2> QED
    BY <1>1, <2>1, <2>2, <2>3 DEF OfficerLoaded
<1>4. ASSUME NEW c \in Client, CommitAttributed(c) \/ RollbackAttributed(c)
      PROVE  OfficerLoaded'
  <2>1. /\ tx' = [tx EXCEPT ![c] = IdleTx] /\ officer' = officer
        /\ loaded' = [loaded EXCEPT ![c] = NoOfficer]
    BY <1>4 DEF CommitAttributed, RollbackAttributed, Commit, Rollback
  <2>2. tx'[c].pc = "idle" /\ \A other \in Client \ {c} : tx'[other] = tx[other]
    BY <1>1, <2>1 DEF IdleTx
  <2> QED
    BY <1>1, <2>1, <2>2 DEF OfficerLoaded, Assignee
<1>5. ASSUME \/ \E c \in Client : TouchKey(c) \/ ReadDependents(c) \/ Bootstrap(c)
             \/ WorkerNext \/ UNCHANGED vars,
             UNCHANGED handoffVars
      PROVE  OfficerLoaded'
  <2>1. \A c \in Client : tx'[c].pc # "idle" => tx[c].pc # "idle"
    BY <1>1, <1>5, MutationsBeginLocked
  <2> QED
    BY <1>1, <1>5, <2>1 DEF OfficerLoaded, handoffVars
<1> QED
  BY <1>2, <1>3, <1>4, <1>5 DEF HandoffNext, allVars

\* The step that appends a change set is the commit of a mutation, and the name
\* it writes is that of the officer of this moment.
LEMMA CommitsAreAttributed ==
    AttributionInv /\ [HandoffNext]_allVars
      => [changeSets' # changeSets => performedBy' = officer]_allVars
<1> SUFFICES ASSUME AttributionInv, HandoffNext, changeSets' # changeSets
             PROVE  performedBy' = officer
  BY DEF allVars
<1>1. Shape
  BY DEF AttributionInv, QueueInv
<1>2. \E c \in Client : CommitAttributed(c)
  <2>1. ASSUME NEW to \in Assignee, Assign(to) PROVE FALSE
    BY <2>1 DEF Assign, vars, tables
  <2>2. ASSUME NEW c \in Client, NEW op \in Operation, NEW d \in Doc, LockAssignedCase(c, op, d)
        PROVE  FALSE
    BY <2>2 DEF LockAssignedCase, LockCase, tables
  <2>3. ASSUME NEW c \in Client, RollbackAttributed(c) PROVE FALSE
    BY <2>3 DEF RollbackAttributed, Rollback, tables
  <2> QED
    BY <2>1, <2>2, <2>3, <1>1, MutationsBeginLocked DEF HandoffNext
<1>3. PICK c \in Client : CommitAttributed(c)
  BY <1>2
<1>4. performedBy' = loaded[c] /\ tx[c].pc = "touch"
  BY <1>3 DEF CommitAttributed, Commit
<1> QED
  BY <1>4 DEF AttributionInv, OfficerLoaded

\* A change set carries the name of the officer to whom the case is assigned when
\* the mutation commits, however many officers, requests and workers there are
\* (service.py, _record_mutation and assign_case).
THEOREM ChangesAreAttributed == HandoffSpec => AttributedToAssigned
BY AttributionInit, AttributionNext, CommitsAreAttributed, PTL DEF HandoffSpec, AttributedToAssigned
=============================================================================
