-------------------------- MODULE DeltaEngineProofs --------------------------
(***************************************************************************)
(* Theorems about DeltaEngine, for any number of keys, documents, requests *)
(* in flight and workers, any attempt budget and any number of mutations.  *)
(***************************************************************************)
EXTENDS DeltaEngine, FiniteSetTheorems, TLAPS

-----------------------------------------------------------------------------
(* Type correctness.  TypeOK alone is not inductive: a step of an open         *)
(* transaction uses its document and key, a step of a busy worker its job.     *)

TxShaped(t) ==
    /\ t.pc # "idle" => t.doc \in Doc /\ t.operation \in Operation
    /\ t.pc \in {"dependents", "bootstrap"} => t.key \in Key
WorkerShaped(r) == r.pc # "idle" => r.job \in JobId

Shape ==
    /\ TypeOK
    /\ \A c \in Client : TxShaped(tx[c])
    /\ \A w \in Worker : WorkerShaped(worker[w])

\* The rows that sessions start from have the types that TypeOK gives them.
LEMMA RowTypes ==
    /\ IdleTx \in Tx /\ TxShaped(IdleTx)
    /\ IdleWorker \in WorkerState /\ WorkerShaped(IdleWorker)
    /\ NoRow \in Job /\ NewJob \in Job
  BY BoundAssumption DEF IdleTx, Tx, TxShaped, IdleWorker, WorkerState, WorkerShaped,
     NoRow, NewJob, Job, Status, TerminalStatuses, Stamp

\* The initial state is well shaped.
LEMMA InitShape == Init => Shape
<1> SUFFICES ASSUME Init PROVE Shape
  OBVIOUS
<1>1. TypeOK
  BY RowTypes, BoundAssumption DEF Init, TypeOK, Stamp, Document
<1>2. /\ \A c \in Client : TxShaped(tx[c])
      /\ \A w \in Worker : WorkerShaped(worker[w])
  BY RowTypes DEF Init
<1> QED
  BY <1>1, <1>2 DEF Shape

\* A step that only moves one transaction to a well-shaped state keeps the shape.
LEMMA TxMoves ==
    ASSUME Shape, NEW c \in Client, NEW t \in Tx, TxShaped(t),
           tx' = [tx EXCEPT ![c] = t], UNCHANGED <<tables, worker>>
    PROVE  Shape'
<1>1. tx' \in [Client -> Tx] /\ \A d \in Client : TxShaped(tx[d])'
  BY DEF Shape, TypeOK, TxShaped
<1>2. TypeOK'
  BY <1>1 DEF Shape, TypeOK, tables
<1>3. \A w \in Worker : WorkerShaped(worker[w])'
  BY DEF Shape, WorkerShaped
<1> QED
  BY <1>1, <1>2, <1>3 DEF Shape

\* So does a step that moves one worker and writes well-typed rows.
LEMMA WorkerMoves ==
    ASSUME Shape, NEW w \in Worker, NEW r \in WorkerState, WorkerShaped(r),
           worker' = [worker EXCEPT ![w] = r],
           current' \in [Key -> Nat], versions' \in [Key -> Seq(Version)],
           jobs' \in [JobId -> Job],
           UNCHANGED <<revision, docs, keyVersion, artifacts, changeSets, tx>>
    PROVE  Shape'
<1>1. worker' \in [Worker -> WorkerState] /\ \A v \in Worker : WorkerShaped(worker[v])'
  BY DEF Shape, TypeOK, WorkerShaped
<1>2. TypeOK'
  BY <1>1 DEF Shape, TypeOK
<1>3. \A c \in Client : TxShaped(tx[c])'
  BY DEF Shape, TxShaped
<1> QED
  BY <1>1, <1>2, <1>3 DEF Shape

LEMMA LockCaseShape ==
    ASSUME Shape, NEW c \in Client, NEW op \in Operation, NEW d \in Doc,
           LockCase(c, op, d)
    PROVE  Shape'
<1> DEFINE t == [IdleTx EXCEPT !.pc = "touch", !.operation = op, !.doc = d,
                               !.rev = revision + 1]
<1>1. revision \in 0..MaxRevision /\ revision < MaxRevision /\ MaxRevision \in Nat
  BY BoundAssumption DEF Shape, TypeOK, Stamp, LockCase
<1>2. revision + 1 \in Stamp
  BY <1>1 DEF Stamp
<1>3. t \in Tx /\ TxShaped(t)
  BY <1>2 DEF IdleTx, Tx, TxShaped, Operation
<1>4. tx' = [tx EXCEPT ![c] = t] /\ UNCHANGED <<tables, worker>>
  BY DEF LockCase
<1> QED
  BY <1>3, <1>4, TxMoves

\* What is left to touch are keys.
LEMMA UntouchedAreKeys == ASSUME NEW t, t.doc \in Doc PROVE Untouched(t) \subseteq Key
  BY KeysOfAssumption, KeysReadBackAssumption DEF Untouched, AffectedKeys

LEMMA TouchKeyShape == ASSUME Shape, NEW c \in Client, TouchKey(c) PROVE Shape'
<1>1. tx[c] \in Tx /\ tx[c].pc = "touch" /\ TxShaped(tx[c])
  BY DEF Shape, TypeOK, TouchKey
<1>2. tx[c].doc \in Doc
  BY <1>1 DEF TxShaped
<1>3. PICK k \in Untouched(tx[c]) :
        tx' = [tx EXCEPT ![c] = [@ EXCEPT !.pc = "dependents", !.key = k,
                                          !.locked = tx[c].locked \cup {k}]]
  BY DEF TouchKey
<1>4. k \in Key
  BY <1>2, <1>3, UntouchedAreKeys
<1> DEFINE t == [tx[c] EXCEPT !.pc = "dependents", !.key = k, !.locked = tx[c].locked \cup {k}]
<1>5. t \in Tx /\ TxShaped(t)
  BY <1>1, <1>4 DEF Tx, TxShaped
<1>6. tx' = [tx EXCEPT ![c] = t] /\ UNCHANGED <<tables, worker>>
  BY <1>3 DEF TouchKey
<1> QED
  BY <1>5, <1>6, TxMoves

LEMMA ReadDependentsShape ==
    ASSUME Shape, NEW c \in Client, ReadDependents(c) PROVE Shape'
<1> DEFINE found == Dependents(tx[c].key)
           t == [tx[c] EXCEPT !.pc = IF found = {} THEN "bootstrap" ELSE "touch",
                              !.queued = tx[c].queued \cup found]
<1>1. tx[c] \in Tx /\ tx[c].pc = "dependents" /\ TxShaped(tx[c])
  BY DEF Shape, TypeOK, ReadDependents
<1>2. found \subseteq Key
  BY DEF Shape, TypeOK, Dependents
<1> HIDE DEF found
<1>3. t \in Tx /\ TxShaped(t)
  BY <1>1, <1>2 DEF Tx, TxShaped
<1>4. tx' = [tx EXCEPT ![c] = t] /\ UNCHANGED <<tables, worker>>
  BY DEF ReadDependents, found
<1> QED
  BY <1>3, <1>4, TxMoves

LEMMA BootstrapShape == ASSUME Shape, NEW c \in Client, Bootstrap(c) PROVE Shape'
<1> DEFINE k == tx[c].key
           t == [tx[c] EXCEPT
                   !.pc = "touch",
                   !.created = tx[c].created \cup ({k} \ artifacts),
                   !.queued = tx[c].queued \cup (IF current[k] = 0 THEN {k} ELSE {})]
<1>1. tx[c] \in Tx /\ tx[c].pc = "bootstrap" /\ TxShaped(tx[c])
  BY DEF Shape, TypeOK, Bootstrap
<1>2. t \in Tx /\ TxShaped(t)
  BY <1>1 DEF Tx, TxShaped
<1>3. tx' = [tx EXCEPT ![c] = t] /\ UNCHANGED <<tables, worker>>
  BY DEF Bootstrap
<1> QED
  BY <1>2, <1>3, TxMoves

LEMMA CommitShape == ASSUME Shape, NEW c \in Client, Commit(c) PROVE Shape'
<1> DEFINE t == tx[c]
<1>1. t \in Tx /\ t.pc = "touch" /\ TxShaped(t)
  BY DEF Shape, TypeOK, Commit
<1>2. t.doc \in Doc /\ t.operation \in Operation /\ t.rev \in Stamp
      /\ t.locked \subseteq Key /\ t.created \subseteq Key /\ t.queued \subseteq Key
  BY <1>1 DEF TxShaped, Tx
<1>3. docs' \in [Doc -> Document]
  <2>1. docs \in [Doc -> Document]
    BY DEF Shape, TypeOK
  <2> QED
    BY <1>2, <2>1 DEF Commit, Document
<1>4. keyVersion' \in [Key -> Stamp]
  <2>1. keyVersion \in [Key -> Stamp]
    BY DEF Shape, TypeOK
  <2> QED
    BY <1>2, <2>1 DEF Commit
<1>5. artifacts' \subseteq Key /\ revision' \in Stamp
  BY <1>2 DEF Shape, TypeOK, Commit
<1>6. jobs' \in [JobId -> Job]
  <2>1. jobs \in [JobId -> Job]
    BY DEF Shape, TypeOK
  <2> QED
    BY <2>1, RowTypes DEF Commit, JobsWith
<1>7. changeSets' \in Seq(ChangeSet)
  <2>1. IsFiniteSet(artifacts \cup t.created) /\ IsFiniteSet(t.queued)
    BY <1>2, KeyAssumption, FS_Subset, FS_Union DEF Shape, TypeOK
  <2>2. UntouchedArtifacts(t) \in Int
    BY <2>1, FS_CardinalityType DEF UntouchedArtifacts
  <2>3. changeSets \in Seq(ChangeSet)
    BY DEF Shape, TypeOK
  <2>4. [operation |-> t.operation, document |-> t.doc, affected |-> t.locked,
         queued |-> t.queued, untouched |-> UntouchedArtifacts(t)] \in ChangeSet
    BY <1>2, <2>2 DEF ChangeSet, Operation
  <2> QED
    BY <2>3, <2>4 DEF Commit
<1>8. tx' \in [Client -> Tx] /\ \A d \in Client : TxShaped(tx[d])'
  <2>1. tx' = [tx EXCEPT ![c] = IdleTx]
    BY DEF Commit
  <2> QED
    BY <2>1, RowTypes DEF Shape, TypeOK, TxShaped
<1>9. UNCHANGED <<current, versions, worker>>
  BY DEF Commit
<1>10. TypeOK'
  BY <1>3, <1>4, <1>5, <1>6, <1>7, <1>8, <1>9 DEF Shape, TypeOK
<1>11. \A w \in Worker : WorkerShaped(worker[w])'
  BY <1>9 DEF Shape, WorkerShaped
<1> QED
  BY <1>8, <1>10, <1>11 DEF Shape

LEMMA RollbackShape == ASSUME Shape, NEW c \in Client, Rollback(c) PROVE Shape'
<1>1. tx' = [tx EXCEPT ![c] = IdleTx] /\ UNCHANGED <<tables, worker>>
  BY DEF Rollback
<1> QED
  BY <1>1, RowTypes, TxMoves

\* Every step of a mutation keeps the shape.
LEMMA ServiceShape == ASSUME Shape, ServiceNext PROVE Shape'
<1>1. PICK c \in Client : \/ \E op \in Operation, d \in Doc : LockCase(c, op, d)
                          \/ TxStep(c)
                          \/ Rollback(c)
  BY DEF ServiceNext
<1> QED
  BY <1>1, LockCaseShape, TouchKeyShape, ReadDependentsShape, BootstrapShape,
     CommitShape, RollbackShape DEF TxStep

\* The rows that the worker writes have the type of a job.
LEMMA ReleasedTyped ==
    ASSUME Shape, NEW j \in JobId, NEW status \in Status
    PROVE  Released(j, status) \in Job
<1>1. jobs[j] \in Job
  BY DEF Shape, TypeOK
<1>2. 0 \in 0..MaxAttempts
  BY BoundAssumption
<1> QED
  BY <1>1, <1>2 DEF Released, Job

LEMMA SweptTyped == ASSUME Shape PROVE Swept \in [JobId -> Job]
<1>1. "FAILED_PERMANENT" \in Status
  BY DEF Status, TerminalStatuses
<1>2. \A j \in JobId : Released(j, "FAILED_PERMANENT") \in Job
  BY <1>1, ReleasedTyped
<1> QED
  BY <1>2 DEF Swept, Shape, TypeOK

\* A busy worker has a record, a job and that job's row, all of their types.
LEMMA BusyWorker ==
    ASSUME Shape, NEW w \in Worker, Busy(w)
    PROVE  /\ worker[w] \in WorkerState
           /\ worker[w].job \in JobId
           /\ JobKey(w) \in Key /\ Target(w) \in Revision
           /\ worker[w].job = <<JobKey(w), Target(w)>>
           /\ jobs[worker[w].job] \in Job
           /\ keyVersion[JobKey(w)] \in Stamp
<1>1. worker[w] \in WorkerState /\ worker[w].job \in JobId
  BY DEF Shape, TypeOK, Busy, WorkerShaped
<1>2. /\ JobKey(w) \in Key /\ Target(w) \in Revision
      /\ worker[w].job = <<JobKey(w), Target(w)>>
  BY <1>1 DEF JobId, JobKey, Target
<1> QED
  BY <1>1, <1>2 DEF Shape, TypeOK

\* What an exception leaves of a busy worker.
LEMMA UnwoundTyped ==
    ASSUME Shape, NEW w \in Worker, Busy(w), NEW pc \in {"superseding", "failing"},
           NEW retryable \in BOOLEAN
    PROVE  Unwound(w, pc, retryable) \in WorkerState
           /\ WorkerShaped(Unwound(w, pc, retryable))
<1>1. worker[w] \in WorkerState /\ worker[w].job \in JobId
  BY BusyWorker
<1> QED
  BY <1>1, RowTypes DEF Unwound, WorkerState, WorkerShaped

\* A step of a worker that touches no table.
LEMMA WorkerMovesAlone ==
    ASSUME Shape, NEW w \in Worker, NEW r \in WorkerState, WorkerShaped(r),
           worker' = [worker EXCEPT ![w] = r], UNCHANGED <<tables, tx>>
    PROVE  Shape'
<1>1. /\ current' \in [Key -> Nat] /\ versions' \in [Key -> Seq(Version)]
      /\ jobs' \in [JobId -> Job]
  BY DEF Shape, TypeOK, tables
<1> QED
  BY <1>1, WorkerMoves DEF tables

LEMMA SweepShape == ASSUME Shape, NEW w \in Worker, SweepOnly(w) PROVE Shape'
<1>1. jobs' \in [JobId -> Job]
  BY SweptTyped DEF SweepOnly
<1>2. TypeOK'
  BY <1>1 DEF SweepOnly, Shape, TypeOK
<1> QED
  BY <1>2 DEF SweepOnly, Shape, TxShaped, WorkerShaped

LEMMA ClaimShape == ASSUME Shape, NEW w \in Worker, Claim(w) PROVE Shape'
<1>1. PICK j \in FirstInQueue :
        /\ jobs' = [Swept EXCEPT ![j] = [status |-> "RUNNING",
                                         attempts |-> jobs[j].attempts + 1,
                                         lease |-> "LIVE", token |-> NewToken(j)]]
        /\ worker' = [worker EXCEPT ![w] = [IdleWorker EXCEPT
                        !.pc = "claimed", !.job = j, !.token = NewToken(j)]]
  BY DEF Claim
<1> DEFINE r == [IdleWorker EXCEPT !.pc = "claimed", !.job = j, !.token = NewToken(j)]
           row == [status |-> "RUNNING", attempts |-> jobs[j].attempts + 1,
                   lease |-> "LIVE", token |-> NewToken(j)]
<1>2. j \in JobId /\ jobs[j].attempts < MaxAttempts
  BY <1>1 DEF FirstInQueue, Claimable
<1>3. jobs[j].attempts \in 0..MaxAttempts
  BY <1>2 DEF Shape, TypeOK, Job
<1>4. NewToken(j) \in 0..MaxAttempts /\ jobs[j].attempts + 1 \in 0..MaxAttempts
  BY <1>2, <1>3, BoundAssumption DEF NewToken
<1>5. r \in WorkerState /\ WorkerShaped(r)
  BY <1>2, <1>4, RowTypes DEF WorkerState, WorkerShaped
<1>6. row \in Job
  BY <1>4 DEF Job, Status
<1>7. jobs' \in [JobId -> Job]
  BY <1>1, <1>2, <1>6, SweptTyped
<1>8. current' \in [Key -> Nat] /\ versions' \in [Key -> Seq(Version)]
  BY DEF Claim, Shape, TypeOK
<1> QED
  BY <1>1, <1>5, <1>7, <1>8, WorkerMoves DEF Claim

LEMMA ReadFirstShape == ASSUME Shape, NEW w \in Worker, ReadFirst(w) PROVE Shape'
<1>1. Busy(w)
  BY DEF ReadFirst, Busy
<1>2. worker[w] \in WorkerState /\ worker[w].job \in JobId /\ keyVersion[JobKey(w)] \in Stamp
  BY <1>1, BusyWorker
<1>3. CASE keyVersion[JobKey(w)] = Target(w)
  <2> DEFINE r == [worker[w] EXCEPT !.pc = "first_read", !.first = keyVersion[JobKey(w)]]
  <2>1. r \in WorkerState /\ WorkerShaped(r)
    BY <1>2 DEF WorkerState, WorkerShaped
  <2>2. worker' = [worker EXCEPT ![w] = r] /\ UNCHANGED <<tables, tx>>
    BY <1>3 DEF ReadFirst
  <2> QED
    BY <2>1, <2>2, WorkerMovesAlone
<1>4. CASE keyVersion[JobKey(w)] # Target(w)
  <2>1. /\ worker' = [worker EXCEPT ![w] = Unwound(w, "superseding", FALSE)]
        /\ UNCHANGED <<tables, tx>>
    BY <1>4 DEF ReadFirst
  <2> QED
    BY <1>1, <2>1, UnwoundTyped, WorkerMovesAlone
<1> QED
  BY <1>3, <1>4

LEMMA ReadInputsShape == ASSUME Shape, NEW w \in Worker, ReadInputs(w) PROVE Shape'
<1> DEFINE r == [worker[w] EXCEPT !.pc = "inputs_read", !.inputs = ActiveFor(JobKey(w))]
<1>1. Busy(w)
  BY DEF ReadInputs, Busy
<1>2. worker[w] \in WorkerState /\ worker[w].job \in JobId
  BY <1>1, BusyWorker
<1>3. ActiveFor(JobKey(w)) \subseteq Doc
  BY DEF ActiveFor
<1>4. r \in WorkerState /\ WorkerShaped(r)
  BY <1>2, <1>3 DEF WorkerState, WorkerShaped
<1>5. worker' = [worker EXCEPT ![w] = r] /\ UNCHANGED <<tables, tx>>
  BY DEF ReadInputs
<1> QED
  BY <1>4, <1>5, WorkerMovesAlone

LEMMA ReadSecondShape == ASSUME Shape, NEW w \in Worker, ReadSecond(w) PROVE Shape'
<1>1. Busy(w)
  BY DEF ReadSecond, Busy
<1>2. worker[w] \in WorkerState /\ worker[w].job \in JobId
  BY <1>1, BusyWorker
<1>3. CASE keyVersion[JobKey(w)] = worker[w].first
  <2> DEFINE r == [worker[w] EXCEPT !.pc = "computed"]
  <2>1. r \in WorkerState /\ WorkerShaped(r)
    BY <1>2 DEF WorkerState, WorkerShaped
  <2>2. worker' = [worker EXCEPT ![w] = r] /\ UNCHANGED <<tables, tx>>
    BY <1>3 DEF ReadSecond
  <2> QED
    BY <2>1, <2>2, WorkerMovesAlone
<1>4. CASE keyVersion[JobKey(w)] # worker[w].first
  <2>1. /\ worker' = [worker EXCEPT ![w] = Unwound(w, "superseding", FALSE)]
        /\ UNCHANGED <<tables, tx>>
    BY <1>4 DEF ReadSecond
  <2> QED
    BY <1>1, <2>1, UnwoundTyped, WorkerMovesAlone
<1> QED
  BY <1>3, <1>4

\* LockJob and LockKey advance the worker by one state or end its run.
LEMMA LockShape ==
    ASSUME Shape, NEW w \in Worker, LockJob(w) \/ LockKey(w) PROVE Shape'
<1>1. Busy(w)
  BY DEF LockJob, LockKey, Busy
<1>2. worker[w] \in WorkerState /\ worker[w].job \in JobId
  BY <1>1, BusyWorker
<1>3. /\ \/ worker' = [worker EXCEPT ![w] = [worker[w] EXCEPT !.pc = "job_locked"]]
         \/ worker' = [worker EXCEPT ![w] = [worker[w] EXCEPT !.pc = "publishing"]]
         \/ worker' = [worker EXCEPT ![w] = IdleWorker]
      /\ UNCHANGED <<tables, tx>>
  BY DEF LockJob, LockKey
<1>4. \A pc \in {"job_locked", "publishing"} :
        /\ [worker[w] EXCEPT !.pc = pc] \in WorkerState
        /\ WorkerShaped([worker[w] EXCEPT !.pc = pc])
  BY <1>2 DEF WorkerState, WorkerShaped
<1> QED
  BY <1>3, <1>4, RowTypes, WorkerMovesAlone

\* The end of a publication transaction, whatever becomes of its answer.
LEMMA RunEndsShape ==
    ASSUME Shape, NEW w \in Worker, Busy(w), RunEnds(w),
           current' \in [Key -> Nat], versions' \in [Key -> Seq(Version)],
           jobs' \in [JobId -> Job],
           UNCHANGED <<revision, docs, keyVersion, artifacts, changeSets, tx>>
    PROVE  Shape'
<1>1. CASE worker' = [worker EXCEPT ![w] = IdleWorker]
  BY <1>1, RowTypes, WorkerMoves
<1>2. CASE worker' = [worker EXCEPT ![w] = Unwound(w, "failing", TRUE)]
  BY <1>2, UnwoundTyped, WorkerMoves
<1> QED
  BY <1>1, <1>2 DEF RunEnds

LEMMA LockKeyTooLateShape ==
    ASSUME Shape, NEW w \in Worker, LockKeyTooLate(w) PROVE Shape'
<1>1. Busy(w)
  BY DEF LockKeyTooLate, Busy
<1>2. worker[w].job \in JobId /\ "SUPERSEDED" \in Status
  BY <1>1, BusyWorker DEF Status, TerminalStatuses
<1>3. jobs' \in [JobId -> Job]
  BY <1>2, ReleasedTyped DEF LockKeyTooLate, Shape, TypeOK
<1>4. current' \in [Key -> Nat] /\ versions' \in [Key -> Seq(Version)]
  BY DEF LockKeyTooLate, Shape, TypeOK
<1> QED
  BY <1>1, <1>3, <1>4, RunEndsShape DEF LockKeyTooLate

LEMMA PublishShape == ASSUME Shape, NEW w \in Worker, Publish(w) PROVE Shape'
<1> DEFINE j == worker[w].job
           k == JobKey(w)
           new == [job |-> Target(w), change_key |-> k,
                   observed |-> worker[w].first, payload |-> worker[w].inputs]
<1>1. Busy(w)
  BY DEF Publish, Busy
<1>2. /\ worker[w] \in WorkerState /\ j \in JobId /\ k \in Key
      /\ Target(w) \in Revision /\ j = <<k, Target(w)>>
  BY <1>1, BusyWorker
<1>3. "SUCCEEDED" \in Status
  BY DEF Status, TerminalStatuses
<1>4. jobs' \in [JobId -> Job]
  BY <1>2, <1>3, ReleasedTyped DEF Publish, Shape, TypeOK
<1>5. new \in Version
  BY <1>2 DEF Version, WorkerState
<1>6. versions[k] \in Seq(Version) /\ Len(versions[k]) \in Nat
  BY <1>2 DEF Shape, TypeOK
<1>7. versions' \in [Key -> Seq(Version)]
  <2>1. versions' = versions \/ versions' = [versions EXCEPT ![k] = Append(versions[k], new)]
    BY DEF Publish
  <2>2. Append(versions[k], new) \in Seq(Version)
    BY <1>5, <1>6
  <2> QED
    BY <2>1, <2>2 DEF Shape, TypeOK
<1>8. current' \in [Key -> Nat]
  <2>1. CASE Existing(j) = {}
    BY <2>1, <1>6 DEF Publish, Shape, TypeOK
  <2>2. CASE Existing(j) # {}
    <3>1. (CHOOSE n \in Existing(j) : TRUE) \in Existing(j)
      BY <2>2
    <3>2. Existing(j) \subseteq Nat
      BY <1>2, <1>6 DEF Existing
    <3>3. current' = [current EXCEPT ![k] = CHOOSE n \in Existing(j) : TRUE]
      BY <2>2 DEF Publish
    <3> QED
      BY <3>1, <3>2, <3>3 DEF Shape, TypeOK
  <2> QED
    BY <2>1, <2>2
<1>9. RunEnds(w) /\ UNCHANGED <<revision, docs, keyVersion, artifacts, changeSets, tx>>
  BY DEF Publish
<1> QED
  BY <1>1, <1>4, <1>7, <1>8, <1>9, RunEndsShape

LEMMA FailShape == ASSUME Shape, NEW w \in Worker, Fail(w) PROVE Shape'
<1>1. Busy(w)
  BY DEF Fail, Busy
<1>2. PICK retryable \in BOOLEAN :
        worker' = [worker EXCEPT ![w] = Unwound(w, "failing", retryable)]
  BY DEF Fail
<1>3. UNCHANGED <<tables, tx>>
  BY DEF Fail
<1> QED
  BY <1>1, <1>2, <1>3, UnwoundTyped, WorkerMovesAlone

LEMMA SettleShape ==
    ASSUME Shape, NEW w \in Worker, Busy(w), NEW status \in Status, Settle(w, status)
    PROVE  Shape'
<1>1. jobs' \in [JobId -> Job]
  BY BusyWorker, ReleasedTyped DEF Settle, Shape, TypeOK
<1>2. worker' = [worker EXCEPT ![w] = IdleWorker]
      /\ UNCHANGED <<revision, docs, keyVersion, artifacts, current, versions,
                     changeSets, tx>>
  BY DEF Settle
<1>3. current' \in [Key -> Nat] /\ versions' \in [Key -> Seq(Version)]
  BY <1>2 DEF Shape, TypeOK
<1> QED
  BY <1>1, <1>2, <1>3, RowTypes, WorkerMoves

LEMMA LeaseExpiresShape == ASSUME Shape, NEW j \in JobId, LeaseExpires(j) PROVE Shape'
<1>1. [jobs[j] EXCEPT !.lease = "EXPIRED"] \in Job
  BY DEF Shape, TypeOK, Job
<1>2. jobs' \in [JobId -> Job]
  BY <1>1 DEF LeaseExpires, Shape, TypeOK
<1>3. TypeOK'
  BY <1>2 DEF LeaseExpires, Shape, TypeOK
<1> QED
  BY <1>3 DEF LeaseExpires, Shape, TxShaped, WorkerShaped

\* Nothing changes: nothing loses its shape.
LEMMA StutterShape == ASSUME Shape, UNCHANGED vars PROVE Shape'
  BY DEF Shape, TypeOK, TxShaped, WorkerShaped, vars

\* Every step of a worker, and the clock, keep the shape.
LEMMA WorkerShape == ASSUME Shape, WorkerNext PROVE Shape'
<1>1. ASSUME NEW w \in Worker, WorkerStep(w) PROVE Shape'
  <2>1. CASE MarkSuperseded(w)
    BY <2>1, SettleShape DEF MarkSuperseded, Busy, Status, TerminalStatuses
  <2>2. CASE RecordFailure(w)
    BY <2>2, SettleShape DEF RecordFailure, Busy, Status, TerminalStatuses
  <2> QED
    BY <1>1, <2>1, <2>2, SweepShape, ClaimShape, ReadFirstShape, ReadInputsShape,
       ReadSecondShape, LockShape, LockKeyTooLateShape, PublishShape DEF WorkerStep
<1>2. ASSUME NEW w \in Worker, Crash(w) PROVE Shape'
  BY <1>2, RowTypes, WorkerMovesAlone DEF Crash
<1>3. ASSUME NEW w \in Worker, PollEmpty(w) PROVE Shape'
  BY <1>3, StutterShape DEF PollEmpty
<1> QED
  BY <1>1, <1>2, <1>3, FailShape, LeaseExpiresShape DEF WorkerNext

\* Every reachable state of the engine is of the types that TypeOK states: in
\* particular attempts never exceed the budget and every version has its job.
THEOREM TypeCorrect == Spec => []TypeOK
<1>1. Init => Shape
  BY InitShape
<1>2. Shape /\ [Next]_vars => Shape'
  BY ServiceShape, WorkerShape, StutterShape DEF Next
<1>3. Shape => TypeOK
  BY DEF Shape
<1> QED
  BY <1>1, <1>2, <1>3, PTL DEF Spec

=============================================================================
