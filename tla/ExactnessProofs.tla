--------------------------- MODULE ExactnessProofs ---------------------------
(***************************************************************************)
(* That the tables of a case tell one story: the ledger of its mutations,  *)
(* the jobs and keys they touch, and what the timelines show of it.  What  *)
(* speaks of the keys of a retraction needs sessions in UTC, the rest does *)
(* not.  And that the engine implements TimelineView, and CaseAnalysis,    *)
(* whose documents are received and retracted when mutations commit.       *)
(***************************************************************************)
EXTENDS QueueProofs

\* Only the commit of a mutation writes the tables of evidence and keys.
LEMMA OnlyCommitWrites ==
    ASSUME [Next]_vars
    PROVE  \/ \E c \in Client : Commit(c)
           \/ UNCHANGED <<revision, docs, keyVersion, artifacts, changeSets>>
<1>1. CASE ServiceNext
  BY <1>1 DEF ServiceNext, LockCase, TxStep, TouchKey, ReadDependents, Bootstrap, Rollback,
     tables
<1>2. ASSUME NEW w \in Worker, WorkerStep(w) \/ PollEmpty(w) \/ Fail(w) \/ Crash(w)
      PROVE  UNCHANGED <<revision, docs, keyVersion, artifacts, changeSets>>
  BY <1>2 DEF WorkerStep, SweepOnly, Claim, PollEmpty, ReadFirst, ReadInputs, ReadSecond,
     LockJob, LockKey, LockKeyTooLate, Publish, MarkSuperseded, RecordFailure, Settle, Fail,
     Crash, tables, vars
<1>3. CASE WorkerNext
  BY <1>2, <1>3 DEF WorkerNext, LeaseExpires
<1> QED
  BY <1>1, <1>3 DEF Next, vars

\* Only a publication writes versions, or makes one current.
LEMMA OnlyPublishWrites ==
    ASSUME [Next]_vars PROVE (\E w \in Worker : Publish(w)) \/ UNCHANGED <<versions, current>>
<1>1. CASE ServiceNext
  BY <1>1 DEF ServiceNext, LockCase, TxStep, TouchKey, ReadDependents, Bootstrap, Commit,
     Rollback, tables
<1>2. ASSUME NEW w \in Worker, WorkerStep(w) \/ PollEmpty(w) \/ Fail(w) \/ Crash(w)
      PROVE  Publish(w) \/ UNCHANGED <<versions, current>>
  BY <1>2 DEF WorkerStep, SweepOnly, Claim, PollEmpty, ReadFirst, ReadInputs, ReadSecond,
     LockJob, LockKey, LockKeyTooLate, MarkSuperseded, RecordFailure, Settle, Fail, Crash,
     tables, vars
<1>3. CASE WorkerNext
  BY <1>2, <1>3 DEF WorkerNext, LeaseExpires
<1> QED
  BY <1>1, <1>3 DEF Next, vars

-----------------------------------------------------------------------------
(* The ledger                                                                  *)

\* What a commit adds to the ledger: a change set at the next revision, and the stamp
\* of one document, which had none of its kind.
LEMMA CommitRecords ==
    ASSUME QueueInv, Len(changeSets) = revision, NEW c \in Client, Commit(c)
    PROVE  LET t == tx[c]
           IN  /\ t.rev = Len(changeSets) + 1 /\ revision' = t.rev /\ Len(changeSets) \in Nat
               /\ Len(changeSets') = t.rev
               /\ changeSets'[t.rev].operation = t.operation
               /\ changeSets'[t.rev].document = t.doc
               /\ changeSets'[t.rev].affected = t.locked
               /\ changeSets'[t.rev].queued = t.queued
               /\ changeSets'[t.rev].untouched = UntouchedArtifacts(t)
               /\ DOMAIN changeSets = 1..Len(changeSets) /\ DOMAIN changeSets' = 1..t.rev
               /\ \A r \in 1..Len(changeSets) : changeSets'[r] = changeSets[r]
               /\ t.doc \in Doc /\ t.operation \in Operation /\ NotRecorded(t.operation, t.doc)
               /\ \A d \in Doc :
                    /\ docs'[d].added = IF t.operation = "ADD_DOCUMENT" /\ d = t.doc
                                          THEN t.rev ELSE docs[d].added
                    /\ docs'[d].retracted = IF t.operation = "RETRACT_DOCUMENT" /\ d = t.doc
                                              THEN t.rev ELSE docs[d].retracted
<1> DEFINE t == tx[c]
           entry == [operation |-> t.operation, document |-> t.doc, affected |-> t.locked,
                     queued |-> t.queued, untouched |-> UntouchedArtifacts(t)]
<1>1. /\ t.rev = revision + 1 /\ t.doc \in Doc /\ NotRecorded(t.operation, t.doc)
  BY CommitWrites
<1>2. /\ changeSets' = Append(changeSets, entry) /\ revision' = t.rev
      /\ docs' = IF t.operation = "ADD_DOCUMENT"
                   THEN [docs EXCEPT ![t.doc].added = t.rev]
                   ELSE [docs EXCEPT ![t.doc].retracted = t.rev]
  BY DEF Commit
<1>3. changeSets \in Seq(ChangeSet) /\ docs \in [Doc -> Document]
  BY DEF QueueInv, Shape, TypeOK
<1>4. changeSets' \in Seq(ChangeSet)
  BY CommitShape DEF QueueInv, Shape, TypeOK
<1>5. t.operation \in Operation
  BY <1>1 DEF NotRecorded, Operation
<1> HIDE DEF entry
<1>6. /\ Len(changeSets) \in Nat /\ Len(changeSets') = t.rev
      /\ DOMAIN changeSets = 1..Len(changeSets) /\ DOMAIN changeSets' = 1..t.rev
      /\ \A r \in 1..Len(changeSets) : changeSets'[r] = changeSets[r]
  BY <1>1, <1>2, <1>3, <1>4
<1>7. /\ changeSets'[t.rev].operation = t.operation
      /\ changeSets'[t.rev].document = t.doc
      /\ changeSets'[t.rev].affected = t.locked
      /\ changeSets'[t.rev].queued = t.queued
      /\ changeSets'[t.rev].untouched = UntouchedArtifacts(t)
  <2>1. changeSets'[t.rev] = entry
    BY <1>1, <1>2, <1>3
  <2> QED
    BY <2>1 DEF entry
<1>8. ASSUME NEW d \in Doc
      PROVE  /\ docs'[d].added = IF t.operation = "ADD_DOCUMENT" /\ d = t.doc
                                   THEN t.rev ELSE docs[d].added
             /\ docs'[d].retracted = IF t.operation = "RETRACT_DOCUMENT" /\ d = t.doc
                                       THEN t.rev ELSE docs[d].retracted
  <2>1. docs[d] \in Document
    BY <1>3
  <2>2. CASE t.operation = "ADD_DOCUMENT"
    BY <1>2, <1>3, <2>1, <2>2 DEF Document
  <2>3. CASE t.operation = "RETRACT_DOCUMENT"
    BY <1>2, <1>3, <2>1, <2>3 DEF Document
  <2> QED
    BY <1>5, <2>2, <2>3 DEF Operation
<1> QED
  BY <1>1, <1>2, <1>5, <1>6, <1>7, <1>8

LEMMA LedgerInit == Init => LedgerTellsOneStory
<1> SUFFICES ASSUME Init PROVE LedgerTellsOneStory
  OBVIOUS
<1>1. changeSets = <<>> /\ revision = 0
      /\ \A d \in Doc : docs[d].added = 0 /\ docs[d].retracted = 0
  BY DEF Init
<1>2. \A r \in Revision : r # 0 /\ r \notin DOMAIN changeSets
  BY <1>1 DEF Revision
<1> QED
  BY <1>1, <1>2 DEF LedgerTellsOneStory

LEMMA LedgerNext ==
    ASSUME QueueInv, LedgerTellsOneStory, [Next]_vars PROVE LedgerTellsOneStory'
<1>1. CASE UNCHANGED <<revision, docs, keyVersion, artifacts, changeSets>>
  BY <1>1 DEF LedgerTellsOneStory
<1>2. ASSUME NEW c \in Client, Commit(c) PROVE LedgerTellsOneStory'
  <2> DEFINE t == tx[c]
  <2>1. Len(changeSets) = revision
    BY DEF LedgerTellsOneStory
  <2>2. /\ t.rev = Len(changeSets) + 1 /\ revision' = t.rev /\ Len(changeSets) \in Nat
        /\ Len(changeSets') = t.rev /\ t.doc \in Doc /\ t.operation \in Operation
        /\ changeSets'[t.rev].operation = t.operation /\ changeSets'[t.rev].document = t.doc
        /\ DOMAIN changeSets = 1..Len(changeSets) /\ DOMAIN changeSets' = 1..t.rev
        /\ \A r \in 1..Len(changeSets) : changeSets'[r] = changeSets[r]
        /\ NotRecorded(t.operation, t.doc)
    BY <1>2, <2>1, CommitRecords
  <2>3. ASSUME NEW d \in Doc, NEW r \in Revision
        PROVE  /\ docs'[d].added = r <=> /\ r \in DOMAIN changeSets'
                                         /\ changeSets'[r].operation = "ADD_DOCUMENT"
                                         /\ changeSets'[r].document = d
               /\ docs'[d].retracted = r <=> /\ r \in DOMAIN changeSets'
                                             /\ changeSets'[r].operation = "RETRACT_DOCUMENT"
                                             /\ changeSets'[r].document = d
    <3>1. /\ docs'[d].added = IF t.operation = "ADD_DOCUMENT" /\ d = t.doc
                                THEN t.rev ELSE docs[d].added
          /\ docs'[d].retracted = IF t.operation = "RETRACT_DOCUMENT" /\ d = t.doc
                                    THEN t.rev ELSE docs[d].retracted
      BY <1>2, <2>1, CommitRecords
    <3>2. /\ docs[d].added = r <=> /\ r \in DOMAIN changeSets
                                   /\ changeSets[r].operation = "ADD_DOCUMENT"
                                   /\ changeSets[r].document = d
          /\ docs[d].retracted = r <=> /\ r \in DOMAIN changeSets
                                       /\ changeSets[r].operation = "RETRACT_DOCUMENT"
                                       /\ changeSets[r].document = d
      BY DEF LedgerTellsOneStory
    <3>3. r # 0 /\ (r \in DOMAIN changeSets' <=> r \in DOMAIN changeSets \/ r = t.rev)
          /\ t.rev \notin DOMAIN changeSets
      BY <2>2 DEF Revision
    <3>4. r \in DOMAIN changeSets => changeSets'[r] = changeSets[r]
      BY <2>2
    <3>5. /\ t.operation = "ADD_DOCUMENT" /\ d = t.doc => docs[d].added = 0
          /\ t.operation = "RETRACT_DOCUMENT" /\ d = t.doc => docs[d].retracted = 0
      BY <2>2 DEF NotRecorded
    <3> HIDE DEF t
    <3> QED
      BY <2>2, <3>1, <3>2, <3>3, <3>4, <3>5 DEF Operation
  <2> QED
    BY <2>2, <2>3 DEF LedgerTellsOneStory
<1> QED
  BY <1>1, <1>2, OnlyCommitWrites

\* What was never recorded was not retracted either.
RetractedWasAdded(d) == docs[d].added = 0 => docs[d].retracted = 0

LEMMA RetractionsAreOfRecords ==
    ASSUME QueueInv, [Next]_vars, NEW d \in Doc, RetractedWasAdded(d)
    PROVE  RetractedWasAdded(d)'
<1>1. CASE UNCHANGED docs
  BY <1>1 DEF RetractedWasAdded
<1>2. ASSUME NEW c \in Client, Commit(c) PROVE RetractedWasAdded(d)'
  <2> DEFINE t == tx[c]
  <2>1. /\ t.rev \in Nat \ {0} /\ NotRecorded(t.operation, t.doc)
        /\ docs \in [Doc -> Document] /\ docs[d] \in Document
        /\ docs' = IF t.operation = "ADD_DOCUMENT"
                     THEN [docs EXCEPT ![t.doc].added = t.rev]
                     ELSE [docs EXCEPT ![t.doc].retracted = t.rev]
    <3>2. t.rev \in Nat \ {0} /\ NotRecorded(t.operation, t.doc)
      BY <1>2, CommitWrites, BoundAssumption DEF Revision
    <3>3. docs \in [Doc -> Document]
      BY DEF QueueInv, Shape, TypeOK
    <3> QED
      BY <1>2, <3>2, <3>3 DEF Commit
  <2>2. CASE d # t.doc
    BY <2>1, <2>2 DEF RetractedWasAdded
  <2>3. CASE d = t.doc /\ t.operation = "ADD_DOCUMENT"
    BY <2>1, <2>3 DEF Document, RetractedWasAdded
  <2>4. CASE d = t.doc /\ t.operation # "ADD_DOCUMENT"
    BY <2>1, <2>4 DEF Document, RetractedWasAdded, NotRecorded
  <2> QED
    BY <2>2, <2>3, <2>4
<1> QED
  BY <1>1, <1>2, OnlyCommitWrites

\* One change set for each revision, and source rows and tombstones that agree with it,
\* in any time zone and however many requests carry the same document (ingest_document
\* and retract_document check after they have locked the case).
THEOREM LedgerIsOneStory == Spec => []LedgerTellsOneStory
<1>1. QueueInv /\ LedgerTellsOneStory /\ [Next]_vars => LedgerTellsOneStory'
  BY LedgerNext
<1> QED
  BY <1>1, LedgerInit, QueueInvHolds, PTL DEF Spec
-----------------------------------------------------------------------------
(* Invalidation                                                                *)

\* What a step that commits no mutation may do to the status of a job.
JobMove(j) ==
    LET before == jobs[j].status
        after == jobs'[j].status
    IN  \/ after = before
        \/ before \in {"QUEUED", "RUNNING"} /\ after \in {"QUEUED", "RUNNING"}
        \/ before = "RUNNING" /\ after = "FAILED_PERMANENT"
        \/ before = "RUNNING" /\ after = "SUPERSEDED" /\ j[2] < keyVersion[j[1]]
        \/ /\ before = "RUNNING" /\ after = "SUCCEEDED"
           /\ \E w \in Worker : Publish(w) /\ worker[w].job = j

\* A worker moves the job that it runs and no other.
LEMMA OwnJobMoves ==
    ASSUME QueueInv, NEW w \in Worker, Busy(w), NEW status \in Status,
           jobs' = [jobs EXCEPT ![worker[w].job] = Released(worker[w].job, status)],
           jobs[worker[w].job].status = "RUNNING",
           \/ status \in {"QUEUED", "FAILED_PERMANENT"}
           \/ status = "SUPERSEDED" /\ Target(w) < keyVersion[JobKey(w)]
           \/ status = "SUCCEEDED" /\ Publish(w)
    PROVE  \A j \in JobId : JobMove(j)
<1>1. worker[w].job \in JobId /\ jobs \in [JobId -> Job]
  BY BusySound DEF QueueInv, Shape, TypeOK
<1>2. /\ jobs'[worker[w].job].status = status
      /\ \A j \in JobId \ {worker[w].job} : jobs'[j] = jobs[j]
  BY <1>1 DEF Released, Job
<1>3. JobMove(worker[w].job)
  BY <1>2 DEF JobMove, JobKey, Target
<1> QED
  BY <1>2, <1>3 DEF JobMove

LEMMA SweepMoves ==
    ASSUME QueueInv, NEW j \in JobId, jobs'[j] = Swept[j] PROVE JobMove(j)
  BY SweptRows DEF JobMove

\* Apart from commits, jobs move as their status says.
LEMMA JobsMoveByStatus ==
    ASSUME QueueInv, [Next]_vars
    PROVE  (\E c \in Client : Commit(c)) \/ (\A j \in JobId : JobMove(j))
<1>1. ASSUME UNCHANGED jobs PROVE \A j \in JobId : JobMove(j)
  BY <1>1 DEF JobMove
<1>2. ASSUME NEW w \in Worker, SweepOnly(w) PROVE \A j \in JobId : JobMove(j)
  BY <1>2, SweepMoves DEF SweepOnly
<1>3. ASSUME NEW w \in Worker, Claim(w) PROVE \A j \in JobId : JobMove(j)
  <2>1. Swept \in [JobId -> Job]
    BY SweptTyped DEF QueueInv
  <2>2. PICK i, row : /\ i \in JobId
                      /\ row.status = "RUNNING" /\ jobs[i].status \in {"QUEUED", "RUNNING"}
                      /\ jobs' = [Swept EXCEPT ![i] = row]
    BY <1>3 DEF Claim, FirstInQueue, Claimable, LeaseOver
  <2>3. jobs'[i].status = "RUNNING" /\ \A j \in JobId \ {i} : jobs'[j] = Swept[j]
    BY <2>1, <2>2
  <2>4. JobMove(i)
    BY <2>2, <2>3 DEF JobMove
  <2> QED
    BY <2>3, <2>4, SweepMoves
<1>4. ASSUME NEW w \in Worker, LockKeyTooLate(w) PROVE \A j \in JobId : JobMove(j)
  <2>1. /\ Busy(w) /\ worker[w].pc = "job_locked" /\ keyVersion[JobKey(w)] # worker[w].first
        /\ jobs' = [jobs EXCEPT ![worker[w].job] = Released(worker[w].job, "SUPERSEDED")]
    BY <1>4 DEF LockKeyTooLate, KeyUnchanged, Busy
  <2>2. /\ WorkerSound(w) /\ Target(w) \in Nat /\ keyVersion[JobKey(w)] \in Nat
        /\ Target(w) <= keyVersion[JobKey(w)]
    BY <2>1, BusySound
  <2>3. jobs[worker[w].job].status = "RUNNING" /\ worker[w].first = Target(w)
    BY <2>1, <2>2 DEF WorkerSound, HoldsJob, Reading, Target
  <2>4. Target(w) < keyVersion[JobKey(w)] /\ "SUPERSEDED" \in Status
    BY <2>1, <2>2, <2>3 DEF Status, TerminalStatuses
  <2> QED
    BY <2>1, <2>3, <2>4, OwnJobMoves
<1>5. ASSUME NEW w \in Worker, Publish(w) PROVE \A j \in JobId : JobMove(j)
  <2>1. /\ Busy(w) /\ "SUCCEEDED" \in Status
        /\ jobs' = [jobs EXCEPT ![worker[w].job] = Released(worker[w].job, "SUCCEEDED")]
    BY <1>5 DEF Publish, Busy, Status, TerminalStatuses
  <2>2. jobs[worker[w].job].status = "RUNNING"
    BY <1>5, PublishWrites
  <2> QED
    BY <1>5, <2>1, <2>2, OwnJobMoves
<1>6. ASSUME NEW w \in Worker, MarkSuperseded(w) \/ RecordFailure(w)
      PROVE  \A j \in JobId : JobMove(j)
  <2>1. Busy(w)
    BY <1>6 DEF MarkSuperseded, RecordFailure, Busy
  <2>2. PICK status \in {"SUPERSEDED", "FAILED_PERMANENT", "QUEUED"} :
          Settle(w, status) /\ (status = "SUPERSEDED" => worker[w].pc = "superseding")
    BY <1>6 DEF MarkSuperseded, RecordFailure
  <2>3. status \in Status
    BY DEF Status, TerminalStatuses
  <2>4. status = "SUPERSEDED" => Target(w) < keyVersion[JobKey(w)]
    BY <2>1, <2>2, BusySound DEF WorkerSound, JobKey, Target
  <2>5. CASE OwnsClaim(w)
    BY <2>1, <2>2, <2>3, <2>4, <2>5, OwnJobMoves DEF Settle, OwnsClaim
  <2>6. CASE ~OwnsClaim(w)
    BY <1>1, <2>2, <2>6 DEF Settle
  <2> QED
    BY <2>5, <2>6
<1>7. ASSUME NEW j \in JobId, LeaseExpires(j) PROVE \A i \in JobId : JobMove(i)
  <2>1. jobs \in [JobId -> Job] /\ jobs' = [jobs EXCEPT ![j].lease = "EXPIRED"]
    BY <1>7 DEF LeaseExpires, QueueInv, Shape, TypeOK
  <2>2. \A i \in JobId : jobs'[i].status = jobs[i].status
    BY <2>1 DEF Job
  <2> QED
    BY <2>2 DEF JobMove
<1>8. CASE ServiceNext
  <2>1. PICK c \in Client : Commit(c) \/ UNCHANGED jobs
    BY <1>8 DEF ServiceNext, LockCase, TxStep, TouchKey, ReadDependents, Bootstrap, Rollback,
       tables
  <2> QED
    BY <1>1, <2>1
<1>9. CASE WorkerNext
  <2>1. ASSUME NEW w \in Worker, WorkerStep(w) \/ PollEmpty(w) \/ Fail(w) \/ Crash(w)
        PROVE  \A j \in JobId : JobMove(j)
    <3>1. CASE ReadFirst(w) \/ ReadInputs(w) \/ ReadSecond(w) \/ LockJob(w) \/ LockKey(w)
               \/ PollEmpty(w) \/ Fail(w) \/ Crash(w)
      BY <1>1, <3>1 DEF ReadFirst, ReadInputs, ReadSecond, LockJob, LockKey, PollEmpty, Fail,
         Crash, tables, vars
    <3> QED
      BY <1>2, <1>3, <1>4, <1>5, <1>6, <2>1, <3>1 DEF WorkerStep
  <2> QED
    BY <1>7, <1>9, <2>1 DEF WorkerNext
<1>10. CASE UNCHANGED vars
  BY <1>1, <1>10 DEF vars
<1> QED
  BY <1>8, <1>9, <1>10 DEF Next

\* Rows of jobs appear in the commit of a mutation and never go.
LEMMA JobsAppearAtCommits ==
    ASSUME QueueInv, [Next]_vars
    PROVE  \/ \E c \in Client : Commit(c)
           \/ \A j \in JobId : Exists(j)' <=> Exists(j)
  BY JobsMoveByStatus DEF JobMove, Exists

\* The timelines that the first r mutations have touched.
TouchedBy(r) == UNION {changeSets[s].affected : s \in 1..r}

\* The count that a change set carries is about the artifacts of its moment, so the
\* invariant also says which those are: the timelines touched so far.
InvalidationInv ==
    /\ Len(changeSets) = revision
    /\ artifacts = TouchedBy(revision)
    /\ InvalidationExact

\* What a mutation counts as untouched are the artifacts that it has not locked.
LEMMA UntouchedCounted ==
    ASSUME QueueInv, NEW c \in Client, Commit(c)
    PROVE  UntouchedArtifacts(tx[c]) = Cardinality(artifacts' \ tx[c].locked)
<1> DEFINE all == artifacts \cup tx[c].created
           locked == tx[c].locked
<1>1. /\ tx[c].queued = locked /\ artifacts' = artifacts \cup locked /\ artifacts' = all
      /\ locked \subseteq Key
  BY CommitWrites DEF Commit
<1>2. locked \subseteq all /\ all \subseteq Key
  BY <1>1 DEF QueueInv, Shape, TypeOK
<1>3. IsFiniteSet(all)
  BY <1>2, KeyAssumption, FS_Subset
<1> HIDE DEF all, locked
<1>4. all \cap locked = locked
  BY <1>2
<1>5. Cardinality(all \ locked) = Cardinality(all) - Cardinality(all \cap locked)
  BY <1>3, FS_Difference
<1>6. UntouchedArtifacts(tx[c]) = Cardinality(all) - Cardinality(locked)
  BY <1>1 DEF UntouchedArtifacts, all
<1> QED
  BY <1>1, <1>4, <1>5, <1>6 DEF locked

LEMMA InvalidationInit == Init => InvalidationInv
<1> SUFFICES ASSUME Init PROVE InvalidationInv
  OBVIOUS
<1>1. /\ changeSets = <<>> /\ revision = 0 /\ artifacts = {}
      /\ \A j \in JobId : jobs[j].status = "NO_ROW"
  BY DEF Init, NoRow
<1>2. DOMAIN changeSets = {} /\ Len(changeSets) = 0
  BY <1>1
<1>3. TouchedBy(revision) = {}
  BY <1>1 DEF TouchedBy
<1> QED
  BY <1>1, <1>2, <1>3 DEF InvalidationInv, InvalidationExact, Exists

LEMMA InvalidationNext ==
    ASSUME SessionsInUTC, QueueInv, InvalidationInv, [Next]_vars PROVE InvalidationInv'
<1>1. CASE /\ UNCHANGED <<revision, docs, keyVersion, artifacts, changeSets>>
           /\ \A j \in JobId : Exists(j)' <=> Exists(j)
  <2>1. TouchedBy(revision)' = TouchedBy(revision)
    BY <1>1 DEF TouchedBy
  <2>2. \A j \in JobId :
          Exists(j)' <=> /\ j[2] \in DOMAIN changeSets
                         /\ j[1] \in KeysOf[changeSets[j[2]].document]
    BY <1>1 DEF InvalidationInv, InvalidationExact
  <2>3. InvalidationExact'
    BY <1>1, <2>2 DEF InvalidationInv, InvalidationExact
  <2> QED
    BY <1>1, <2>1, <2>3 DEF InvalidationInv
<1>2. ASSUME NEW c \in Client, Commit(c) PROVE InvalidationInv'
  <2> DEFINE t == tx[c]
             n == Len(changeSets)
  <2>1. n = revision
    BY DEF InvalidationInv
  <2>2. /\ t.rev = n + 1 /\ revision' = t.rev /\ n \in Nat
        /\ Len(changeSets') = t.rev /\ t.doc \in Doc
        /\ DOMAIN changeSets = 1..n /\ DOMAIN changeSets' = 1..t.rev
        /\ \A r \in 1..n : changeSets'[r] = changeSets[r]
    BY <1>2, <2>1, CommitRecords
  <2>3. /\ changeSets'[t.rev].document = t.doc /\ changeSets'[t.rev].affected = t.locked
        /\ changeSets'[t.rev].queued = t.queued
        /\ changeSets'[t.rev].untouched = UntouchedArtifacts(t)
    BY <1>2, <2>1, CommitRecords
  <2>4. /\ t.locked = KeysOf[t.doc] /\ t.queued = t.locked
        /\ artifacts' = artifacts \cup t.locked
    BY <1>2, CommitWrites DEF AffectedKeys, SessionsInUTC
  <2>5. UntouchedArtifacts(t) = Cardinality(artifacts' \ t.locked)
    BY <1>2, UntouchedCounted
  <2>6. ASSUME NEW r \in 1..n PROVE TouchedBy(r)' = TouchedBy(r)
    <3>1. \A s \in 1..r : changeSets'[s] = changeSets[s]
      BY <2>2
    <3> QED
      BY <3>1 DEF TouchedBy
  <2>7. ASSUME NEW r \in Nat, r = t.rev PROVE TouchedBy(r)' = artifacts'
    <3>1. \A s \in 1..r : s \in 1..n \/ s = r
      BY <2>2, <2>7
    <3>2. r \in 1..r /\ (\A s \in 1..n : s \in 1..r) /\ changeSets'[r].affected = t.locked
      BY <2>2, <2>3, <2>7
    <3>3. artifacts = UNION {changeSets'[s].affected : s \in 1..n}
      BY <2>1, <2>2 DEF InvalidationInv, TouchedBy
    <3> HIDE DEF n, t
    <3> QED
      BY <2>4, <3>1, <3>2, <3>3 DEF TouchedBy
  <2>8. ASSUME NEW j \in JobId
        PROVE  Exists(j)' <=> /\ j[2] \in DOMAIN changeSets'
                              /\ j[1] \in KeysOf[changeSets'[j[2]].document]
    <3>1. Exists(j) <=> j[2] \in DOMAIN changeSets /\ j[1] \in KeysOf[changeSets[j[2]].document]
      BY DEF InvalidationInv, InvalidationExact
    <3>2. /\ Exists(j) => jobs'[j] = jobs[j]
          /\ ~Exists(j) => jobs'[j] = IF j[1] \in t.locked /\ j[2] = t.rev THEN NewJob
                                                                        ELSE jobs[j]
      BY <1>2, CommitWrites
    <3>3. j[2] \in Nat \ {0}
      BY DEF JobId, Revision
    <3>4. CASE j[2] \in 1..n
      <4>1. j[2] # t.rev /\ j[2] \in DOMAIN changeSets' /\ changeSets'[j[2]] = changeSets[j[2]]
        BY <2>2, <3>4
      <4> QED
        BY <2>2, <3>1, <3>2, <3>4, <4>1 DEF Exists
    <3>5. CASE j[2] = t.rev
      <4>1. ~Exists(j) /\ j[2] \in DOMAIN changeSets'
        BY <2>2, <3>1, <3>5
      <4> QED
        BY <2>3, <2>4, <3>2, <3>5, <4>1 DEF Exists, NewJob, NoRow
    <3>6. CASE j[2] \notin 1..n /\ j[2] # t.rev
      <4>1. ~Exists(j) /\ j[2] \notin DOMAIN changeSets'
        BY <2>2, <3>1, <3>3, <3>6
      <4> QED
        BY <3>2, <3>6, <4>1 DEF Exists
    <3> QED
      BY <3>4, <3>5, <3>6
  <2>9. ASSUME NEW k \in Key, NEW r \in DOMAIN changeSets',
               k \in KeysOf[changeSets'[r].document]
        PROVE  keyVersion'[k] >= r
    <3>1. /\ keyVersion[k] \in Nat /\ keyVersion'[k] \in Nat /\ keyVersion[k] <= keyVersion'[k]
          /\ k \in t.locked => keyVersion'[k] = t.rev
      BY <1>2, CommitWrites
    <3>2. CASE r \in 1..n
      <4>1. keyVersion[k] >= r
        BY <2>2, <2>9, <3>2 DEF InvalidationInv, InvalidationExact
      <4> QED
        BY <3>1, <3>2, <4>1
    <3>3. CASE r = t.rev
      BY <2>2, <2>3, <2>4, <2>9, <3>1, <3>3
    <3> QED
      BY <2>2, <3>2, <3>3
  <2>10. ASSUME NEW r \in DOMAIN changeSets'
         PROVE  /\ changeSets'[r].queued = changeSets'[r].affected
                /\ changeSets'[r].untouched
                     = Cardinality(TouchedBy(r)' \ changeSets'[r].affected)
    <3>1. CASE r \in 1..n
      <4>1. /\ changeSets[r].queued = changeSets[r].affected
            /\ changeSets[r].untouched = Cardinality(TouchedBy(r) \ changeSets[r].affected)
        BY <2>2, <3>1 DEF InvalidationInv, InvalidationExact, TouchedBy
      <4>2. TouchedBy(r)' = TouchedBy(r)
        BY <2>6, <3>1
      <4> QED
        BY <2>2, <3>1, <4>1, <4>2
    <3>2. CASE r = t.rev
      <4>1. /\ changeSets'[r].queued = t.locked /\ changeSets'[r].affected = t.locked
            /\ changeSets'[r].untouched = Cardinality(artifacts' \ t.locked)
        BY <2>3, <2>4, <2>5, <3>2
      <4>2. TouchedBy(r)' = artifacts'
        BY <2>2, <2>7, <3>2
      <4> QED
        BY <4>1, <4>2
    <3> QED
      BY <2>2, <3>1, <3>2
  <2>11. InvalidationExact'
    BY <2>8, <2>9, <2>10 DEF InvalidationExact, TouchedBy
  <2>12. Len(changeSets') = revision' /\ artifacts' = TouchedBy(revision)'
    <3>1. PICK r \in Nat : r = t.rev
      BY <2>2
    <3>2. TouchedBy(r)' = artifacts' /\ revision' = r
      BY <2>2, <2>7, <3>1
    <3> QED
      BY <2>2, <3>2 DEF TouchedBy
  <2> QED
    BY <2>11, <2>12 DEF InvalidationInv
<1> QED
  BY <1>1, <1>2, OnlyCommitWrites, JobsAppearAtCommits

\* With sessions in UTC a mutation queues work for exactly the timelines of its own
\* assertions, leaves their keys at its revision, and its change set counts the
\* artifacts that it left alone (_touch_keys_and_queue).
THEOREM InvalidationIsExact == SessionsInUTC => (Spec => []InvalidationExact)
<1> SUFFICES ASSUME SessionsInUTC PROVE Spec => []InvalidationExact
  OBVIOUS
<1>1. QueueInv /\ InvalidationInv /\ [Next]_vars => InvalidationInv'
  BY InvalidationNext
<1>2. InvalidationInv => InvalidationExact
  BY DEF InvalidationInv
<1> QED
  BY <1>1, <1>2, InvalidationInit, QueueInvHolds, PTL DEF Spec
-----------------------------------------------------------------------------
(* Exactness.  A worker reads its inputs without a lock.  What it has read is  *)
(* the case at the version of the key that it read first for as long as the    *)
(* key stands there, because a key never stands behind a stamp of its own      *)
(* evidence; and a version shows the past, which no later stamp changes.       *)

\* The states of a run that has read its inputs.
HasInputs == {"inputs_read", "computed", "job_locked", "publishing"}

InputsExact(w) ==
    LET r == worker[w]
    IN  r.pc \in HasInputs /\ keyVersion[r.job[1]] = r.first
          => r.inputs = ActiveForAt(r.job[1], r.first)

\* No key is behind the mutations of its own documents.
StampsBehind(d) ==
    \A k \in KeysOf[d] : docs[d].added <= keyVersion[k] /\ docs[d].retracted <= keyVersion[k]

PayloadsExact(k) ==
    \A n \in 1..Len(versions[k]) :
        versions[k][n].payload = ActiveForAt(k, versions[k][n].job)

ExactInv ==
    /\ QueueInv
    /\ \A d \in Doc : StampsBehind(d)
    /\ \A w \in Worker : InputsExact(w)
    /\ \A k \in Key : PayloadsExact(k)

LEMMA InitExact == Init => ExactInv
<1> SUFFICES ASSUME Init PROVE ExactInv
  OBVIOUS
<1>1. \A d \in Doc : StampsBehind(d)
  BY KeysOfAssumption DEF Init, StampsBehind
<1>2. \A w \in Worker : InputsExact(w)
  BY DEF Init, InputsExact, HasInputs, IdleWorker
<1>3. \A k \in Key : PayloadsExact(k)
  BY DEF Init, PayloadsExact
<1> QED
  BY <1>1, <1>2, <1>3, InitQueue DEF ExactInv

\* Stamps and versions of keys are revisions.
LEMMA StampsAreNumbers ==
    ASSUME QueueInv, NEW d \in Doc
    PROVE  /\ docs[d].added \in Nat /\ docs[d].retracted \in Nat
           /\ \A k \in KeysOf[d] : k \in Key /\ keyVersion[k] \in Nat
<1>1. docs[d] \in Document /\ KeysOf[d] \subseteq Key
  BY KeysOfAssumption DEF QueueInv, Shape, TypeOK
<1>2. \A k \in Key : keyVersion[k] \in Stamp
  BY DEF QueueInv, Shape, TypeOK
<1> QED
  BY <1>1, <1>2, BoundAssumption DEF Document, Stamp

\* What is active now is what was active at the version of the key.
LEMMA ActiveAtKey ==
    ASSUME QueueInv, \A d \in Doc : StampsBehind(d), NEW k \in Key
    PROVE  ActiveForAt(k, keyVersion[k]) = ActiveFor(k)
<1>1. ASSUME NEW d \in Doc, k \in KeysOf[d]
      PROVE  docs[d].added <= keyVersion[k] /\ docs[d].retracted <= keyVersion[k]
  BY <1>1 DEF StampsBehind
<1> QED
  BY <1>1 DEF ActiveForAt, ActiveFor, Active

\* A stamp is set once, by the commit of the next revision, and stays.
LEMMA StampsStay ==
    ASSUME QueueInv, [Next]_vars, NEW d \in Doc
    PROVE  /\ revision \in Nat /\ revision' \in Nat /\ revision <= revision'
           /\ \/ docs'[d].added = docs[d].added
              \/ docs[d].added = 0 /\ docs'[d].added = revision + 1
           /\ \/ docs'[d].retracted = docs[d].retracted
              \/ docs[d].retracted = 0 /\ docs'[d].retracted = revision + 1
<1>1. revision \in Nat /\ docs[d] \in Document /\ docs \in [Doc -> Document]
  BY BoundAssumption DEF QueueInv, Shape, TypeOK, Stamp
<1>2. ASSUME NEW c \in Client, Commit(c)
      PROVE  /\ revision' \in Nat /\ revision <= revision'
             /\ \/ docs'[d].added = docs[d].added
                \/ docs[d].added = 0 /\ docs'[d].added = revision + 1
             /\ \/ docs'[d].retracted = docs[d].retracted
                \/ docs[d].retracted = 0 /\ docs'[d].retracted = revision + 1
  <2> DEFINE t == tx[c]
  <2>1. /\ t.rev = revision + 1 /\ t.doc \in Doc /\ NotRecorded(t.operation, t.doc)
    BY <1>2, CommitWrites
  <2>2. /\ revision' = t.rev
        /\ docs' = IF t.operation = "ADD_DOCUMENT"
                     THEN [docs EXCEPT ![t.doc].added = t.rev]
                     ELSE [docs EXCEPT ![t.doc].retracted = t.rev]
    BY <1>2 DEF Commit
  <2>3. CASE t.operation = "ADD_DOCUMENT"
    BY <1>1, <2>1, <2>2, <2>3 DEF Document, NotRecorded
  <2>4. CASE t.operation = "RETRACT_DOCUMENT"
    BY <1>1, <2>1, <2>2, <2>4 DEF Document, NotRecorded
  <2> QED
    BY <2>1, <2>3, <2>4 DEF NotRecorded
<1> QED
  BY <1>1, <1>2, OnlyCommitWrites

\* What comes leaves the past alone: new stamps are later than every revision so far.
LEMMA PastIsKept ==
    ASSUME QueueInv, [Next]_vars, NEW k \in Key, NEW r \in Nat, r <= revision
    PROVE  ActiveForAt(k, r)' = ActiveForAt(k, r)
<1>1. ASSUME NEW d \in Doc
      PROVE  /\ (docs'[d].added # 0 /\ docs'[d].added <= r)
                   <=> (docs[d].added # 0 /\ docs[d].added <= r)
             /\ (docs'[d].retracted # 0 /\ docs'[d].retracted <= r)
                   <=> (docs[d].retracted # 0 /\ docs[d].retracted <= r)
  BY StampsStay
<1> QED
  BY <1>1 DEF ActiveForAt

LEMMA CommitExact ==
    ASSUME SessionsInUTC, ExactInv, NEW c \in Client, Commit(c) PROVE ExactInv'
<1> DEFINE t == tx[c]
<1>1. QueueInv /\ QueueInv' /\ UNCHANGED <<versions, worker>>
  BY CommitQueue DEF ExactInv, Commit
<1>2. /\ t.rev = revision + 1 /\ t.doc \in Doc /\ t.locked = KeysOf[t.doc] /\ revision \in Nat
      /\ NotRecorded(t.operation, t.doc)
  BY <1>1, CommitWrites, BoundAssumption
     DEF AffectedKeys, SessionsInUTC, QueueInv, Shape, TypeOK, Stamp
<1>3. ASSUME NEW k \in Key
      PROVE  /\ k \in t.locked => keyVersion'[k] = t.rev
             /\ k \notin t.locked => keyVersion'[k] = keyVersion[k]
             /\ keyVersion[k] \in Nat /\ keyVersion[k] <= revision
             /\ keyVersion'[k] \in Nat /\ keyVersion[k] <= keyVersion'[k]
  BY <1>1, CommitWrites
<1>7. [Next]_vars
  BY DEF Next, ServiceNext, TxStep
<1>4. ASSUME NEW d \in Doc PROVE StampsBehind(d)'
  <2>1. StampsBehind(d) /\ docs \in [Doc -> Document]
    BY <1>1 DEF ExactInv, QueueInv, Shape, TypeOK
  <2>2. ASSUME NEW k \in KeysOf[d]
        PROVE  docs'[d].added <= keyVersion'[k] /\ docs'[d].retracted <= keyVersion'[k]
    <3>1. /\ k \in Key /\ docs[d].added \in Nat /\ docs[d].retracted \in Nat
          /\ docs[d].added <= keyVersion[k] /\ docs[d].retracted <= keyVersion[k]
      BY <1>1, <2>1, StampsAreNumbers DEF StampsBehind
    <3>2. docs' = IF t.operation = "ADD_DOCUMENT"
                    THEN [docs EXCEPT ![t.doc].added = t.rev]
                    ELSE [docs EXCEPT ![t.doc].retracted = t.rev]
      BY DEF Commit
    <3>3. CASE d = t.doc
      <4>1. keyVersion'[k] = t.rev /\ keyVersion[k] <= t.rev
        BY <1>2, <1>3, <3>1, <3>3
      <4>2. /\ docs'[d].added = t.rev \/ docs'[d].added = docs[d].added
            /\ docs'[d].retracted = t.rev \/ docs'[d].retracted = docs[d].retracted
        BY <1>2, <2>1, <3>2, <3>3 DEF Document
      <4> QED
        BY <1>2, <1>3, <3>1, <4>1, <4>2
    <3>4. CASE d # t.doc
      <4>1. docs'[d] = docs[d]
        BY <1>2, <2>1, <3>2, <3>4
      <4> QED
        BY <1>3, <3>1, <4>1
    <3> QED
      BY <3>3, <3>4
  <2> QED
    BY <2>2 DEF StampsBehind
<1>5. ASSUME NEW w \in Worker PROVE InputsExact(w)'
  <2> DEFINE r == worker[w]
             k == r.job[1]
  <2>1. SUFFICES ASSUME r.pc \in HasInputs, keyVersion'[k] = r.first
                 PROVE  r.inputs = ActiveForAt(k, r.first)'
    BY <1>1 DEF InputsExact
  <2>2. Busy(w) /\ r.first = r.job[2]
    BY <1>1, <2>1 DEF Busy, HasInputs, Reading, QueueInv, WorkersSound, WorkerSound
  <2>3. /\ k \in Key /\ r.first \in Nat /\ keyVersion[k] \in Nat /\ r.first <= keyVersion[k]
    BY <1>1, <2>2, BusySound DEF JobKey, Target
  <2>4. k \notin t.locked
    BY <1>2, <1>3, <2>1, <2>3
  <2>5. keyVersion[k] = r.first /\ r.first <= revision
    BY <1>3, <2>1, <2>3, <2>4
  <2>6. r.inputs = ActiveForAt(k, r.first)
    BY <2>1, <2>5 DEF ExactInv, InputsExact
  <2>7. PICK l \in Key, f \in Nat : l = k /\ f = r.first
    BY <2>3
  <2>8. ActiveForAt(l, f)' = ActiveForAt(l, f)
    BY <1>1, <1>7, <2>5, <2>7, PastIsKept
  <2> QED
    BY <1>1, <2>6, <2>7, <2>8
<1>6. ASSUME NEW k \in Key PROVE PayloadsExact(k)'
  <2>1. ASSUME NEW n \in 1..Len(versions[k])
        PROVE  versions'[k][n].payload = ActiveForAt(k, versions[k][n].job)'
    <3>1. PICK f \in Nat : f = versions[k][n].job /\ f <= keyVersion[k]
      BY <1>1, VersionFacts
    <3>2. f <= revision
      BY <1>2, <1>3, <3>1
    <3>3. ActiveForAt(k, f)' = ActiveForAt(k, f)
      BY <1>1, <1>7, <3>2, PastIsKept
    <3>4. versions[k][n].payload = ActiveForAt(k, f)
      BY <3>1 DEF ExactInv, PayloadsExact
    <3> QED
      BY <1>1, <3>1, <3>3, <3>4
  <2> QED
    BY <1>1, <2>1 DEF PayloadsExact
<1> QED
  BY <1>1, <1>4, <1>5, <1>6 DEF ExactInv
\* A run has inputs because it has just read them or because it had them before.
LEMMA InputsAreKept ==
    ASSUME QueueInv, [Next]_vars, NEW w \in Worker, worker'[w].pc \in HasInputs
    PROVE  \/ ReadInputs(w)
           \/ /\ worker[w].pc \in HasInputs /\ worker'[w].job = worker[w].job
              /\ worker'[w].first = worker[w].first /\ worker'[w].inputs = worker[w].inputs
<1> DEFINE Kept == /\ worker[w].pc \in HasInputs /\ worker'[w].job = worker[w].job
                   /\ worker'[w].first = worker[w].first /\ worker'[w].inputs = worker[w].inputs
<1> SUFFICES ReadInputs(w) \/ Kept
  OBVIOUS
<1>1. worker \in [Worker -> WorkerState]
  BY DEF QueueInv, Shape, TypeOK
<1>2. worker[w] \in WorkerState
  BY <1>1
<1>3. CASE worker'[w] = worker[w]
  BY <1>3
<1>4. ASSUME NEW v \in Worker, NEW r, worker' = [worker EXCEPT ![v] = r], r.pc \notin HasInputs
      PROVE  Kept
  BY <1>1, <1>3, <1>4
<1>5. IdleWorker.pc \notin HasInputs
      /\ \A v \in Worker, pc \in {"superseding", "failing"}, b \in BOOLEAN :
            Unwound(v, pc, b).pc \notin HasInputs
  BY DEF IdleWorker, Unwound, HasInputs
<1>6. CASE ServiceNext
  BY <1>3, <1>6 DEF ServiceNext, LockCase, TxStep, TouchKey, ReadDependents, Bootstrap, Commit,
     Rollback
<1>7. ASSUME NEW v \in Worker, WorkerStep(v) \/ PollEmpty(v) \/ Fail(v) \/ Crash(v)
      PROVE  ReadInputs(w) \/ Kept
  <2>1. CASE SweepOnly(v) \/ PollEmpty(v)
    BY <1>3, <2>1 DEF SweepOnly, PollEmpty, vars
  <2>2. CASE Claim(v)
    <3>1. PICK j \in FirstInQueue :
            worker' = [worker EXCEPT ![v] = [IdleWorker EXCEPT
                          !.pc = "claimed", !.job = j, !.token = NewToken(j)]]
      BY <2>2 DEF Claim
    <3> DEFINE r == [IdleWorker EXCEPT !.pc = "claimed", !.job = j, !.token = NewToken(j)]
    <3>2. worker' = [worker EXCEPT ![v] = r] /\ r.pc = "claimed"
      BY <3>1 DEF IdleWorker
    <3> HIDE DEF r
    <3> QED
      BY <1>4, <3>2 DEF HasInputs
  <2>3. CASE ReadFirst(v)
    <3>1. CASE keyVersion[JobKey(v)] = Target(v)
      <4> DEFINE r == [worker[v] EXCEPT !.pc = "first_read", !.first = keyVersion[JobKey(v)]]
      <4>1. worker' = [worker EXCEPT ![v] = r] /\ r.pc = "first_read"
        BY <1>1, <2>3, <3>1 DEF ReadFirst, WorkerState
      <4> QED
        BY <1>4, <4>1 DEF HasInputs
    <3>2. CASE keyVersion[JobKey(v)] # Target(v)
      BY <1>4, <1>5, <2>3, <3>2 DEF ReadFirst
    <3> QED
      BY <3>1, <3>2
  <2>4. CASE ReadInputs(v)
    BY <1>1, <1>3, <2>4 DEF ReadInputs
  <2>5. CASE ReadSecond(v)
    <3>1. CASE keyVersion[JobKey(v)] = worker[v].first
      <4>1. worker[v].pc = "inputs_read" /\ worker' = [worker EXCEPT ![v].pc = "computed"]
        BY <2>5, <3>1 DEF ReadSecond
      <4> QED
        BY <1>1, <1>2, <1>3, <4>1 DEF HasInputs, WorkerState
    <3>2. CASE keyVersion[JobKey(v)] # worker[v].first
      BY <1>4, <1>5, <2>5, <3>2 DEF ReadSecond
    <3> QED
      BY <3>1, <3>2
  <2>6. CASE LockJob(v)
    <3>1. CASE OwnsClaim(v)
      <4>1. worker[v].pc = "computed" /\ worker' = [worker EXCEPT ![v].pc = "job_locked"]
        BY <2>6, <3>1 DEF LockJob
      <4> QED
        BY <1>1, <1>2, <1>3, <4>1 DEF HasInputs, WorkerState
    <3>2. CASE ~OwnsClaim(v)
      BY <1>4, <1>5, <2>6, <3>2 DEF LockJob
    <3> QED
      BY <3>1, <3>2
  <2>7. CASE LockKey(v)
    <3>1. worker[v].pc = "job_locked" /\ worker' = [worker EXCEPT ![v].pc = "publishing"]
      BY <2>7 DEF LockKey
    <3> QED
      BY <1>1, <1>2, <1>3, <3>1 DEF HasInputs, WorkerState
  <2>8. CASE LockKeyTooLate(v) \/ Publish(v)
    <3>1. RunEnds(v)
      BY <2>8 DEF LockKeyTooLate, Publish
    <3> QED
      BY <1>4, <1>5, <3>1 DEF RunEnds
  <2>9. CASE MarkSuperseded(v) \/ RecordFailure(v)
    BY <1>4, <1>5, <2>9 DEF MarkSuperseded, RecordFailure, Settle
  <2>10. CASE Fail(v)
    BY <1>4, <1>5, <2>10 DEF Fail
  <2>11. CASE Crash(v)
    BY <1>4, <1>5, <2>11 DEF Crash
  <2> QED
    BY <1>7, <2>1, <2>2, <2>3, <2>4, <2>5, <2>6, <2>7, <2>8, <2>9, <2>10, <2>11 DEF WorkerStep
<1>8. CASE WorkerNext
  BY <1>3, <1>7, <1>8 DEF WorkerNext, LeaseExpires
<1> QED
  BY <1>3, <1>6, <1>8 DEF Next, vars

\* A step that commits no mutation keeps the exactness of what is read and written.
LEMMA WorkExact ==
    ASSUME ExactInv, [Next]_vars, UNCHANGED <<revision, docs, keyVersion, artifacts, changeSets>>
    PROVE  ExactInv'
<1>1. QueueInv /\ QueueInv'
  BY NextQueue DEF ExactInv
<1>2. ASSUME NEW k, NEW r PROVE ActiveForAt(k, r)' = ActiveForAt(k, r)
  BY DEF ActiveForAt
<1>3. \A d \in Doc : StampsBehind(d)'
  BY DEF ExactInv, StampsBehind
<1>4. ASSUME NEW w \in Worker PROVE InputsExact(w)'
  <2>1. SUFFICES ASSUME worker'[w].pc \in HasInputs,
                        keyVersion[worker'[w].job[1]] = worker'[w].first
                 PROVE  worker'[w].inputs = ActiveForAt(worker'[w].job[1], worker'[w].first)
    BY <1>2 DEF InputsExact, ActiveForAt
  <2>2. CASE ReadInputs(w)
    <3>1. Busy(w)
      BY <2>2 DEF ReadInputs, Busy
    <3>2. worker \in [Worker -> WorkerState] /\ worker[w] \in WorkerState /\ JobKey(w) \in Key
      BY <1>1, <3>1, BusySound
    <3>3. /\ worker'[w].job = worker[w].job /\ worker'[w].first = worker[w].first
          /\ worker'[w].inputs = ActiveFor(JobKey(w))
      BY <2>2, <3>2 DEF ReadInputs, WorkerState
    <3>4. ActiveForAt(JobKey(w), keyVersion[JobKey(w)]) = ActiveFor(JobKey(w))
      BY <1>1, <3>2, ActiveAtKey DEF ExactInv
    <3> QED
      BY <2>1, <3>3, <3>4 DEF JobKey
  <2>3. CASE /\ worker[w].pc \in HasInputs /\ worker'[w].job = worker[w].job
             /\ worker'[w].first = worker[w].first /\ worker'[w].inputs = worker[w].inputs
    BY <2>1, <2>3 DEF ExactInv, InputsExact
  <2> QED
    BY <1>1, <2>1, <2>2, <2>3, InputsAreKept
<1>5. ASSUME NEW k \in Key PROVE PayloadsExact(k)'
  <2>1. PayloadsExact(k)
    BY DEF ExactInv
  <2>2. CASE UNCHANGED versions
    BY <1>2, <2>1, <2>2 DEF PayloadsExact
  <2>3. ASSUME NEW w \in Worker, Publish(w) PROVE PayloadsExact(k)'
    <3> DEFINE l == JobKey(w)
               new == [job |-> Target(w), change_key |-> l, observed |-> worker[w].first,
                       payload |-> worker[w].inputs]
    <3>1. /\ l \in Key /\ worker[w].first = Target(w) /\ keyVersion[l] = Target(w)
          /\ versions[l] \in Seq(Version)
          /\ versions' = [versions EXCEPT ![l] = Append(versions[l], new)]
      BY <1>1, <2>3, PublishWrites
    <3>2. worker[w].inputs = ActiveForAt(l, Target(w))
      BY <2>3, <3>1 DEF Publish, ExactInv, InputsExact, HasInputs, JobKey, Target
    <3>3. new.payload = ActiveForAt(l, new.job)
      BY <3>2
    <3>4. versions \in [Key -> Seq(Version)]
      BY <1>1 DEF QueueInv, Shape, TypeOK
    <3> HIDE DEF new, l
    <3>5. CASE k # l
      <4>1. versions'[k] = versions[k]
        BY <3>1, <3>4, <3>5
      <4> QED
        BY <1>2, <2>1, <4>1 DEF PayloadsExact
    <3>6. CASE k = l
      <4>1. /\ Len(versions'[k]) = Len(versions[k]) + 1 /\ Len(versions[k]) \in Nat
            /\ versions'[k][Len(versions[k]) + 1] = new
            /\ \A n \in 1..Len(versions[k]) : versions'[k][n] = versions[k][n]
        BY <3>1, <3>4, <3>6
      <4>2. ASSUME NEW n \in 1..Len(versions'[k])
            PROVE  versions'[k][n].payload = ActiveForAt(k, versions'[k][n].job)
        <5>1. CASE n \in 1..Len(versions[k])
          BY <2>1, <4>1, <5>1 DEF PayloadsExact
        <5>2. CASE n = Len(versions[k]) + 1
          BY <3>3, <3>6, <4>1, <5>2
        <5> QED
          BY <4>1, <5>1, <5>2
      <4> QED
        BY <1>2, <4>2 DEF PayloadsExact, ActiveForAt
    <3> QED
      BY <3>5, <3>6
  <2> QED
    BY <2>2, <2>3, OnlyPublishWrites
<1> QED
  BY <1>1, <1>3, <1>4, <1>5 DEF ExactInv

LEMMA NextExact == ASSUME SessionsInUTC, ExactInv, [Next]_vars PROVE ExactInv'
  BY CommitExact, WorkExact, OnlyCommitWrites

LEMMA ExactInvHolds == SessionsInUTC => (Spec => []ExactInv)
<1> SUFFICES ASSUME SessionsInUTC PROVE Spec => []ExactInv
  OBVIOUS
<1>1. ExactInv /\ [Next]_vars => ExactInv'
  BY NextExact
<1> QED
  BY <1>1, InitExact, PTL DEF Spec

\* A timeline that is fresh shows what is active.
LEMMA ExactIsFresh == ASSUME ExactInv PROVE FreshIsExact
<1>1. ASSUME NEW k \in artifacts, Fresh(k) PROVE CurrentVersion(k).payload = ActiveFor(k)
  <2>1. k \in Key /\ VersionsSound(k) /\ versions[k] \in Seq(Version)
    BY DEF ExactInv, QueueInv, Shape, TypeOK, TablesSound
  <2>2. current[k] \in 1..Len(versions[k])
    BY <1>1, <2>1 DEF VersionsSound, Fresh
  <2>3. VersionSound(k, current[k])
    BY <2>1, <2>2 DEF VersionsSound
  <2>4. CurrentVersion(k).payload = ActiveForAt(k, keyVersion[k])
    BY <1>1, <2>1, <2>2, <2>3 DEF ExactInv, PayloadsExact, Fresh, CurrentVersion, VersionSound
  <2> QED
    BY <2>1, <2>4, ActiveAtKey DEF ExactInv
<1> QED
  BY <1>1 DEF FreshIsExact

\* With sessions in UTC, a timeline that is reported fresh is what a full rebuild from
\* the active assertions would give (current_artifact, _compute, _publish).
THEOREM FreshTimelinesAreExact == SessionsInUTC => (Spec => []FreshIsExact)
  BY ExactInvHolds, ExactIsFresh, PTL

\* With sessions in UTC, every version ever published is the case as it stood at the
\* revision of its job: never a mixture of two revisions, although _compute reads the
\* key, the inputs and the key again without a lock.
THEOREM SnapshotsAreExact == SessionsInUTC => (Spec => []SnapshotExact)
<1>1. ASSUME ExactInv PROVE SnapshotExact
  <2>1. ASSUME NEW k \in Key, NEW n \in DOMAIN versions[k]
        PROVE  /\ versions[k][n].observed = versions[k][n].job
               /\ versions[k][n].payload = ActiveForAt(k, versions[k][n].job)
    <3>1. versions[k] \in Seq(Version)
      BY <1>1 DEF ExactInv, QueueInv, Shape, TypeOK
    <3>2. n \in 1..Len(versions[k])
      BY <3>1
    <3>3. VersionSound(k, n)
      BY <1>1, <3>2, VersionFacts DEF ExactInv
    <3> QED
      BY <1>1, <3>2, <3>3 DEF ExactInv, PayloadsExact, VersionSound
  <2> QED
    BY <2>1 DEF SnapshotExact
<1> QED
  BY <1>1, ExactInvHolds, PTL

LEMMA ExactIsDrained == ASSUME ExactInv PROVE DrainedUnlessFailed
<1> SUFFICES ASSUME Drained, NEW k \in artifacts, ~GivenUp(k)
             PROVE  ShowsRebuild(k)
  BY DEF DrainedUnlessFailed
<1>1. k \in Key /\ keyVersion[k] \in Stamp
  BY DEF ExactInv, QueueInv, Shape, TypeOK
<1>2. keyVersion[k] # 0 => <<k, keyVersion[k]>> \in JobId
  BY <1>1, BoundAssumption DEF JobId, Stamp, Revision
<1>3. NoLostInvalidation
  BY QueueKeepsInvalidations DEF ExactInv
<1>4. Fresh(k)
  BY <1>2, <1>3 DEF NoLostInvalidation, Drained, Unfinished, GivenUp
<1> QED
  BY <1>4, ExactIsFresh DEF FreshIsExact, Fresh, ShowsRebuild

\* The invariant of DESIGN.md, with sessions in UTC: once queued work has drained, every
\* timeline equals its rebuild, except those whose own last job was given up.
THEOREM DrainedEqualsRebuild == SessionsInUTC => (Spec => []DrainedUnlessFailed)
  BY ExactInvHolds, ExactIsDrained, PTL

-----------------------------------------------------------------------------
(* The engine implements its abstract promise, TimelineView: each of its steps *)
(* is a step of the promise, on the values that View gives to its variables,   *)
(* or is invisible there.                                                      *)

\* The promise's Add needs that what was never recorded was not retracted either.
ViewInv == ExactInv /\ \A d \in Doc : RetractedWasAdded(d)

-----------------------------------------------------------------------------
(* The status of a timeline, as a function of its key and its job              *)

StatusOf(version, status) ==
    CASE version = 0 -> "absent"
      [] OTHER ->
           CASE status \in {"QUEUED", "RUNNING"} -> "pending"
             [] status = "SUCCEEDED"             -> "fresh"
             [] status = "FAILED_PERMANENT"      -> "failed"
             [] OTHER                            -> "lost"

LEMMA StatusCases ==
    ASSUME NEW version, NEW status
    PROVE  /\ version = 0 => StatusOf(version, status) = "absent"
           /\ version # 0 =>
                /\ status \in {"QUEUED", "RUNNING"} => StatusOf(version, status) = "pending"
                /\ status = "SUCCEEDED" => StatusOf(version, status) = "fresh"
                /\ status = "FAILED_PERMANENT" => StatusOf(version, status) = "failed"
  BY DEF StatusOf

LEMMA StatusIsOf ==
    ASSUME NEW k \in Key
    PROVE  /\ TimelineStatus(k) = StatusOf(keyVersion[k], jobs[<<k, keyVersion[k]>>].status)
           /\ TimelineStatus(k)' = StatusOf(keyVersion'[k], jobs'[<<k, keyVersion'[k]>>].status)
  BY DEF TimelineStatus, StatusOf

\* What the promise says about the timelines of one moment.
LEMMA ShownKept ==
    ASSUME NEW k \in Key, UNCHANGED <<current, versions>>
    PROVE  TimelineShown(k)' = TimelineShown(k)
  BY DEF TimelineShown, CurrentVersion

-----------------------------------------------------------------------------
(* Steps                                                                       *)

LEMMA ViewInit == Init => View!Init
<1> SUFFICES ASSUME Init PROVE View!Init
  OBVIOUS
<1>1. \A k \in Key : TimelineStatus(k) = "absent" /\ TimelineShown(k) = {}
  BY StatusIsOf, StatusCases DEF Init, TimelineShown
<1>2. /\ {d \in Doc : docs[d].added # 0} = {}
      /\ {d \in Doc : Active(d)} = {}
  BY DEF Init, Active
<1> QED
  BY <1>1, <1>2 DEF View!Init

\* The commit of a mutation is the Add or the Retract of its document.
LEMMA CommitIsMutation ==
    ASSUME SessionsInUTC, ViewInv, NEW c \in Client, Commit(c)
    PROVE  \E d \in Doc : View!Add(d) \/ View!Retract(d)
<1> DEFINE t == tx[c]
<1>1. QueueInv /\ UNCHANGED <<current, versions>>
  BY DEF ViewInv, ExactInv, Commit
<1>2. /\ t.rev \in Nat \ {0} /\ t.doc \in Doc /\ t.locked = KeysOf[t.doc] /\ t.locked \subseteq Key
      /\ NotRecorded(t.operation, t.doc)
  BY <1>1, CommitWrites, BoundAssumption DEF AffectedKeys, SessionsInUTC, Revision
<1>3. PICK doc \in Doc : doc = t.doc
  BY <1>2
<1>4. ASSUME NEW k \in Key
      PROVE  TimelineStatus(k)' = IF k \in KeysOf[doc] THEN "pending" ELSE TimelineStatus(k)
  <2>1. /\ k \in t.locked => keyVersion'[k] = t.rev
        /\ k \notin t.locked => keyVersion'[k] = keyVersion[k]
        /\ keyVersion[k] \in Nat /\ keyVersion[k] <= revision /\ t.rev = revision + 1
        /\ t.rev \in Revision /\ revision \in Nat
    BY <1>1, CommitWrites, BoundAssumption DEF QueueInv, Shape, TypeOK, Stamp
  <2>2. CASE k \in t.locked
    <3>1. PICK j \in JobId : j = <<k, t.rev>>
      BY <2>1 DEF JobId
    <3>2. ~Exists(j)
      BY <1>1, <2>1, <3>1 DEF QueueInv, TablesSound, JobSound
    <3>3. jobs'[j].status = "QUEUED"
      BY <1>1, <2>2, <3>1, <3>2, CommitWrites DEF NewJob, NoRow
    <3>4. keyVersion'[k] = t.rev /\ jobs'[<<k, keyVersion'[k]>>].status = "QUEUED"
      BY <2>1, <2>2, <3>1, <3>3
    <3>5. TimelineStatus(k)' = StatusOf(t.rev, "QUEUED")
      BY <3>4, StatusIsOf
    <3>6. StatusOf(t.rev, "QUEUED") = "pending"
      BY <1>2, StatusCases
    <3> QED
      BY <1>2, <1>3, <2>2, <3>5, <3>6
  <2>3. CASE k \notin t.locked
    <3>1. keyVersion[k] = 0 => TimelineStatus(k)' = TimelineStatus(k)
      <4>1. ASSUME keyVersion[k] = 0
            PROVE  TimelineStatus(k)' = "absent" /\ TimelineStatus(k) = "absent"
        <5>1. /\ TimelineStatus(k)' = StatusOf(0, jobs'[<<k, keyVersion'[k]>>].status)
              /\ TimelineStatus(k) = StatusOf(0, jobs[<<k, keyVersion[k]>>].status)
          BY <2>1, <2>3, <4>1, StatusIsOf
        <5> QED
          BY <5>1, StatusCases
      <4> QED
        BY <4>1
    <3>2. ASSUME keyVersion[k] # 0 PROVE TimelineStatus(k)' = TimelineStatus(k)
      <4>1. PICK j \in JobId : j = <<k, keyVersion[k]>>
        <5>1. keyVersion[k] \in Stamp
          BY <1>1 DEF QueueInv, Shape, TypeOK
        <5>2. <<k, keyVersion[k]>> \in JobId
          BY <3>2, <5>1, BoundAssumption DEF JobId, Stamp, Revision
        <5> QED
          BY <5>2
      <4>2. Exists(j)
        BY <1>1, <3>2, <4>1 DEF QueueInv, TablesSound, KeySound
      <4>3. jobs'[j] = jobs[j]
        BY <1>1, <4>2, CommitWrites
      <4> QED
        BY <2>1, <2>3, <4>1, <4>3, StatusIsOf
    <3> QED
      BY <1>2, <1>3, <2>3, <3>1, <3>2
  <2> QED
    BY <2>2, <2>3
<1>5. View!Mark(KeysOf[doc])
  BY <1>4 DEF View!Mark
<1>6. UNCHANGED [k \in Key |-> TimelineShown(k)]
  BY <1>1, ShownKept
<1>7. docs' = IF t.operation = "ADD_DOCUMENT"
                THEN [docs EXCEPT ![doc].added = t.rev]
                ELSE [docs EXCEPT ![doc].retracted = t.rev]
  BY <1>3 DEF Commit
<1>8. docs \in [Doc -> Document] /\ docs[doc] \in Document
  BY <1>1 DEF QueueInv, Shape, TypeOK
<1>9. \A d \in Doc : d # doc => docs'[d] = docs[d]
  BY <1>7, <1>8
<1>10. CASE t.operation = "ADD_DOCUMENT"
  <2>1. docs[doc].added = 0 /\ docs[doc].retracted = 0
    BY <1>2, <1>3, <1>10 DEF NotRecorded, ViewInv, RetractedWasAdded
  <2>2. docs'[doc].added = t.rev /\ docs'[doc].retracted = 0
    BY <1>7, <1>8, <1>10, <2>1 DEF Document
  <2>3. /\ doc \notin {d \in Doc : docs[d].added # 0}
        /\ {d \in Doc : docs'[d].added # 0} = {d \in Doc : docs[d].added # 0} \cup {doc}
        /\ {d \in Doc : Active(d)}' = {d \in Doc : Active(d)} \cup {doc}
    BY <1>2, <1>9, <2>1, <2>2 DEF Active
  <2>4. View!Add(doc)
    BY <1>5, <1>6, <2>3 DEF View!Add
  <2> QED
    BY <2>4
<1>11. CASE t.operation = "RETRACT_DOCUMENT"
  <2>1. docs[doc].added # 0 /\ docs[doc].retracted = 0
    BY <1>2, <1>3, <1>11 DEF NotRecorded
  <2>2. docs'[doc].added = docs[doc].added /\ docs'[doc].retracted = t.rev
    BY <1>7, <1>8, <1>11 DEF Document
  <2>3. /\ doc \in {d \in Doc : Active(d)}
        /\ {d \in Doc : docs'[d].added # 0} = {d \in Doc : docs[d].added # 0}
        /\ {d \in Doc : Active(d)}' = {d \in Doc : Active(d)} \ {doc}
    BY <1>2, <1>9, <2>1, <2>2 DEF Active
  <2>4. View!Retract(doc)
    BY <1>5, <1>6, <2>3 DEF View!Retract
  <2> QED
    BY <2>4
<1> QED
  BY <1>2, <1>10, <1>11 DEF NotRecorded

\* A publication is the Refresh of its timeline.
LEMMA PublishIsRefresh ==
    ASSUME ViewInv, NEW w \in Worker, Publish(w) PROVE \E k \in Key : View!Refresh(k)
<1> DEFINE new == [job |-> Target(w), change_key |-> JobKey(w), observed |-> worker[w].first,
                   payload |-> worker[w].inputs]
<1>1. /\ QueueInv /\ UNCHANGED <<docs, keyVersion>> /\ Busy(w) /\ worker[w].pc = "publishing"
      /\ jobs' = [jobs EXCEPT ![worker[w].job] = Released(worker[w].job, "SUCCEEDED")]
  BY DEF ViewInv, ExactInv, Publish, Busy
<1>2. PICK k \in Key : k = JobKey(w)
  BY <1>1, BusySound
<1>3. /\ jobs[worker[w].job].status = "RUNNING" /\ keyVersion[k] = Target(w)
      /\ worker[w].first = Target(w) /\ versions[k] \in Seq(Version)
      /\ versions' = [versions EXCEPT ![k] = Append(versions[k], new)]
      /\ current' = [current EXCEPT ![k] = Len(versions[k]) + 1]
  BY <1>1, <1>2, PublishWrites
<1>4. PICK j \in JobId : j = worker[w].job /\ j = <<k, keyVersion[k]>> /\ keyVersion[k] # 0
  <2>1. worker[w].job \in JobId
    BY <1>1, BusySound
  <2>2. worker[w].job = <<k, keyVersion[k]>>
    BY <1>2, <1>3, <2>1 DEF JobId, JobKey, Target
  <2>3. keyVersion[k] # 0
    BY <2>1, <2>2 DEF JobId, Revision
  <2> QED
    BY <2>1, <2>2, <2>3
<1>5. jobs \in [JobId -> Job] /\ versions \in [Key -> Seq(Version)] /\ current \in [Key -> Nat]
  BY <1>1 DEF QueueInv, Shape, TypeOK
<1>6. jobs'[j].status = "SUCCEEDED" /\ \A i : i # j => jobs'[i] = jobs[i]
  BY <1>1, <1>4, <1>5 DEF Released, Job
<1>7. TimelineStatus(k) = "pending" /\ TimelineStatus(k)' = "fresh"
  <2>1. /\ TimelineStatus(k) = StatusOf(keyVersion[k], "RUNNING")
        /\ TimelineStatus(k)' = StatusOf(keyVersion[k], "SUCCEEDED")
    BY <1>1, <1>3, <1>4, <1>6, StatusIsOf
  <2> QED
    BY <1>4, <2>1, StatusCases
<1>8. ASSUME NEW l \in Key, l # k PROVE TimelineStatus(l)' = TimelineStatus(l)
  <2>1. <<l, keyVersion[l]>> # j
    BY <1>4, <1>8
  <2> QED
    BY <1>1, <1>6, <2>1, StatusIsOf
<1>9. worker[w].inputs = ActiveFor(k)
  <2>1. worker[w].inputs = ActiveForAt(k, keyVersion[k])
    BY <1>1, <1>2, <1>3 DEF ViewInv, ExactInv, InputsExact, HasInputs, JobKey
  <2> QED
    BY <1>1, <2>1, ActiveAtKey DEF ViewInv, ExactInv
<1>10. TimelineShown(k)' = ActiveFor(k)
  <2>1. new.payload = ActiveFor(k)
    BY <1>9
  <2> HIDE DEF new
  <2>2. /\ current'[k] = Len(versions[k]) + 1 /\ current'[k] # 0
        /\ versions'[k][Len(versions[k]) + 1] = new
    BY <1>3, <1>5
  <2> QED
    BY <2>1, <2>2 DEF TimelineShown, CurrentVersion
<1>11. ASSUME NEW l \in Key, l # k PROVE TimelineShown(l)' = TimelineShown(l)
  BY <1>3, <1>5, <1>11 DEF TimelineShown, CurrentVersion
<1>12. {d \in {e \in Doc : Active(e)} : k \in KeysOf[d]} = ActiveFor(k)
  BY DEF ActiveFor
<1>13. UNCHANGED <<{d \in Doc : docs[d].added # 0}, {d \in Doc : Active(d)}>>
  BY <1>1 DEF Active
<1>14. View!Refresh(k)
  BY <1>7, <1>8, <1>10, <1>11, <1>12, <1>13 DEF View!Refresh, View!Rebuilt
<1> QED
  BY <1>14

\* A timeline whose key stays keeps its status, or is given up.
LEMMA StatusMoves ==
    ASSUME QueueInv, UNCHANGED keyVersion, \A w \in Worker : ~Publish(w),
           \A j \in JobId : JobMove(j), NEW k \in Key
    PROVE  \/ TimelineStatus(k)' = TimelineStatus(k)
           \/ TimelineStatus(k) = "pending" /\ TimelineStatus(k)' = "failed"
<1> DEFINE n == keyVersion[k]
<1>1. CASE n = 0
  <2>1. /\ TimelineStatus(k) = StatusOf(0, jobs[<<k, n>>].status)
        /\ TimelineStatus(k)' = StatusOf(0, jobs'[<<k, n>>].status)
    BY <1>1, StatusIsOf
  <2> QED
    BY <2>1, StatusCases
<1>2. CASE n # 0
  <2>1. keyVersion[k] \in Stamp
    BY DEF QueueInv, Shape, TypeOK
  <2>2. <<k, keyVersion[k]>> \in JobId /\ keyVersion[k] \in Nat
    BY <1>2, <2>1, BoundAssumption DEF JobId, Stamp, Revision
  <2>3. PICK j \in JobId : j = <<k, keyVersion[k]>> /\ j[1] = k /\ j[2] = keyVersion[k]
    BY <2>2
  <2>4. /\ TimelineStatus(k) = StatusOf(n, jobs[j].status)
        /\ TimelineStatus(k)' = StatusOf(n, jobs'[j].status)
    BY <2>3, StatusIsOf
  <2>5. JobMove(j) /\ ~(j[2] < keyVersion[j[1]])
    BY <2>2, <2>3
  <2> HIDE DEF n
  <2>6. CASE jobs'[j].status = jobs[j].status
    BY <2>4, <2>6
  <2>7. CASE {jobs[j].status, jobs'[j].status} \subseteq {"QUEUED", "RUNNING"}
    BY <1>2, <2>4, <2>7, StatusCases
  <2>8. CASE jobs[j].status = "RUNNING" /\ jobs'[j].status = "FAILED_PERMANENT"
    <3>1. StatusOf(n, "RUNNING") = "pending" /\ StatusOf(n, "FAILED_PERMANENT") = "failed"
      BY <1>2, StatusCases
    <3> QED
      BY <2>4, <2>8, <3>1
  <2> QED
    BY <2>5, <2>6, <2>7, <2>8 DEF JobMove
<1> QED
  BY <1>1, <1>2

\* Every other step is one that gives timelines up or cannot be seen.
LEMMA WorkIsGivingUp ==
    ASSUME ViewInv, [Next]_vars, \A c \in Client : ~Commit(c), \A w \in Worker : ~Publish(w)
    PROVE  [View!Next]_View!vars
<1>1. QueueInv /\ UNCHANGED <<docs, keyVersion, current, versions>> /\ \A j \in JobId : JobMove(j)
  BY OnlyCommitWrites, OnlyPublishWrites, JobsMoveByStatus DEF ViewInv, ExactInv
<1>2. PICK up \in SUBSET Key :
        up = {k \in Key : TimelineStatus(k) = "pending" /\ TimelineStatus(k)' = "failed"}
  OBVIOUS
<1>3. \A k \in Key : TimelineStatus(k)' = IF k \in up THEN "failed" ELSE TimelineStatus(k)
  BY <1>1, <1>2, StatusMoves
<1>4. UNCHANGED <<{d \in Doc : docs[d].added # 0}, {d \in Doc : Active(d)},
                  [k \in Key |-> TimelineShown(k)]>>
  BY <1>1, ShownKept DEF Active
<1>5. CASE up = {}
  BY <1>3, <1>4, <1>5 DEF View!vars
<1>6. CASE up # {}
  <2>1. View!GiveUp(up)
    BY <1>2, <1>3, <1>4, <1>6 DEF View!GiveUp
  <2> QED
    BY <2>1 DEF View!Next
<1> QED
  BY <1>5, <1>6

\* With sessions in UTC the engine refines TimelineView: all that readers can tell of a
\* case, whatever jobs, leases, locks, failures and restarts stand behind it, is that
\* evidence changes, timelines are rebuilt at one stroke from what is active then, and
\* some are given up in the open.
THEOREM EngineImplementsView == SessionsInUTC => (Spec => ImplementsView)
<1> SUFFICES ASSUME SessionsInUTC PROVE Spec => ImplementsView
  OBVIOUS
<1>1. Init => ViewInv
  BY InitExact DEF ViewInv, RetractedWasAdded, Init
<1>2. ViewInv /\ [Next]_vars => ViewInv'
  BY NextExact, RetractionsAreOfRecords DEF ViewInv, ExactInv
<1>3. ViewInv /\ [Next]_vars => [View!Next]_View!vars
  BY CommitIsMutation, PublishIsRefresh, WorkIsGivingUp DEF View!Next
<1> QED
  BY <1>1, <1>2, <1>3, ViewInit, PTL DEF Spec, ImplementsView, View!Spec

-----------------------------------------------------------------------------
(* The engine feeds the board.  CaseAnalysis receives a document at one stroke, *)
(* with all that it asserts, and retracts it at one stroke.  In the engine that *)
(* is the commit of a mutation, whatever workers and other requests do then.    *)

CONSTANTS
    SourceTypeOf,     \* SourceTypeOf[d]: the source type of document d
    Statement,        \* [entity, day, kind]: what an assertion can say
    StatementsOf,     \* StatementsOf[d]: what document d asserts
    MaxStatements,    \* assertions of a document at most
    KeyFor(_, _)      \* timeline_key: the change key of an entity and a day

Analysis == INSTANCE CaseAnalysisProofs WITH
    MaxClaims <- MaxStatements,
    claims <- [d \in Doc |-> IF docs[d].added # 0 THEN StatementsOf[d] ELSE {}],
    retracted <- {d \in Doc : docs[d].retracted # 0}

\* The documents are finitely many, each asserts something, and its change keys are
\* those of its assertions (ingest_document); the key ends with the date, so that it
\* names one entity and day.
Stated ==
    /\ IsFiniteSet(Doc)
    /\ MaxStatements \in Nat \ {0}
    /\ \A d \in Doc : /\ StatementsOf[d] \in SUBSET Statement /\ IsFiniteSet(StatementsOf[d])
                       /\ Cardinality(StatementsOf[d]) \in 1..MaxStatements
    /\ \A d \in Doc : KeysOf[d] = {KeyFor(s.entity, s.day) : s \in StatementsOf[d]}
    /\ \A s, t \in Statement : KeyFor(s.entity, s.day) = KeyFor(t.entity, t.day) =>
                                   s.entity = t.entity /\ s.day = t.day

\* What a document asserts can be received, and is something.
LEMMA StatementsAreContents ==
    ASSUME Stated, NEW d \in Doc
    PROVE  StatementsOf[d] \in Analysis!Contents /\ StatementsOf[d] # {}
<1>1. Analysis!IsFiniteSet(StatementsOf[d])
  BY DEF Stated, IsFiniteSet, Analysis!IsFiniteSet
<1>2. Analysis!Cardinality(StatementsOf[d]) = Cardinality(StatementsOf[d])
  BY DEF Cardinality, Analysis!Cardinality
<1>3. StatementsOf[d] # {}
  BY FS_EmptySet DEF Stated
<1> QED
  BY <1>1, <1>2, <1>3 DEF Stated, Analysis!Contents

\* The commit of a mutation receives its document or retracts it, as the mutation was
\* not recorded when it locked the case and nobody else has committed one since.
LEMMA CommitIsAnalysed ==
    ASSUME Stated, QueueInv, NEW c \in Client, Commit(c)
    PROVE  Analysis!Next
<1> DEFINE t == tx[c]
<1>1. /\ t.rev # 0 /\ t.doc \in Doc /\ NotRecorded(t.operation, t.doc)
  BY CommitWrites, BoundAssumption DEF Revision
<1>2. PICK d \in Doc : d = t.doc
  BY <1>1
<1>3. PICK r : r = t.rev /\ r # 0
  BY <1>1
<1>4. docs \in [Doc -> Document] /\ docs[d] \in Document
  BY DEF QueueInv, Shape, TypeOK
<1>5. CASE t.operation = "ADD_DOCUMENT" /\ docs[d].added = 0
  <2>1. docs' = [docs EXCEPT ![d].added = r]
    BY <1>2, <1>3, <1>5 DEF Commit
  <2>2. /\ docs'[d].added = r /\ docs'[d].retracted = docs[d].retracted
        /\ \A o \in Doc \ {d} : docs'[o] = docs[o]
    BY <1>4, <2>1 DEF Document
  <2>3. StatementsOf[d] \in Analysis!Contents
    BY StatementsAreContents
  <2>4. Analysis!Ingest(d, StatementsOf[d])
    BY <1>3, <1>5, <2>2 DEF Analysis!Ingest
  <2> QED
    BY <2>3, <2>4 DEF Analysis!Next
<1>6. CASE t.operation = "RETRACT_DOCUMENT" /\ docs[d].added # 0 /\ docs[d].retracted = 0
  <2>1. docs' = [docs EXCEPT ![d].retracted = r]
    BY <1>2, <1>3, <1>6 DEF Commit
  <2>2. /\ docs'[d].retracted = r /\ docs'[d].added = docs[d].added
        /\ \A o \in Doc \ {d} : docs'[o] = docs[o]
    BY <1>4, <2>1 DEF Document
  <2>3. StatementsOf[d] # {}
    BY StatementsAreContents
  <2>4. Analysis!Retract(d)
    BY <1>3, <1>6, <2>2, <2>3 DEF Analysis!Retract, Analysis!Ingested
  <2> QED
    BY <2>4 DEF Analysis!Next
<1> QED
  BY <1>1, <1>2, <1>5, <1>6 DEF NotRecorded

\* The engine implements CaseAnalysis: whatever jobs, locks, failures and other requests
\* stand behind it, for the board a document is received at one stroke and retracted at
\* one stroke (_active_events reads committed rows only).
THEOREM EngineFeedsTheBoard == Stated => (Spec => Analysis!Spec)
<1> SUFFICES ASSUME Stated PROVE Spec => Analysis!Spec
  OBVIOUS
<1>1. Init => Analysis!Init
  BY DEF Init, Analysis!Init
<1>2. QueueInv /\ [Next]_vars => [Analysis!Next]_Analysis!vars
  <2>1. CASE \E c \in Client : Commit(c)
    BY <2>1, CommitIsAnalysed
  <2>2. ASSUME [Next]_vars, \A c \in Client : ~Commit(c) PROVE UNCHANGED Analysis!vars
    <3>1. UNCHANGED docs
      BY <2>2, OnlyCommitWrites
    <3> QED
      BY <3>1 DEF Analysis!vars
  <2> QED
    BY <2>1, <2>2
<1> QED
  BY <1>1, <1>2, QueueInvHolds, PTL DEF Spec, Analysis!Spec

\* What the board and the graph promise of a case, they promise of the tables that the
\* engine works on, at any moment and in any time zone.
THEOREM BoardOfTheEngine ==
    Stated => (Spec => /\ [](/\ Analysis!StrongIsIndependent
                             /\ Analysis!GapsAreUncorroborated
                             /\ Analysis!GraphIsWellFormed
                             /\ Analysis!SourcesReachTheirFindings)
                       /\ Analysis!EvidenceIsMonotone
                       /\ Analysis!DeltaMatchesBoard)
<1> SUFFICES ASSUME Stated
             PROVE  Spec => /\ [](/\ Analysis!StrongIsIndependent
                                  /\ Analysis!GapsAreUncorroborated
                                  /\ Analysis!GraphIsWellFormed
                                  /\ Analysis!SourcesReachTheirFindings)
                            /\ Analysis!EvidenceIsMonotone
                            /\ Analysis!DeltaMatchesBoard
  OBVIOUS
<1>1. Analysis!IsFiniteSet(Doc) /\ MaxStatements \in Nat \ {0}
  BY DEF Stated, IsFiniteSet, Analysis!IsFiniteSet
<1>2. Spec => Analysis!Spec
  BY EngineFeedsTheBoard
<1>3. Analysis!Spec => []Analysis!StrongIsIndependent
  BY <1>1, Analysis!StrongSupportIsIndependent
<1>4. Analysis!Spec => []Analysis!GapsAreUncorroborated
  BY <1>1, Analysis!GapsNeverCorroborated
<1>5. Analysis!Spec => []Analysis!GraphIsWellFormed
  BY <1>1, Analysis!GraphWellFormed
<1>6. Analysis!Spec => []Analysis!SourcesReachTheirFindings
  BY <1>1, Analysis!InfluenceIsShown
<1>7. Analysis!Spec => Analysis!EvidenceIsMonotone
  BY <1>1, Analysis!EvidenceAccumulates
<1>8. Analysis!Spec => Analysis!DeltaMatchesBoard
  BY <1>1, Analysis!DeltaIsCounted
<1> QED
  BY <1>2, <1>3, <1>4, <1>5, <1>6, <1>7, <1>8, PTL

\* The records of an entity and a day, as the board groups them.
RecordsAbout(entity, day) ==
    Analysis!Documents(Analysis!Group(Analysis!ActiveEvents, [entity |-> entity, day |-> day]))

\* The timeline of a statement and the findings about it start from the same records.
LEMMA SameRecords ==
    ASSUME Stated, NEW s \in Statement
    PROVE  RecordsAbout(s.entity, s.day) = ActiveFor(KeyFor(s.entity, s.day))
<1> DEFINE k == KeyFor(s.entity, s.day)
<1>1. ASSUME NEW d \in RecordsAbout(s.entity, s.day) PROVE d \in ActiveFor(k)
  <2>1. PICK e \in Analysis!ActiveEvents : e.document = d /\ e.entity = s.entity /\ e.day = s.day
    BY <1>1 DEF RecordsAbout, Analysis!Documents, Analysis!Group
  <2>2. PICK o \in Doc : /\ docs[o].added # 0 /\ docs[o].retracted = 0
                         /\ \E t \in StatementsOf[o] : /\ e.document = o
                                                       /\ e.entity = t.entity /\ e.day = t.day
    BY <2>1 DEF Analysis!ActiveEvents
  <2>3. d = o /\ k \in KeysOf[o]
    BY <2>1, <2>2 DEF Stated
  <2> QED
    BY <2>2, <2>3 DEF ActiveFor, Active
<1>2. ASSUME NEW d \in ActiveFor(k) PROVE d \in RecordsAbout(s.entity, s.day)
  <2>1. d \in Doc /\ k \in KeysOf[d] /\ docs[d].added # 0 /\ docs[d].retracted = 0
    BY <1>2 DEF ActiveFor, Active
  <2>2. PICK t \in StatementsOf[d] : t \in Statement /\ KeyFor(t.entity, t.day) = k
    BY <2>1 DEF Stated
  <2>3. t.entity = s.entity /\ t.day = s.day
    BY <2>2 DEF Stated
  <2> DEFINE e == [assertion |-> <<d, t>>, document |-> d, source_type |-> SourceTypeOf[d],
                   entity |-> t.entity, day |-> t.day, kind |-> t.kind]
         active == Doc \ {o \in Doc : docs[o].retracted # 0}
         said == [o \in Doc |-> IF docs[o].added # 0 THEN StatementsOf[o] ELSE {}]
         EventsOf(o) == {[assertion |-> <<o, c>>, document |-> o,
                          source_type |-> SourceTypeOf[o], entity |-> c.entity,
                          day |-> c.day, kind |-> c.kind] : c \in said[o]}
  <2>4. e \in Analysis!ActiveEvents
    <3>1. said[d] = StatementsOf[d] /\ d \in active
      BY <2>1
    <3>2. e \in EventsOf(d)
      BY <2>2, <3>1
    <3>3. Analysis!ActiveEvents = UNION {EventsOf(o) : o \in active}
      BY DEF Analysis!ActiveEvents
    <3> HIDE DEF e, EventsOf, said, active
    <3> QED
      BY <3>1, <3>2, <3>3
  <2>5. e.document = d /\ e.entity = s.entity /\ e.day = s.day
    BY <2>3
  <2> HIDE DEF e
  <2> QED
    BY <2>4, <2>5 DEF RecordsAbout, Analysis!Documents, Analysis!Group
<1> QED
  BY <1>1, <1>2

\* With sessions in UTC the two derived views of a case agree: a timeline that is fresh
\* shows exactly the records that the findings about its entity and day are drawn from.
FreshTimelinesMatchTheBoard ==
    \A s \in Statement :
        LET k == KeyFor(s.entity, s.day)
        IN  k \in artifacts /\ Fresh(k)
                => CurrentVersion(k).payload = RecordsAbout(s.entity, s.day)

THEOREM TimelinesMatchTheBoard ==
    Stated /\ SessionsInUTC => (Spec => []FreshTimelinesMatchTheBoard)
<1> SUFFICES ASSUME Stated, SessionsInUTC PROVE Spec => []FreshTimelinesMatchTheBoard
  OBVIOUS
<1>1. FreshIsExact => FreshTimelinesMatchTheBoard
  BY SameRecords DEF FreshIsExact, FreshTimelinesMatchTheBoard
<1> QED
  BY <1>1, FreshTimelinesAreExact, PTL
=============================================================================
