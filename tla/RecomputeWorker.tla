--------------------------- MODULE RecomputeWorker ---------------------------
(***************************************************************************)
(* RecomputeWorker.run_once, repeated by WorkerLoop.  A run claims a job   *)
(* in one transaction, computes in a second that takes no lock, and        *)
(* publishes in a third; a failed or superseded run is recorded in a       *)
(* transaction of its own.  Between any two of them, and between the       *)
(* statements of the second and third, mutations and other workers run.    *)
(***************************************************************************)
EXTENDS EvidenceStore

Busy(w) == worker[w].pc # "idle"

\* The exception that ends a run unwinds its reads; the claim is kept.
Unwound(w, pc, retryable) ==
    [IdleWorker EXCEPT !.pc = pc, !.job = worker[w].job,
                       !.token = worker[w].token, !.retryable = retryable]

\* Write the status of a job that nobody holds a claim on any more.
Released(j, status) ==
    [jobs[j] EXCEPT !.status = status, !.lease = "NULL", !.token = 0]

-----------------------------------------------------------------------------
(* Claim *)

LeaseOver(j) == jobs[j].status = "RUNNING" /\ jobs[j].lease = "EXPIRED"

\* Mutant: nobody looks for jobs whose last attempt has died.
NoneExhausted == {}

\* Mutant: only jobs that wait are claimed, an expired lease is not taken over.
OnlyQueued == {j \in JobId : jobs[j].status = "QUEUED" /\ ~JobLocked(j)}

\* Mutant: the attempts are not looked at.
ClaimableForEver ==
    {j \in JobId : (jobs[j].status = "QUEUED" \/ LeaseOver(j)) /\ ~JobLocked(j)}

\* Both selects skip the rows that another session has locked.
Exhausted ==
    {j \in JobId : /\ LeaseOver(j)
                   /\ jobs[j].attempts >= MaxAttempts
                   /\ ~JobLocked(j)}
Claimable ==
    {j \in JobId : /\ jobs[j].status = "QUEUED" \/ LeaseOver(j)
                   /\ jobs[j].attempts < MaxAttempts
                   /\ ~JobLocked(j)}

\* ORDER BY created_at; among jobs of one mutation the random id decides.
FirstInQueue ==
    {j \in Claimable : \A other \in Claimable :
                          CreatedAt[j[2]] <= CreatedAt[other[2]]}

Swept == [j \in JobId |-> IF j \in Exhausted THEN Released(j, "FAILED_PERMANENT")
                                             ELSE jobs[j]]

\* A crashed worker's last attempt becomes visible as a failure.
SweepOnly(w) ==
    /\ ~Busy(w)
    /\ Claimable = {}
    /\ Exhausted # {}
    /\ jobs' = Swept
    /\ UNCHANGED <<revision, docs, keyVersion, artifacts, current, versions,
                   changeSets, tx, worker>>

\* run_once returns claimed=False and the loop waits for the next poll.
PollEmpty(w) ==
    /\ ~Busy(w)
    /\ Claimable = {}
    /\ Exhausted = {}
    /\ UNCHANGED vars

\* A new uuid4 for every claim.
NewToken(j) == jobs[j].attempts + 1

Claim(w) ==
    /\ ~Busy(w)
    /\ \E j \in FirstInQueue :
         /\ jobs' = [Swept EXCEPT ![j] = [status |-> "RUNNING",
                                          attempts |-> jobs[j].attempts + 1,
                                          lease |-> "LIVE",
                                          token |-> NewToken(j)]]
         /\ worker' = [worker EXCEPT ![w] = [IdleWorker EXCEPT
                         !.pc = "claimed", !.job = j, !.token = NewToken(j)]]
    /\ UNCHANGED <<revision, docs, keyVersion, artifacts, current, versions,
                   changeSets, tx>>

-----------------------------------------------------------------------------
(* Compute: three statements, each of which sees what is committed by then *)

JobKey(w) == worker[w].job[1]
Target(w) == worker[w].job[2]

\* Mutant: the version of the key is not compared with the job's target.
ReadFirstAnyTarget(w) ==
    /\ worker[w].pc = "claimed"
    /\ worker' = [worker EXCEPT ![w] = [@ EXCEPT !.pc = "first_read",
                                                 !.first = keyVersion[JobKey(w)]]]
    /\ UNCHANGED <<tables, tx>>

ReadFirst(w) ==
    /\ worker[w].pc = "claimed"
    /\ worker' = [worker EXCEPT ![w] =
                     IF keyVersion[JobKey(w)] = Target(w)
                       THEN [@ EXCEPT !.pc = "first_read",
                                      !.first = keyVersion[JobKey(w)]]
                       ELSE Unwound(w, "superseding", FALSE)]
    /\ UNCHANGED <<tables, tx>>

ReadInputs(w) ==
    /\ worker[w].pc = "first_read"
    /\ worker' = [worker EXCEPT ![w] = [@ EXCEPT !.pc = "inputs_read",
                                                 !.inputs = ActiveFor(JobKey(w))]]
    /\ UNCHANGED <<tables, tx>>

\* Mutant: the second read is recorded instead of compared.
ReadSecondAnyVersion(w) ==
    /\ worker[w].pc = "inputs_read"
    /\ worker' = [worker EXCEPT ![w] = [@ EXCEPT !.pc = "computed",
                                                 !.first = keyVersion[JobKey(w)]]]
    /\ UNCHANGED <<tables, tx>>

ReadSecond(w) ==
    /\ worker[w].pc = "inputs_read"
    /\ worker' = [worker EXCEPT ![w] =
                     IF keyVersion[JobKey(w)] = worker[w].first
                       THEN [@ EXCEPT !.pc = "computed"]
                       ELSE Unwound(w, "superseding", FALSE)]
    /\ UNCHANGED <<tables, tx>>

-----------------------------------------------------------------------------
(* Publish *)

\* Mutant: whoever runs a job that is running owns it.
OwnsAnyRunning(w) == jobs[worker[w].job].status = "RUNNING"

OwnsClaim(w) ==
    LET persisted == jobs[worker[w].job]
    IN  /\ persisted.status = "RUNNING"
        /\ persisted.token # 0
        /\ persisted.token = worker[w].token

\* SELECT ... FOR UPDATE of the job row.  A run that has lost its claim stops.
LockJob(w) ==
    /\ worker[w].pc = "computed"
    /\ ~JobLocked(worker[w].job)
    /\ worker' = [worker EXCEPT ![w] = IF OwnsClaim(w)
                                         THEN [@ EXCEPT !.pc = "job_locked"]
                                         ELSE IdleWorker]
    /\ UNCHANGED <<tables, tx>>

\* After the commit the run is over; when the answer to the commit is lost, it
\* goes on as a failed run although everything it wrote is there.
RunEnds(w) ==
    \/ worker' = [worker EXCEPT ![w] = IdleWorker]
    \/ worker' = [worker EXCEPT ![w] = Unwound(w, "failing", TRUE)]

\* Mutant: the key is locked but its version is not compared.
KeyNotCompared(w) == TRUE
KeyUnchanged(w) == keyVersion[JobKey(w)] = worker[w].first

\* Mutant: the key is read without FOR UPDATE.
ReadKey(w) ==
    /\ worker[w].pc = "job_locked"
    /\ KeyUnchanged(w)
    /\ worker' = [worker EXCEPT ![w] = [@ EXCEPT !.pc = "publishing"]]
    /\ UNCHANGED <<tables, tx>>

\* SELECT ... FOR UPDATE of the change key: it waits for the mutation that
\* holds the row, then returns what that mutation committed.
LockKey(w) ==
    /\ worker[w].pc = "job_locked"
    /\ ~KeyLocked(JobKey(w))
    /\ KeyUnchanged(w)
    /\ worker' = [worker EXCEPT ![w] = [@ EXCEPT !.pc = "publishing"]]
    /\ UNCHANGED <<tables, tx>>

LockKeyTooLate(w) ==
    /\ worker[w].pc = "job_locked"
    /\ ~KeyLocked(JobKey(w))
    /\ ~KeyUnchanged(w)
    /\ jobs' = [jobs EXCEPT ![worker[w].job] = Released(worker[w].job, "SUPERSEDED")]
    /\ RunEnds(w)
    /\ UNCHANGED <<revision, docs, keyVersion, artifacts, current, versions,
                   changeSets, tx>>

\* Version numbers that this job has already written.
Existing(j) == {n \in DOMAIN versions[j[1]] : versions[j[1]][n].job = j[2]}

\* Insert the version and its dependency row, unless this job has one already,
\* make it the current one and complete the job: all or nothing.
Publish(w) ==
    LET j == worker[w].job
        k == JobKey(w)
        new == [job |-> Target(w), change_key |-> k,
                observed |-> worker[w].first, payload |-> worker[w].inputs]
    IN  /\ worker[w].pc = "publishing"
        /\ IF Existing(j) = {}
             THEN /\ versions' = [versions EXCEPT ![k] = Append(@, new)]
                  /\ current' = [current EXCEPT ![k] = Len(versions[k]) + 1]
             ELSE /\ current' = [current EXCEPT ![k] = CHOOSE n \in Existing(j) : TRUE]
                  /\ UNCHANGED versions
        /\ jobs' = [jobs EXCEPT ![j] = Released(j, "SUCCEEDED")]
        /\ RunEnds(w)
        /\ UNCHANGED <<revision, docs, keyVersion, artifacts, changeSets, tx>>

-----------------------------------------------------------------------------
(* Runs that do not publish *)

\* An exception while computing or publishing rolls back the transaction.
Fail(w) ==
    /\ worker[w].pc \in {"claimed", "first_read", "inputs_read", "computed",
                         "job_locked", "publishing"}
    /\ \E retryable \in BOOLEAN :
         worker' = [worker EXCEPT ![w] = Unwound(w, "failing", retryable)]
    /\ UNCHANGED <<tables, tx>>

\* Mutant: the outcome of a run is written whoever owns the job.
SettleUnfenced(w, status) ==
    /\ ~JobLocked(worker[w].job)
    /\ jobs' = [jobs EXCEPT ![worker[w].job] = Released(worker[w].job, status)]
    /\ worker' = [worker EXCEPT ![w] = IdleWorker]
    /\ UNCHANGED <<revision, docs, keyVersion, artifacts, current, versions,
                   changeSets, tx>>

\* A transaction of its own, fenced by the claim token.
Settle(w, status) ==
    /\ ~JobLocked(worker[w].job)
    /\ jobs' = IF OwnsClaim(w)
                 THEN [jobs EXCEPT ![worker[w].job] = Released(worker[w].job, status)]
                 ELSE jobs
    /\ worker' = [worker EXCEPT ![w] = IdleWorker]
    /\ UNCHANGED <<revision, docs, keyVersion, artifacts, current, versions,
                   changeSets, tx>>

MarkSuperseded(w) ==
    /\ worker[w].pc = "superseding"
    /\ Settle(w, "SUPERSEDED")

Permanent(w) ==
    \/ ~worker[w].retryable
    \/ jobs[worker[w].job].attempts >= MaxAttempts

RecordFailure(w) ==
    /\ worker[w].pc = "failing"
    /\ Settle(w, IF Permanent(w) THEN "FAILED_PERMANENT" ELSE "QUEUED")

\* The process dies, or the transaction that settles the job fails: the claim
\* stays in the table until its lease runs out.
Crash(w) ==
    /\ Busy(w)
    /\ worker' = [worker EXCEPT ![w] = IdleWorker]
    /\ UNCHANGED <<tables, tx>>

\* The clock of the database passes lease_until.
LeaseExpires(j) ==
    /\ jobs[j].status = "RUNNING"
    /\ jobs[j].lease = "LIVE"
    /\ jobs' = [jobs EXCEPT ![j].lease = "EXPIRED"]
    /\ UNCHANGED <<revision, docs, keyVersion, artifacts, current, versions,
                   changeSets, tx, worker>>

\* What a worker does next when nothing goes wrong.
WorkerStep(w) ==
    \/ SweepOnly(w) \/ Claim(w)
    \/ ReadFirst(w) \/ ReadInputs(w) \/ ReadSecond(w)
    \/ LockJob(w) \/ LockKey(w) \/ LockKeyTooLate(w) \/ Publish(w)
    \/ MarkSuperseded(w) \/ RecordFailure(w)

WorkerNext ==
    \/ \E w \in Worker : WorkerStep(w) \/ PollEmpty(w) \/ Fail(w) \/ Crash(w)
    \/ \E j \in JobId : LeaseExpires(j)
=============================================================================
