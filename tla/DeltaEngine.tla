----------------------------- MODULE DeltaEngine -----------------------------
(***************************************************************************)
(* The engine as it is deployed: API processes that mutate one case and    *)
(* workers that keep its timelines up to date, side by side on the same    *)
(* tables.  This module composes the two and states what they promise.     *)
(***************************************************************************)
EXTENDS EvidenceService, RecomputeWorker

Next == ServiceNext \/ WorkerNext

Spec == Init /\ [][Next]_vars

\* Workers keep polling (WorkerLoop.run), an open transaction goes on or rolls
\* back, leases run out, and a session that waits for a row lock which is
\* released again and again gets it in the end (PostgreSQL queues the waiters).
Fairness ==
    /\ \A c \in Client : WF_vars(TxStep(c) \/ Rollback(c))
    /\ \A w \in Worker : /\ WF_vars(WorkerStep(w))
                         /\ SF_vars(LockKey(w) \/ LockKeyTooLate(w))
    /\ \A j \in JobId : WF_vars(LeaseExpires(j))

FairSpec == Spec /\ Fairness

-----------------------------------------------------------------------------
(* What readers are promised *)

\* A timeline that is reported fresh is the one a full rebuild would produce
\* from the assertions that are active now (current_artifact, "fresh").
FreshIsExact ==
    \A k \in artifacts : Fresh(k) => CurrentVersion(k).payload = ActiveFor(k)

Unfinished(j) == jobs[j].status \in {"QUEUED", "RUNNING"}
Drained == \A j \in JobId : ~Unfinished(j)
ShowsRebuild(k) == current[k] # 0 /\ CurrentVersion(k).payload = ActiveFor(k)
EqualsRebuild == \A k \in artifacts : ShowsRebuild(k)

\* The job for the version that the key of a timeline is at was given up.
GivenUp(k) == keyVersion[k] # 0 /\ jobs[<<k, keyVersion[k]>>].status = "FAILED_PERMANENT"

\* The invariant of DESIGN.md: after every committed mutation and after queued
\* work drains, incremental artifacts equal those of all active assertions.  A
\* job that was given up (_record_failure) is an exception for its own timeline,
\* until the key is touched again, and for no other.
DrainedUnlessFailed ==
    Drained => \A k \in artifacts : ShowsRebuild(k) \/ GivenUp(k)

\* A timeline that is not fresh has a job for the very version that its key is
\* at, and that job is waiting, running or visibly failed: no interleaving of a
\* publication with _touch_keys_and_queue loses an invalidation.
NoLostInvalidation ==
    \A k \in artifacts :
        Fresh(k) \/ /\ keyVersion[k] # 0
                    /\ jobs[<<k, keyVersion[k]>>].status \in
                           {"QUEUED", "RUNNING", "FAILED_PERMANENT"}

\* Every version ever published, not only the current one, shows the case as it
\* stood at the revision that its job was for: never a mixture of two revisions
\* (_compute reads the key, the inputs and the key again).
SnapshotExact ==
    \A k \in Key : \A n \in DOMAIN versions[k] :
        LET v == versions[k][n]
        IN  /\ v.observed = v.job
            /\ v.payload = ActiveForAt(k, v.job)

\* Readers never go back: the current version is the last one written, and each
\* version is for a later revision than the one before (_publish).
ViewNeverGoesBack ==
    \A k \in Key :
        /\ current[k] = Len(versions[k])
        /\ \A m, n \in DOMAIN versions[k] :
              m < n => versions[k][m].job < versions[k][n].job

-----------------------------------------------------------------------------
(* Invalidation is exact *)

\* One change set for each revision, and it, the source rows and the tombstones
\* tell one story: two requests that carry the same document, or retract it,
\* make one mutation (the check in ingest_document that follows the case lock).
LedgerTellsOneStory ==
    /\ Len(changeSets) = revision
    /\ \A d \in Doc, r \in Revision :
         /\ docs[d].added = r <=> /\ r \in DOMAIN changeSets
                                  /\ changeSets[r].operation = "ADD_DOCUMENT"
                                  /\ changeSets[r].document = d
         /\ docs[d].retracted = r <=> /\ r \in DOMAIN changeSets
                                      /\ changeSets[r].operation = "RETRACT_DOCUMENT"
                                      /\ changeSets[r].document = d

\* A mutation queues work for the timelines of its own assertions, all of them
\* and no other, and the key of each stands at the last mutation that touched it.
\* Its change set says so: the timelines it left untouched are those that existed
\* at its revision and have none of its keys.
InvalidationExact ==
    /\ \A j \in JobId :
         Exists(j) <=> /\ j[2] \in DOMAIN changeSets
                       /\ j[1] \in KeysOf[changeSets[j[2]].document]
    /\ \A k \in Key : \A r \in DOMAIN changeSets :
         k \in KeysOf[changeSets[r].document] => keyVersion[k] >= r
    /\ \A r \in DOMAIN changeSets :
         LET existed == UNION {changeSets[s].affected : s \in 1..r}
         IN  /\ changeSets[r].queued = changeSets[r].affected
             /\ changeSets[r].untouched = Cardinality(existed \ changeSets[r].affected)

-----------------------------------------------------------------------------
(* The queue *)

\* Exactly the jobs that succeeded have published, and each of them once, also
\* when the answer to the commit was lost or two workers ran the job.
PublishedIffSucceeded ==
    \A j \in JobId :
        Cardinality(Existing(j)) = IF jobs[j].status = "SUCCEEDED" THEN 1 ELSE 0

\* A job leaves RUNNING by the hand of the worker whose claim is in the row, or
\* in a claim transaction that found its last lease run out (_owns_claim).
CompletionFenced ==
    [][\A j \in JobId :
          (jobs[j].status = "RUNNING" /\ jobs'[j].status # "RUNNING") =>
              \/ \E w \in Worker : /\ worker[w].job = j
                                   /\ worker[w].token = jobs[j].token
                                   /\ worker'[w] # worker[w]
              \/ LeaseOver(j) /\ jobs'[j].status = "FAILED_PERMANENT"]_vars

\* Mutations lock the case, then keys; workers lock a job, then its key.  Some
\* session that has begun can always go on without another having to die.
NoLockCycle ==
    ((\E c \in Client : tx[c].pc # "idle") \/ (\E w \in Worker : Busy(w))) =>
        \/ \E c \in Client : ENABLED TxStep(c)
        \/ \E w \in Worker : Busy(w) /\ ENABLED WorkerStep(w)

-----------------------------------------------------------------------------
(* What all of it amounts to *)

\* The state of a timeline is that of the job for the version of its key.
TimelineStatus(k) ==
    LET status == jobs[<<k, keyVersion[k]>>].status
    IN  CASE keyVersion[k] = 0                 -> "absent"
          [] OTHER ->
               CASE status \in {"QUEUED", "RUNNING"} -> "pending"
                 [] status = "SUCCEEDED"             -> "fresh"
                 [] status = "FAILED_PERMANENT"      -> "failed"
                 [] OTHER                            -> "lost"

TimelineShown(k) == IF current[k] = 0 THEN {} ELSE CurrentVersion(k).payload

View == INSTANCE TimelineView WITH
    recorded <- {d \in Doc : docs[d].added # 0},
    active   <- {d \in Doc : Active(d)},
    status   <- [k \in Key |-> TimelineStatus(k)],
    view     <- [k \in Key |-> TimelineShown(k)]

\* Seen from outside, a commit of a mutation, a publication and a failure are
\* single steps and everything else is invisible: every published timeline is
\* the rebuild of the evidence that is active in the step that publishes it.
ImplementsView == View!Spec

-----------------------------------------------------------------------------
(* Progress *)

\* Every job is settled in the end, whatever fails, dies or is overtaken.
JobsSettle == \A j \in JobId : Exists(j) ~> Terminal(j)

\* A timeline that is not up to date becomes fresh, or its latest job is visibly
\* failed: nothing stays stale in silence.
StaleIsResolved ==
    \A k \in Key :
        (k \in artifacts /\ ~Fresh(k)) ~>
            (Fresh(k) \/ TimelineStatus(k) = "failed")
=============================================================================
