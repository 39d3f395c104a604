--------------------------- MODULE EvidenceService ---------------------------
(***************************************************************************)
(* Mutations of the case: ingest_document and retract_document.  A         *)
(* mutation is one transaction.  It locks the case row, so mutations of a  *)
(* case run one after the other, but it shares the change-key rows with    *)
(* the workers: each statement that can wait for one of their locks, or    *)
(* reads what they write, is a step of its own.                            *)
(***************************************************************************)
EXTENDS EvidenceStore

Operation == {"ADD_DOCUMENT", "RETRACT_DOCUMENT"}

\* No row of the case records this mutation yet.  Otherwise the request is
\* answered as deduplicated and the transaction writes nothing.
NotRecorded(op, d) ==
    \/ /\ op = "ADD_DOCUMENT"
       /\ docs[d].added = 0
    \/ /\ op = "RETRACT_DOCUMENT"
       /\ docs[d].added # 0
       /\ docs[d].retracted = 0

\* Mutant: the idempotency check comes before the lock and is not repeated.
LockCaseAfterCheck(c, op, d) ==
    /\ tx[c].pc = "idle"
    /\ revision < MaxRevision
    /\ NotRecorded(op, d)
    /\ tx' = [tx EXCEPT ![c] = [IdleTx EXCEPT !.pc = "touch", !.operation = op,
                                              !.doc = d, !.rev = revision + 1]]
    /\ UNCHANGED <<tables, worker>>

\* SELECT ... FOR UPDATE of the case row, then the idempotency check, then
\* revision += 1.  Only a holder of the case row writes the rows it reads.
LockCase(c, op, d) ==
    /\ tx[c].pc = "idle"
    /\ ~CaseLocked
    /\ revision < MaxRevision
    /\ NotRecorded(op, d)
    /\ tx' = [tx EXCEPT ![c] = [IdleTx EXCEPT !.pc = "touch", !.operation = op,
                                              !.doc = d, !.rev = revision + 1]]
    /\ UNCHANGED <<tables, worker>>

\* An ingestion derives the keys from the request, whose times the schema has
\* put into UTC; a retraction derives them from the rows it loads.
AffectedKeys(op, d) == IF op = "ADD_DOCUMENT" THEN KeysOf[d] ELSE KeysReadBack[d]
Untouched(t) == AffectedKeys(t.operation, t.doc) \ t.locked

\* The next key in sorted order: its version is set and flushed.  The UPDATE
\* waits for a worker that holds the row and keeps it until the commit.
TouchKey(c) ==
    /\ tx[c].pc = "touch"
    /\ \E k \in Untouched(tx[c]) :
         /\ \A other \in Untouched(tx[c]) : k <= other
         /\ ~KeyLocked(k)
         /\ tx' = [tx EXCEPT ![c] = [@ EXCEPT !.pc = "dependents", !.key = k,
                                              !.locked = tx[c].locked \cup {k}]]
    /\ UNCHANGED <<tables, worker>>

\* Mutant: every timeline of the case depends on every key.
DependentsOfCase(k) == {a \in artifacts : current[a] # 0}

\* Artifacts whose current version recorded a read of key k.
Dependents(k) ==
    {a \in artifacts : current[a] # 0 /\ CurrentVersion(a).change_key = k}

\* Mutant: a mutation that holds the key also locks the job the key has had.
ReadDependentsAndJob(c) ==
    /\ tx[c].pc = "dependents"
    /\ LET key == tx[c].key
           found == Dependents(key)
       IN  /\ keyVersion[key] # 0 => ~JobLocked(<<key, keyVersion[key]>>)
           /\ tx' = [tx EXCEPT ![c] = [@ EXCEPT
                        !.pc = IF found = {} THEN "bootstrap" ELSE "touch",
                        !.queued = tx[c].queued \cup found]]
    /\ UNCHANGED <<tables, worker>>

ReadDependents(c) ==
    /\ tx[c].pc = "dependents"
    /\ LET found == Dependents(tx[c].key)
       IN  tx' = [tx EXCEPT ![c] = [@ EXCEPT
                    !.pc = IF found = {} THEN "bootstrap" ELSE "touch",
                    !.queued = tx[c].queued \cup found]]
    /\ UNCHANGED <<tables, worker>>

\* Mutant: only a timeline that has just been created is queued.
BootstrapNewOnly(c) ==
    /\ tx[c].pc = "bootstrap"
    /\ LET k == tx[c].key
           new == {k} \ artifacts
       IN  tx' = [tx EXCEPT ![c] = [@ EXCEPT !.pc = "touch",
                                             !.created = tx[c].created \cup new,
                                             !.queued = tx[c].queued \cup new]]
    /\ UNCHANGED <<tables, worker>>

\* No dependency record: fall back to the artifact of the key itself, create
\* it when it is missing, and queue it only if it was never published.
Bootstrap(c) ==
    /\ tx[c].pc = "bootstrap"
    /\ LET k == tx[c].key
       IN  tx' = [tx EXCEPT ![c] = [@ EXCEPT
                    !.pc = "touch",
                    !.created = tx[c].created \cup ({k} \ artifacts),
                    !.queued = tx[c].queued
                                 \cup (IF current[k] = 0 THEN {k} ELSE {})]]
    /\ UNCHANGED <<tables, worker>>

\* One job for each queued artifact and this revision, unless it is there.
JobsWith(t) ==
    [j \in JobId |-> IF j[1] \in t.queued /\ j[2] = t.rev /\ ~Exists(j)
                       THEN NewJob ELSE jobs[j]]

UntouchedArtifacts(t) ==
    Cardinality(artifacts \cup t.created) - Cardinality(t.queued)

\* Every key is touched: insert a job for each artifact, write the change set
\* and commit everything, which releases the locks.
Commit(c) ==
    LET t == tx[c]
    IN  /\ t.pc = "touch"
        /\ Untouched(t) = {}
        /\ revision' = t.rev
        /\ docs' = IF t.operation = "ADD_DOCUMENT"
                     THEN [docs EXCEPT ![t.doc].added = t.rev]
                     ELSE [docs EXCEPT ![t.doc].retracted = t.rev]
        /\ keyVersion' = [k \in Key |-> IF k \in t.locked THEN t.rev
                                                          ELSE keyVersion[k]]
        /\ artifacts' = artifacts \cup t.created
        /\ jobs' = JobsWith(t)
        /\ changeSets' = Append(changeSets,
                [operation |-> t.operation, document |-> t.doc,
                 affected |-> t.locked, queued |-> t.queued,
                 untouched |-> UntouchedArtifacts(t)])
        /\ tx' = [tx EXCEPT ![c] = IdleTx]
        /\ UNCHANGED <<current, versions, worker>>

\* The request fails or its process dies before the commit.
Rollback(c) ==
    /\ tx[c].pc # "idle"
    /\ tx' = [tx EXCEPT ![c] = IdleTx]
    /\ UNCHANGED <<tables, worker>>

TxStep(c) == TouchKey(c) \/ ReadDependents(c) \/ Bootstrap(c) \/ Commit(c)

ServiceNext ==
    \E c \in Client :
        \/ \E op \in Operation, d \in Doc : LockCase(c, op, d)
        \/ TxStep(c)
        \/ Rollback(c)
=============================================================================
