----------------------------- MODULE QueueProofs -----------------------------
(***************************************************************************)
(* What the queue guarantees, in any time zone: the invariant of locks,    *)
(* keys, jobs, versions and workers, and the theorems that rest on it.     *)
(***************************************************************************)
EXTENDS DeltaEngineProofs, WellFoundedInduction

-----------------------------------------------------------------------------
(* The invariant.  The properties speak of the tables; what keeps them true    *)
(* is who holds which lock, what an open mutation has done so far, and what a  *)
(* worker may still rely on of what it has read.                               *)

Reading == {"first_read", "inputs_read", "computed", "job_locked", "publishing"}
HoldsJob(w) == worker[w].pc \in {"job_locked", "publishing"}

\* The keys whose timelines an open mutation has looked for.
Processed(t) == IF t.pc = "touch" THEN t.locked ELSE t.locked \ {t.key}

\* An open mutation writes the next revision, is not recorded, holds locks on keys
\* of its own document, and has queued the timelines of the keys it has processed.
TxSound(c) ==
    LET t == tx[c]
    IN  /\ t.pc = "idle" => t.locked = {}
        /\ t.pc # "idle" =>
             /\ t.rev = revision + 1
             /\ NotRecorded(t.operation, t.doc)
             /\ t.locked \subseteq AffectedKeys(t.operation, t.doc)
             /\ t.queued = Processed(t)
             /\ artifacts \cup t.created = artifacts \cup Processed(t)
        /\ t.pc \in {"dependents", "bootstrap"} => t.key \in t.locked
        /\ t.pc = "bootstrap" => current[t.key] = 0

LocksSound ==
    /\ \A c, d \in Client : tx[c].pc # "idle" /\ tx[d].pc # "idle" => c = d
    /\ \A c \in Client : TxSound(c)

\* A key has a timeline from its first mutation on, and the last mutation of it has
\* left a job.
KeySound(k) ==
    /\ keyVersion[k] <= revision
    /\ k \in artifacts <=> keyVersion[k] # 0
    /\ keyVersion[k] # 0 => Exists(<<k, keyVersion[k]>>)

\* No job is ahead of its key, only overtaken jobs are superseded, and a job that
\* has succeeded has published.
JobSound(j) ==
    /\ Exists(j) => j[2] <= keyVersion[j[1]]
    /\ jobs[j].status = "SUPERSEDED" => j[2] < keyVersion[j[1]]
    /\ jobs[j].status = "SUCCEEDED" => Existing(j) # {}

\* A version is of its own key and of a job that has succeeded.
VersionSound(k, n) ==
    LET v == versions[k][n]
    IN  /\ v.change_key = k
        /\ v.observed = v.job
        /\ jobs[<<k, v.job>>].status = "SUCCEEDED"
VersionsSound(k) ==
    /\ current[k] = Len(versions[k])
    /\ \A n \in 1..Len(versions[k]) : VersionSound(k, n)
    /\ \A m, n \in 1..Len(versions[k]) : m < n => versions[k][m].job < versions[k][n].job

\* A worker has a job; while it holds the row of the job it owns the claim, and while
\* it publishes nobody can move the key from the version it has read.
WorkerSound(w) ==
    LET r == worker[w]
    IN  /\ r.pc # "idle" => Exists(r.job)
        /\ r.pc \in Reading => r.first = r.job[2]
        /\ r.pc = "superseding" => r.job[2] < keyVersion[r.job[1]]
        /\ HoldsJob(w) => jobs[r.job].status = "RUNNING" /\ jobs[r.job].token = r.token
        /\ r.pc = "publishing" => /\ keyVersion[r.job[1]] = r.first
                                  /\ \A c \in Client : r.job[1] \notin tx[c].locked
WorkersSound ==
    /\ \A w \in Worker : WorkerSound(w)
    /\ \A v, w \in Worker :
          HoldsJob(v) /\ HoldsJob(w) /\ worker[v].job = worker[w].job => v = w

TablesSound ==
    /\ \A k \in Key : KeySound(k) /\ VersionsSound(k)
    /\ \A j \in JobId : JobSound(j)

QueueInv == Shape /\ LocksSound /\ TablesSound /\ WorkersSound

LEMMA InitQueue == Init => QueueInv
<1> SUFFICES ASSUME Init PROVE QueueInv
  OBVIOUS
<1>1. LocksSound
  BY DEF Init, LocksSound, TxSound, IdleTx
<1>2. TablesSound
  <2>1. \A j \in JobId : jobs[j].status = "NO_ROW"
    BY DEF Init, NoRow
  <2>2. \A k \in Key : KeySound(k) /\ VersionsSound(k)
    BY DEF Init, KeySound, VersionsSound
  <2> QED
    BY <2>1, <2>2 DEF TablesSound, JobSound, Exists
<1>3. WorkersSound
  BY DEF Init, WorkersSound, WorkerSound, HoldsJob, Reading, IdleWorker
<1> QED
  BY <1>1, <1>2, <1>3, InitShape DEF QueueInv

-----------------------------------------------------------------------------
(* Mutations that are open                                                     *)

\* The one transaction that is open, and what is known of it.
LEMMA OpenTx ==
    ASSUME QueueInv, NEW c \in Client, tx[c].pc # "idle"
    PROVE  /\ tx \in [Client -> Tx] /\ tx[c] \in Tx /\ TxShaped(tx[c]) /\ TxSound(c)
           /\ \A d \in Client \ {c} : tx[d].pc = "idle"
  BY DEF QueueInv, Shape, TypeOK, LocksSound

\* A step of one transaction that locks no key a worker is publishing.
LEMMA TxMovesQueue ==
    ASSUME QueueInv, Shape', NEW c \in Client, TxSound(c)',
           \A d \in Client \ {c} : tx'[d] = tx[d],
           tx'[c].pc # "idle" => \A d \in Client \ {c} : tx[d].pc = "idle",
           \A k \in tx'[c].locked : k \in tx[c].locked \/ ~KeyLockedByWorker(k),
           UNCHANGED <<tables, worker>>
    PROVE  QueueInv'
<1>1. UNCHANGED <<revision, docs, keyVersion, artifacts, current, versions, jobs, worker>>
  BY DEF tables
<1>2. LocksSound'
  <2>1. \A d \in Client \ {c} : TxSound(d)'
    BY <1>1 DEF QueueInv, LocksSound, TxSound, NotRecorded, Processed
  <2>2. \A d, e \in Client : tx'[d].pc # "idle" /\ tx'[e].pc # "idle" => d = e
    BY DEF QueueInv, LocksSound
  <2> QED
    BY <2>1, <2>2 DEF LocksSound
<1>3. TablesSound'
  BY <1>1 DEF QueueInv, TablesSound, KeySound, VersionsSound, VersionSound, JobSound, Exists,
     Existing
<1>4. WorkersSound'
  <2>1. ASSUME NEW w \in Worker PROVE WorkerSound(w)'
    <3>1. worker[w].pc = "publishing" =>
            \A d \in Client : worker[w].job[1] \notin tx'[d].locked
      BY DEF QueueInv, WorkersSound, WorkerSound, KeyLockedByWorker
    <3> QED
      BY <1>1, <3>1 DEF QueueInv, WorkersSound, WorkerSound, Exists, HoldsJob
  <2> QED
    BY <1>1, <2>1 DEF QueueInv, WorkersSound, HoldsJob
<1> QED
  BY <1>2, <1>3, <1>4 DEF QueueInv

LEMMA LockCaseQueue ==
    ASSUME QueueInv, NEW c \in Client, NEW op \in Operation, NEW d \in Doc, LockCase(c, op, d)
    PROVE  QueueInv'
<1> DEFINE t == [IdleTx EXCEPT !.pc = "touch", !.operation = op, !.doc = d,
                               !.rev = revision + 1]
<1>1. tx' = [tx EXCEPT ![c] = t] /\ UNCHANGED <<tables, worker>> /\ tx \in [Client -> Tx]
  BY DEF LockCase, QueueInv, Shape, TypeOK
<1>2. tx'[c] = t /\ \A e \in Client \ {c} : tx'[e] = tx[e]
  BY <1>1
<1>3. /\ t.pc = "touch" /\ t.operation = op /\ t.doc = d /\ t.rev = revision + 1
      /\ t.locked = {} /\ t.queued = {} /\ t.created = {}
  BY DEF IdleTx
<1>4. NotRecorded(op, d) /\ \A e \in Client : tx[e].pc = "idle"
  BY DEF LockCase, CaseLocked
<1>5. NotRecorded(op, d)' /\ revision' = revision /\ artifacts' = artifacts
  BY <1>1, <1>4 DEF NotRecorded, tables
<1> HIDE DEF t
<1>6. TxSound(c)'
  BY <1>2, <1>3, <1>5 DEF TxSound, Processed
<1> QED
  BY <1>1, <1>2, <1>3, <1>4, <1>6, TxMovesQueue, LockCaseShape DEF QueueInv

LEMMA TouchKeyQueue == ASSUME QueueInv, NEW c \in Client, TouchKey(c) PROVE QueueInv'
<1>1. tx[c].pc = "touch" /\ UNCHANGED <<tables, worker>>
  BY DEF TouchKey
<1>2. /\ tx \in [Client -> Tx] /\ tx[c] \in Tx /\ TxSound(c)
      /\ \A d \in Client \ {c} : tx[d].pc = "idle"
  BY <1>1, OpenTx
<1>3. PICK k \in Untouched(tx[c]) :
        /\ ~KeyLocked(k)
        /\ tx' = [tx EXCEPT ![c] = [@ EXCEPT !.pc = "dependents", !.key = k,
                                             !.locked = tx[c].locked \cup {k}]]
  BY DEF TouchKey
<1>4. /\ tx'[c].pc = "dependents" /\ tx'[c].key = k /\ tx'[c].locked = tx[c].locked \cup {k}
      /\ tx'[c].rev = tx[c].rev /\ tx'[c].operation = tx[c].operation /\ tx'[c].doc = tx[c].doc
      /\ tx'[c].queued = tx[c].queued /\ tx'[c].created = tx[c].created
      /\ \A d \in Client \ {c} : tx'[d] = tx[d]
  BY <1>2, <1>3 DEF Tx
<1>5. k \in AffectedKeys(tx[c].operation, tx[c].doc) /\ k \notin tx[c].locked
  BY <1>3 DEF Untouched
<1>6. Processed(tx'[c]) = Processed(tx[c])
  BY <1>1, <1>4, <1>5 DEF Processed
<1>7. TxSound(c)'
  BY <1>1, <1>2, <1>4, <1>5, <1>6 DEF TxSound, NotRecorded, tables
<1>8. \A l \in tx'[c].locked : l \in tx[c].locked \/ ~KeyLockedByWorker(l)
  BY <1>3, <1>4 DEF KeyLocked
<1> QED
  BY <1>1, <1>2, <1>4, <1>7, <1>8, TxMovesQueue, TouchKeyShape DEF QueueInv

\* The timelines that depend on a key: its own, once it has a version.
LEMMA DependentsOfKey ==
    ASSUME QueueInv, NEW k \in Key
    PROVE  Dependents(k) = IF current[k] # 0 THEN {k} ELSE {}
<1>1. ASSUME NEW a \in Key, current[a] # 0
      PROVE  a \in artifacts /\ CurrentVersion(a).change_key = a
  <2>1. versions[a] \in Seq(Version) /\ current[a] = Len(versions[a])
    BY DEF QueueInv, Shape, TypeOK, TablesSound, VersionsSound
  <2>2. current[a] \in 1..Len(versions[a])
    BY <1>1, <2>1
  <2>3. VersionSound(a, current[a]) /\ versions[a][current[a]] \in Version
    BY <2>1, <2>2 DEF QueueInv, TablesSound, VersionsSound
  <2> DEFINE j == <<a, versions[a][current[a]].job>>
  <2>4. j \in JobId /\ jobs[j].status = "SUCCEEDED"
    BY <2>3 DEF VersionSound, Version, JobId
  <2>5. Exists(j) /\ j[1] = a /\ j[2] \in Nat /\ j[2] > 0
    BY <2>3, <2>4, BoundAssumption DEF Exists, Version, Revision
  <2>6. keyVersion[a] \in Nat
    BY BoundAssumption DEF QueueInv, Shape, TypeOK, Stamp
  <2>7. keyVersion[a] # 0
    BY <2>4, <2>5, <2>6 DEF QueueInv, TablesSound, JobSound
  <2>8. a \in artifacts
    BY <2>7 DEF QueueInv, TablesSound, KeySound
  <2> QED
    BY <2>3, <2>8 DEF VersionSound, CurrentVersion
<1>2. artifacts \subseteq Key
  BY DEF QueueInv, Shape, TypeOK
<1> QED
  BY <1>1, <1>2 DEF Dependents

LEMMA ReadDependentsQueue == ASSUME QueueInv, NEW c \in Client, ReadDependents(c) PROVE QueueInv'
<1> DEFINE k == tx[c].key
<1>1. tx[c].pc = "dependents" /\ UNCHANGED <<tables, worker>>
  BY DEF ReadDependents
<1>2. /\ tx \in [Client -> Tx] /\ tx[c] \in Tx /\ TxSound(c) /\ k \in Key
      /\ \A d \in Client \ {c} : tx[d].pc = "idle"
  BY <1>1, OpenTx DEF TxShaped
<1>3. Dependents(k) = IF current[k] # 0 THEN {k} ELSE {}
  BY <1>2, DependentsOfKey
<1>4. /\ tx'[c].pc = IF current[k] = 0 THEN "bootstrap" ELSE "touch"
      /\ tx'[c].queued = tx[c].queued \cup (IF current[k] # 0 THEN {k} ELSE {})
      /\ tx'[c].key = k /\ tx'[c].locked = tx[c].locked /\ tx'[c].created = tx[c].created
      /\ tx'[c].rev = tx[c].rev /\ tx'[c].operation = tx[c].operation /\ tx'[c].doc = tx[c].doc
      /\ \A d \in Client \ {c} : tx'[d] = tx[d]
  BY <1>2, <1>3 DEF ReadDependents, Tx
<1>5. current[k] # 0 => k \in artifacts
  BY <1>2, <1>3 DEF Dependents
<1>6. k \in tx[c].locked
  BY <1>1, <1>2 DEF TxSound
<1>7. Processed(tx[c]) = tx[c].locked \ {k}
      /\ Processed(tx'[c]) = IF current[k] = 0 THEN tx[c].locked \ {k} ELSE tx[c].locked
  BY <1>1, <1>4 DEF Processed
<1>8. /\ tx'[c].queued = Processed(tx'[c])
      /\ artifacts \cup tx'[c].created = artifacts \cup Processed(tx'[c])
  BY <1>1, <1>2, <1>4, <1>5, <1>6, <1>7 DEF TxSound
<1>9. TxSound(c)'
  BY <1>1, <1>2, <1>4, <1>6, <1>8 DEF TxSound, NotRecorded, tables
<1> QED
  BY <1>1, <1>2, <1>4, <1>9, TxMovesQueue, ReadDependentsShape DEF QueueInv

LEMMA BootstrapQueue == ASSUME QueueInv, NEW c \in Client, Bootstrap(c) PROVE QueueInv'
<1> DEFINE k == tx[c].key
<1>1. tx[c].pc = "bootstrap" /\ UNCHANGED <<tables, worker>>
  BY DEF Bootstrap
<1>2. /\ tx \in [Client -> Tx] /\ tx[c] \in Tx /\ TxSound(c)
      /\ \A d \in Client \ {c} : tx[d].pc = "idle"
  BY <1>1, OpenTx
<1>3. k \in tx[c].locked /\ current[k] = 0
  BY <1>1, <1>2 DEF TxSound
<1>4. /\ tx'[c].pc = "touch" /\ tx'[c].queued = tx[c].queued \cup {k}
      /\ tx'[c].created = tx[c].created \cup ({k} \ artifacts)
      /\ tx'[c].key = k /\ tx'[c].locked = tx[c].locked
      /\ tx'[c].rev = tx[c].rev /\ tx'[c].operation = tx[c].operation /\ tx'[c].doc = tx[c].doc
      /\ \A d \in Client \ {c} : tx'[d] = tx[d]
  BY <1>2, <1>3 DEF Bootstrap, Tx
<1>5. Processed(tx[c]) = tx[c].locked \ {k} /\ Processed(tx'[c]) = tx[c].locked
  BY <1>1, <1>4 DEF Processed
<1>6. /\ tx'[c].queued = Processed(tx'[c])
      /\ artifacts \cup tx'[c].created = artifacts \cup Processed(tx'[c])
  BY <1>1, <1>2, <1>3, <1>4, <1>5 DEF TxSound
<1>7. TxSound(c)'
  BY <1>1, <1>2, <1>4, <1>6 DEF TxSound, NotRecorded, tables
<1> QED
  BY <1>1, <1>2, <1>4, <1>7, TxMovesQueue, BootstrapShape DEF QueueInv

LEMMA RollbackQueue == ASSUME QueueInv, NEW c \in Client, Rollback(c) PROVE QueueInv'
<1>0. tx \in [Client -> Tx]
  BY DEF QueueInv, Shape, TypeOK
<1>1. /\ tx'[c] = IdleTx /\ \A d \in Client \ {c} : tx'[d] = tx[d]
      /\ UNCHANGED <<tables, worker>>
  BY <1>0 DEF Rollback
<1>2. TxSound(c)' /\ tx'[c].pc = "idle" /\ tx'[c].locked = {}
  BY <1>1 DEF TxSound, IdleTx
<1> QED
  BY <1>1, <1>2, TxMovesQueue, RollbackShape DEF QueueInv

\* What a commit does to keys and jobs: the keys it has locked go to its revision,
\* which is the next one, and each of them gets a job that was not there.
LEMMA CommitWrites ==
    ASSUME QueueInv, NEW c \in Client, Commit(c)
    PROVE  LET t == tx[c]
           IN  /\ t.rev = revision + 1 /\ t.rev \in Revision /\ t.locked \subseteq Key
               /\ t.doc \in Doc /\ NotRecorded(t.operation, t.doc)
               /\ t.queued = t.locked /\ t.locked = AffectedKeys(t.operation, t.doc)
               /\ artifacts' = artifacts \cup t.locked
               /\ \A k \in Key : /\ k \in t.locked => keyVersion'[k] = t.rev
                                 /\ k \notin t.locked => keyVersion'[k] = keyVersion[k]
                                 /\ keyVersion[k] \in Nat /\ keyVersion[k] <= revision
                                 /\ keyVersion'[k] \in Nat /\ keyVersion[k] <= keyVersion'[k]
               /\ \A j \in JobId : Exists(j) => jobs'[j] = jobs[j]
               /\ \A j \in JobId : ~Exists(j) =>
                    jobs'[j] = IF j[1] \in t.locked /\ j[2] = t.rev THEN NewJob ELSE jobs[j]
<1> DEFINE t == tx[c]
<1>1. t.pc = "touch"
  BY DEF Commit
<1>2. t \in Tx /\ TxShaped(t) /\ TxSound(c)
  BY <1>1, OpenTx
<1>3. t.queued = t.locked /\ t.rev = revision + 1 /\ NotRecorded(t.operation, t.doc)
      /\ artifacts \cup t.created = artifacts \cup t.locked
      /\ t.locked \subseteq AffectedKeys(t.operation, t.doc)
  BY <1>1, <1>2 DEF TxSound, Processed
<1>4. revision \in Nat /\ t.rev \in Stamp /\ keyVersion \in [Key -> Stamp] /\ MaxRevision \in Nat
  BY <1>2, BoundAssumption DEF QueueInv, Shape, TypeOK, Stamp, Tx
<1>5. t.rev \in Revision
  BY <1>3, <1>4 DEF Stamp, Revision
<1>6. t.locked \subseteq Key /\ t.doc \in Doc
  BY <1>1, <1>2 DEF Tx, TxShaped
<1>7. t.locked = AffectedKeys(t.operation, t.doc)
  BY <1>3 DEF Commit, Untouched
<1>8. artifacts' = artifacts \cup t.locked
  BY <1>3 DEF Commit
<1>9. ASSUME NEW k \in Key
      PROVE  /\ k \in t.locked => keyVersion'[k] = t.rev
             /\ k \notin t.locked => keyVersion'[k] = keyVersion[k]
             /\ keyVersion[k] \in Nat /\ keyVersion[k] <= revision
             /\ keyVersion'[k] \in Nat /\ keyVersion[k] <= keyVersion'[k]
  <2>1. keyVersion'[k] = IF k \in t.locked THEN t.rev ELSE keyVersion[k]
    BY DEF Commit
  <2>2. keyVersion[k] \in Nat
    BY <1>4 DEF Stamp
  <2>3. keyVersion[k] <= revision
    BY DEF QueueInv, TablesSound, KeySound
  <2> QED
    BY <2>1, <2>2, <2>3, <1>3, <1>4
<1>10. \A j \in JobId : jobs'[j] = IF j[1] \in t.locked /\ j[2] = t.rev /\ ~Exists(j)
                                     THEN NewJob ELSE jobs[j]
  BY <1>3 DEF Commit, JobsWith
<1> QED
  BY <1>3, <1>5, <1>6, <1>7, <1>8, <1>9, <1>10

LEMMA CommitQueue == ASSUME QueueInv, NEW c \in Client, Commit(c) PROVE QueueInv'
<1> DEFINE t == tx[c]
<1>1. /\ t.pc = "touch" /\ revision' = t.rev /\ tx' = [tx EXCEPT ![c] = IdleTx]
      /\ UNCHANGED <<current, versions, worker>>
  BY DEF Commit
<1>2. tx \in [Client -> Tx] /\ \A d \in Client \ {c} : tx[d].pc = "idle"
  BY <1>1, OpenTx
<1>3. \A d \in Client : tx'[d].pc = "idle" /\ tx'[d].locked = {}
  BY <1>1, <1>2 DEF IdleTx, QueueInv, LocksSound, TxSound
<1>4. LocksSound'
  BY <1>3 DEF LocksSound, TxSound
<1>5. ASSUME NEW k \in Key, NEW r \in Revision
      PROVE  /\ Exists(<<k, r>>) => Exists(<<k, r>>)'
             /\ jobs[<<k, r>>].status = "SUCCEEDED" => jobs'[<<k, r>>].status = "SUCCEEDED"
  <2>1. <<k, r>> \in JobId
    BY DEF JobId
  <2> QED
    BY <2>1, CommitWrites DEF Exists
<1>6. TablesSound'
  <2>1. ASSUME NEW k \in Key PROVE KeySound(k)'
    <3>1. KeySound(k)
      BY DEF QueueInv, TablesSound
    <3>2. CASE k \in t.locked
      <4>1. keyVersion'[k] = t.rev /\ t.rev \in Revision /\ k \in artifacts' /\ t.rev # 0
        BY <3>2, CommitWrites DEF Revision
      <4>2. <<k, t.rev>> \in JobId
        BY <4>1 DEF JobId
      <4>3. jobs'[<<k, t.rev>>].status # "NO_ROW"
        BY <3>2, <4>2, CommitWrites DEF Exists, NewJob, NoRow
      <4> QED
        BY <1>1, <4>1, <4>3 DEF KeySound, Exists, Revision
    <3>3. CASE k \notin t.locked
      <4>1. /\ keyVersion'[k] = keyVersion[k] /\ keyVersion[k] \in Nat
            /\ keyVersion[k] <= revision /\ t.rev = revision + 1 /\ revision \in Nat
            /\ (k \in artifacts' <=> k \in artifacts) /\ t.rev \in Revision
        BY <3>3, CommitWrites DEF QueueInv, Shape, TypeOK, Stamp
      <4>2. keyVersion[k] # 0 => keyVersion[k] \in Revision
        BY <4>1, BoundAssumption DEF Revision
      <4>3. keyVersion[k] # 0 => Exists(<<k, keyVersion[k]>>)'
        BY <1>5, <3>1, <4>1, <4>2 DEF KeySound
      <4>4. keyVersion'[k] # 0 => Exists(<<k, keyVersion[k]>>)' /\ keyVersion'[k] = keyVersion[k]
        BY <4>1, <4>3
      <4>5. keyVersion'[k] # 0 => Exists(<<k, keyVersion[k]>>)'
        BY <4>4
      <4>6. keyVersion'[k] # 0 => jobs'[<<k, keyVersion'[k]>>].status # "NO_ROW"
        BY <4>1, <4>5 DEF Exists
      <4>7. keyVersion'[k] <= revision' /\ (k \in artifacts' <=> keyVersion'[k] # 0)
        BY <1>1, <3>1, <4>1 DEF KeySound
      <4> QED
        BY <4>6, <4>7 DEF KeySound, Exists
    <3> QED
      BY <3>2, <3>3
  <2>2. ASSUME NEW k \in Key PROVE VersionsSound(k)'
    <3>1. VersionsSound(k) /\ versions[k] \in Seq(Version)
      BY DEF QueueInv, TablesSound, Shape, TypeOK
    <3>2. ASSUME NEW n \in 1..Len(versions[k]) PROVE VersionSound(k, n)'
      <4>1. versions[k][n] \in Version
        BY <3>1
      <4>2. VersionSound(k, n) /\ versions[k][n].job \in Revision
        BY <3>1, <4>1 DEF VersionsSound, Version
      <4> QED
        BY <1>1, <1>5, <4>2 DEF VersionSound
    <3> QED
      BY <1>1, <3>1, <3>2 DEF VersionsSound
  <2>3. ASSUME NEW j \in JobId PROVE JobSound(j)'
    <3>1. JobSound(j) /\ j[1] \in Key /\ j[2] \in Nat
      BY DEF QueueInv, TablesSound, JobId, Revision
    <3>2. Existing(j)' = Existing(j)
      BY <1>1 DEF Existing
    <3>3. /\ keyVersion[j[1]] \in Nat /\ keyVersion'[j[1]] \in Nat
          /\ keyVersion[j[1]] <= keyVersion'[j[1]]
      BY <3>1, CommitWrites
    <3>4. CASE Exists(j)
      <4>1. jobs'[j] = jobs[j]
        BY <3>4, CommitWrites
      <4> QED
        BY <3>1, <3>2, <3>3, <4>1 DEF JobSound, Exists
    <3>5. CASE ~Exists(j) /\ j[1] \in t.locked /\ j[2] = t.rev
      <4>1. jobs'[j] = NewJob /\ keyVersion'[j[1]] = t.rev
        BY <3>1, <3>5, CommitWrites
      <4> QED
        BY <3>1, <3>3, <3>5, <4>1 DEF JobSound, Exists, NewJob, NoRow
    <3>6. CASE ~Exists(j) /\ ~(j[1] \in t.locked /\ j[2] = t.rev)
      <4>1. jobs'[j].status = "NO_ROW"
        BY <3>6, CommitWrites DEF Exists
      <4> QED
        BY <4>1 DEF JobSound, Exists
    <3> QED
      BY <3>4, <3>5, <3>6
  <2> QED
    BY <2>1, <2>2, <2>3 DEF TablesSound
<1>7. WorkersSound'
  <2>1. ASSUME NEW w \in Worker PROVE WorkerSound(w)'
    <3>1. WorkerSound(w) /\ worker'[w] = worker[w]
      BY <1>1 DEF QueueInv, WorkersSound
    <3>2. CASE worker[w].pc = "idle"
      BY <3>1, <3>2 DEF WorkerSound, Reading, HoldsJob
    <3>3. CASE worker[w].pc # "idle"
      <4> DEFINE j == worker[w].job
      <4>1. j \in JobId /\ Exists(j) /\ j[1] \in Key /\ j[2] \in Nat
        BY <3>1, <3>3 DEF QueueInv, Shape, WorkerShaped, WorkerSound, JobId, Revision
      <4>2. jobs'[j] = jobs[j]
        BY <4>1, CommitWrites
      <4>3. /\ keyVersion[j[1]] \in Nat /\ keyVersion'[j[1]] \in Nat
            /\ keyVersion[j[1]] <= keyVersion'[j[1]]
            /\ j[1] \notin t.locked => keyVersion'[j[1]] = keyVersion[j[1]]
        BY <4>1, CommitWrites
      <4> HIDE DEF j
      <4> QED
        BY <1>3, <3>1, <4>1, <4>2, <4>3 DEF WorkerSound, Exists, HoldsJob, j
    <3> QED
      BY <3>2, <3>3
  <2> QED
    BY <1>1, <2>1 DEF QueueInv, WorkersSound, HoldsJob
<1>8. Shape'
  BY CommitShape DEF QueueInv
<1> QED
  BY <1>4, <1>6, <1>7, <1>8 DEF QueueInv
-----------------------------------------------------------------------------
(* Runs of workers                                                             *)

\* A worker that does not move stays sound when no key moves, no job vanishes and the
\* claim on the job that it has locked is left alone.
LEMMA OtherStaysSound ==
    ASSUME QueueInv, NEW w \in Worker, worker'[w] = worker[w], UNCHANGED <<keyVersion, tx>>,
           \A j \in JobId : Exists(j) => Exists(j)',
           HoldsJob(w) => LET j == worker[w].job
                          IN  jobs'[j].status = jobs[j].status /\ jobs'[j].token = jobs[j].token
    PROVE  WorkerSound(w)'
<1>1. WorkerSound(w)
  BY DEF QueueInv, WorkersSound
<1>2. worker[w].pc # "idle" => worker[w].job \in JobId
  BY DEF QueueInv, Shape, WorkerShaped
<1>3. worker[w].pc # "idle" => Exists(worker[w].job)'
  BY <1>1, <1>2 DEF WorkerSound
<1>4. HoldsJob(w) => jobs'[worker[w].job].status = "RUNNING"
                     /\ jobs'[worker[w].job].token = worker[w].token
  BY <1>1 DEF WorkerSound
<1> QED
  BY <1>1, <1>3, <1>4 DEF WorkerSound, HoldsJob, Exists

\* A step of one worker that touches no row of a job another one has locked.
LEMMA OneWorkerMoves ==
    ASSUME QueueInv, NEW w \in Worker, WorkerSound(w)', UNCHANGED <<keyVersion, tx>>,
           \A v \in Worker \ {w} : worker'[v] = worker[v],
           \A j \in JobId : Exists(j) => Exists(j)',
           \A v \in Worker \ {w} : HoldsJob(v) =>
               LET j == worker[v].job
               IN  /\ jobs'[j].status = jobs[j].status /\ jobs'[j].token = jobs[j].token
                   /\ HoldsJob(w)' => worker'[w].job # j
    PROVE  WorkersSound'
<1>1. ASSUME NEW v \in Worker \ {w} PROVE WorkerSound(v)'
  BY OtherStaysSound
<1>2. ASSUME NEW u \in Worker, NEW v \in Worker, HoldsJob(u)', HoldsJob(v)',
             worker'[u].job = worker'[v].job
      PROVE  u = v
  BY <1>2 DEF QueueInv, WorkersSound, HoldsJob
<1> QED
  BY <1>1, <1>2 DEF WorkersSound

\* A step of the workers that publishes nothing and supersedes only overtaken jobs.
LEMMA JobsMove ==
    ASSUME QueueInv, Shape', WorkersSound',
           UNCHANGED <<revision, docs, keyVersion, artifacts, current, versions, changeSets, tx>>,
           \A j \in JobId :
              /\ Exists(j)' <=> Exists(j)
              /\ jobs'[j].status = "SUCCEEDED" <=> jobs[j].status = "SUCCEEDED"
              /\ jobs'[j].status = "SUPERSEDED" =>
                    jobs[j].status = "SUPERSEDED" \/ j[2] < keyVersion[j[1]]
    PROVE  QueueInv'
<1>1. LocksSound'
  BY DEF QueueInv, LocksSound, TxSound, NotRecorded, Processed
<1>2. ASSUME NEW j \in JobId PROVE JobSound(j)'
  <2>1. JobSound(j) /\ Existing(j)' = Existing(j)
    BY DEF QueueInv, TablesSound, Existing
  <2> QED
    BY <2>1 DEF JobSound
<1>3. ASSUME NEW k \in Key PROVE KeySound(k)'
  <2>1. KeySound(k) /\ keyVersion[k] \in Stamp
    BY DEF QueueInv, TablesSound, Shape, TypeOK
  <2>2. keyVersion[k] # 0 => <<k, keyVersion[k]>> \in JobId
    BY <2>1, BoundAssumption DEF JobId, Stamp, Revision
  <2>3. keyVersion[k] # 0 => jobs'[<<k, keyVersion[k]>>].status # "NO_ROW"
    BY <2>1, <2>2 DEF KeySound, Exists
  <2> QED
    BY <2>1, <2>3 DEF KeySound, Exists
<1>4. ASSUME NEW k \in Key PROVE VersionsSound(k)'
  <2>1. VersionsSound(k) /\ versions[k] \in Seq(Version)
    BY DEF QueueInv, TablesSound, Shape, TypeOK
  <2>2. ASSUME NEW n \in 1..Len(versions[k]) PROVE VersionSound(k, n)'
    <3>1. VersionSound(k, n) /\ versions[k][n] \in Version
      BY <2>1 DEF VersionsSound
    <3>2. <<k, versions[k][n].job>> \in JobId
      BY <3>1 DEF Version, JobId
    <3> QED
      BY <3>1, <3>2 DEF VersionSound
  <2> QED
    BY <2>1, <2>2 DEF VersionsSound
<1> QED
  BY <1>1, <1>2, <1>3, <1>4 DEF QueueInv, TablesSound

\* A worker that only reads, locks or gives up writes no table.
LEMMA WorkerMovesQueue ==
    ASSUME QueueInv, Shape', NEW w \in Worker, WorkerSound(w)', UNCHANGED <<tables, tx>>,
           \A v \in Worker \ {w} : worker'[v] = worker[v],
           \A v \in Worker \ {w} : HoldsJob(v) /\ HoldsJob(w)' => worker'[w].job # worker[v].job
    PROVE  QueueInv'
<1>1. WorkersSound'
  BY OneWorkerMoves DEF tables, Exists
<1> QED
  BY <1>1, JobsMove DEF tables, Exists

\* A busy worker, its job and what it has locked.
LEMMA BusySound ==
    ASSUME QueueInv, NEW w \in Worker, Busy(w)
    PROVE  /\ worker \in [Worker -> WorkerState] /\ worker[w] \in WorkerState /\ WorkerSound(w)
           /\ worker[w].job \in JobId /\ Exists(worker[w].job)
           /\ JobKey(w) \in Key /\ Target(w) \in Revision /\ worker[w].job = <<JobKey(w), Target(w)>>
           /\ Target(w) \in Nat /\ keyVersion[JobKey(w)] \in Nat /\ Target(w) <= keyVersion[JobKey(w)]
<1>1. /\ worker[w].job \in JobId /\ JobKey(w) \in Key /\ Target(w) \in Revision
      /\ worker[w].job = <<JobKey(w), Target(w)>> /\ keyVersion[JobKey(w)] \in Stamp
      /\ worker \in [Worker -> WorkerState] /\ WorkerSound(w)
  BY BusyWorker DEF QueueInv, Shape, TypeOK, WorkersSound
<1>2. Exists(worker[w].job)
  BY <1>1 DEF WorkerSound, Busy
<1>3. Target(w) \in Nat /\ keyVersion[JobKey(w)] \in Nat
  BY <1>1, BoundAssumption DEF Revision, Stamp
<1>4. Target(w) <= keyVersion[JobKey(w)]
  BY <1>1, <1>2 DEF QueueInv, TablesSound, JobSound, JobKey, Target
<1> QED
  BY <1>1, <1>2, <1>3, <1>4

LEMMA ReadFirstQueue == ASSUME QueueInv, NEW w \in Worker, ReadFirst(w) PROVE QueueInv'
<1>1. Busy(w) /\ UNCHANGED <<tables, tx>>
  BY DEF ReadFirst, Busy
<1>2. /\ worker \in [Worker -> WorkerState] /\ worker[w] \in WorkerState /\ WorkerSound(w)
      /\ Target(w) \in Nat /\ keyVersion[JobKey(w)] \in Nat /\ Target(w) <= keyVersion[JobKey(w)]
  BY <1>1, BusySound
<1>3. /\ worker'[w].job = worker[w].job
      /\ \/ worker'[w].pc = "first_read" /\ worker'[w].first = Target(w)
         \/ worker'[w].pc = "superseding" /\ keyVersion[JobKey(w)] # Target(w)
      /\ \A v \in Worker \ {w} : worker'[v] = worker[v]
  BY <1>2 DEF ReadFirst, Unwound, IdleWorker, WorkerState
<1>4. WorkerSound(w)' /\ ~HoldsJob(w)'
  BY <1>1, <1>2, <1>3 DEF WorkerSound, HoldsJob, Exists, tables, JobKey, Target, Reading, Busy
<1>5. Shape'
  BY ReadFirstShape DEF QueueInv
<1> QED
  BY <1>1, <1>3, <1>4, <1>5, WorkerMovesQueue

LEMMA ReadInputsQueue == ASSUME QueueInv, NEW w \in Worker, ReadInputs(w) PROVE QueueInv'
<1>1. Busy(w) /\ UNCHANGED <<tables, tx>>
  BY DEF ReadInputs, Busy
<1>2. worker \in [Worker -> WorkerState] /\ worker[w] \in WorkerState /\ WorkerSound(w)
  BY <1>1, BusySound
<1>3. /\ worker'[w].job = worker[w].job /\ worker'[w].first = worker[w].first
      /\ worker[w].pc = "first_read" /\ worker'[w].pc = "inputs_read"
      /\ \A v \in Worker \ {w} : worker'[v] = worker[v]
  BY <1>2 DEF ReadInputs, WorkerState
<1>4. WorkerSound(w)' /\ ~HoldsJob(w)'
  BY <1>1, <1>2, <1>3 DEF WorkerSound, HoldsJob, Exists, tables, Reading
<1>5. Shape'
  BY ReadInputsShape DEF QueueInv
<1> QED
  BY <1>1, <1>3, <1>4, <1>5, WorkerMovesQueue

LEMMA ReadSecondQueue == ASSUME QueueInv, NEW w \in Worker, ReadSecond(w) PROVE QueueInv'
<1>1. Busy(w) /\ UNCHANGED <<tables, tx>>
  BY DEF ReadSecond, Busy
<1>2. /\ worker \in [Worker -> WorkerState] /\ worker[w] \in WorkerState /\ WorkerSound(w)
      /\ Target(w) \in Nat /\ keyVersion[JobKey(w)] \in Nat /\ Target(w) <= keyVersion[JobKey(w)]
  BY <1>1, BusySound
<1>3. worker[w].pc = "inputs_read" /\ worker[w].first = Target(w)
  BY <1>2 DEF ReadSecond, WorkerSound, Reading, Target
<1>4. /\ worker'[w].job = worker[w].job
      /\ \/ worker'[w].pc = "computed" /\ worker'[w].first = worker[w].first
         \/ worker'[w].pc = "superseding" /\ keyVersion[JobKey(w)] # worker[w].first
      /\ \A v \in Worker \ {w} : worker'[v] = worker[v]
  BY <1>2 DEF ReadSecond, Unwound, IdleWorker, WorkerState
<1>5. WorkerSound(w)' /\ ~HoldsJob(w)'
  BY <1>1, <1>2, <1>3, <1>4 DEF WorkerSound, HoldsJob, Exists, tables, JobKey, Target, Reading, Busy
<1>6. Shape'
  BY ReadSecondShape DEF QueueInv
<1> QED
  BY <1>1, <1>4, <1>5, <1>6, WorkerMovesQueue

LEMMA LockJobQueue == ASSUME QueueInv, NEW w \in Worker, LockJob(w) PROVE QueueInv'
<1>1. Busy(w) /\ worker[w].pc = "computed" /\ UNCHANGED <<tables, tx>> /\ ~JobLocked(worker[w].job)
  BY DEF LockJob, Busy
<1>2. worker \in [Worker -> WorkerState] /\ worker[w] \in WorkerState /\ WorkerSound(w)
  BY <1>1, BusySound
<1>3. /\ \/ /\ worker'[w].pc = "job_locked" /\ worker'[w].job = worker[w].job
            /\ worker'[w].first = worker[w].first /\ worker'[w].token = worker[w].token
            /\ jobs[worker[w].job].status = "RUNNING" /\ jobs[worker[w].job].token = worker[w].token
         \/ worker'[w].pc = "idle"
      /\ \A v \in Worker \ {w} : worker'[v] = worker[v]
  BY <1>2 DEF LockJob, OwnsClaim, IdleWorker, WorkerState
<1>4. WorkerSound(w)'
  BY <1>1, <1>2, <1>3 DEF WorkerSound, HoldsJob, Exists, tables, Reading
<1>5. \A v \in Worker \ {w} : HoldsJob(v) /\ HoldsJob(w)' => worker'[w].job # worker[v].job
  BY <1>1, <1>3 DEF HoldsJob, JobLocked
<1>6. Shape'
  BY LockShape DEF QueueInv
<1> QED
  BY <1>1, <1>3, <1>4, <1>5, <1>6, WorkerMovesQueue

LEMMA LockKeyQueue == ASSUME QueueInv, NEW w \in Worker, LockKey(w) PROVE QueueInv'
<1>1. /\ Busy(w) /\ worker[w].pc = "job_locked" /\ UNCHANGED <<tables, tx>>
      /\ ~KeyLocked(JobKey(w)) /\ keyVersion[JobKey(w)] = worker[w].first
  BY DEF LockKey, KeyUnchanged, Busy
<1>2. worker \in [Worker -> WorkerState] /\ worker[w] \in WorkerState /\ WorkerSound(w)
  BY <1>1, BusySound
<1>3. /\ worker'[w].pc = "publishing" /\ worker'[w].job = worker[w].job
      /\ worker'[w].first = worker[w].first /\ worker'[w].token = worker[w].token
      /\ \A v \in Worker \ {w} : worker'[v] = worker[v]
  BY <1>2 DEF LockKey, WorkerState
<1>4. \A c \in Client : worker[w].job[1] \notin tx[c].locked
  BY <1>1 DEF KeyLocked, JobKey
<1>5. WorkerSound(w)'
  BY <1>1, <1>2, <1>3, <1>4 DEF WorkerSound, HoldsJob, Exists, tables, Reading, JobKey
<1>6. \A v \in Worker \ {w} : HoldsJob(v) => worker'[w].job # worker[v].job
  BY <1>1, <1>3 DEF QueueInv, WorkersSound, HoldsJob
<1>7. Shape'
  BY LockShape DEF QueueInv
<1> QED
  BY <1>1, <1>3, <1>5, <1>6, <1>7, WorkerMovesQueue
\* The end of a transaction that settled the worker's job, whatever becomes of its answer.
LEMMA RunEndsSound ==
    ASSUME QueueInv, NEW w \in Worker, Busy(w), jobs'[worker[w].job].status # "NO_ROW",
           RunEnds(w) \/ worker' = [worker EXCEPT ![w] = IdleWorker]
    PROVE  /\ WorkerSound(w)' /\ ~HoldsJob(w)'
           /\ \A v \in Worker \ {w} : worker'[v] = worker[v]
<1>1. worker \in [Worker -> WorkerState]
  BY BusySound
<1>2. /\ \/ worker'[w].pc = "idle"
         \/ worker'[w].pc = "failing" /\ worker'[w].job = worker[w].job
      /\ \A v \in Worker \ {w} : worker'[v] = worker[v]
  <2>1. CASE worker' = [worker EXCEPT ![w] = IdleWorker]
    BY <1>1, <2>1 DEF IdleWorker
  <2>2. CASE worker' = [worker EXCEPT ![w] = Unwound(w, "failing", TRUE)]
    BY <1>1, <2>2 DEF Unwound, IdleWorker
  <2> QED
    BY <2>1, <2>2 DEF RunEnds
<1>3. worker'[w].pc = "failing" => jobs'[worker'[w].job].status # "NO_ROW"
  BY <1>2 DEF Exists
<1> QED
  BY <1>2, <1>3 DEF WorkerSound, HoldsJob, Exists, Reading

\* Nobody else holds the row of a job that nobody, or only this worker, has locked.
LEMMA OthersHoldOtherJobs ==
    ASSUME QueueInv, NEW w \in Worker, HoldsJob(w) \/ ~JobLocked(worker[w].job)
    PROVE  \A v \in Worker \ {w} : HoldsJob(v) => worker[v].job # worker[w].job
  BY DEF QueueInv, WorkersSound, HoldsJob, JobLocked

\* A worker writes a status that is not SUCCEEDED to the job it runs, and ends its run.
LEMMA JobSettles ==
    ASSUME QueueInv, Shape', NEW w \in Worker, Busy(w), NEW status \in Status,
           status \notin {"NO_ROW", "SUCCEEDED"},
           jobs[worker[w].job].status = "RUNNING",
           status = "SUPERSEDED" => Target(w) < keyVersion[JobKey(w)],
           HoldsJob(w) \/ ~JobLocked(worker[w].job),
           jobs' = [jobs EXCEPT ![worker[w].job] = Released(worker[w].job, status)],
           RunEnds(w) \/ worker' = [worker EXCEPT ![w] = IdleWorker],
           UNCHANGED <<revision, docs, keyVersion, artifacts, current, versions, changeSets, tx>>
    PROVE  QueueInv'
<1> DEFINE j == worker[w].job
<1>1. j \in JobId /\ j[1] = JobKey(w) /\ j[2] = Target(w) /\ jobs \in [JobId -> Job]
  BY BusySound DEF JobKey, Target, QueueInv, Shape, TypeOK
<1>2. jobs'[j].status = status /\ \A i \in JobId \ {j} : jobs'[i] = jobs[i]
  BY <1>1 DEF Released, Job
<1>3. \A i \in JobId : /\ Exists(i)' <=> Exists(i)
                       /\ jobs'[i].status = "SUCCEEDED" <=> jobs[i].status = "SUCCEEDED"
                       /\ jobs'[i].status = "SUPERSEDED" =>
                             jobs[i].status = "SUPERSEDED" \/ i[2] < keyVersion[i[1]]
  BY <1>1, <1>2 DEF Exists
<1>4. /\ WorkerSound(w)' /\ ~HoldsJob(w)'
      /\ \A v \in Worker \ {w} : worker'[v] = worker[v]
  <2>1. jobs'[j].status # "NO_ROW"
    BY <1>1, <1>3, BusySound DEF Exists
  <2> QED
    BY <2>1, RunEndsSound
<1>5. ASSUME NEW v \in Worker \ {w}, HoldsJob(v)
      PROVE  jobs'[worker[v].job] = jobs[worker[v].job]
  <2>1. worker[v].job # j
    BY <1>5, OthersHoldOtherJobs
  <2>2. worker[v].job \in JobId
    BY <1>5 DEF HoldsJob, QueueInv, Shape, WorkerShaped
  <2> QED
    BY <1>2, <2>1, <2>2
<1>6. WorkersSound'
  BY <1>3, <1>4, <1>5, OneWorkerMoves
<1> QED
  BY <1>3, <1>6, JobsMove

LEMMA LockKeyTooLateQueue ==
    ASSUME QueueInv, NEW w \in Worker, LockKeyTooLate(w) PROVE QueueInv'
<1>1. Busy(w) /\ worker[w].pc = "job_locked" /\ keyVersion[JobKey(w)] # worker[w].first
  BY DEF LockKeyTooLate, Busy, KeyUnchanged
<1>2. /\ WorkerSound(w) /\ Target(w) \in Nat /\ keyVersion[JobKey(w)] \in Nat
      /\ Target(w) <= keyVersion[JobKey(w)]
  BY <1>1, BusySound
<1>3. worker[w].first = Target(w) /\ jobs[worker[w].job].status = "RUNNING" /\ HoldsJob(w)
  BY <1>1, <1>2 DEF WorkerSound, HoldsJob, Reading, Target
<1>4. Target(w) < keyVersion[JobKey(w)]
  BY <1>1, <1>2, <1>3
<1>5. Shape' /\ "SUPERSEDED" \in Status
  BY LockKeyTooLateShape DEF QueueInv, Status, TerminalStatuses
<1> QED
  BY <1>1, <1>3, <1>4, <1>5, JobSettles DEF LockKeyTooLate

LEMMA SettleQueue ==
    ASSUME QueueInv, NEW w \in Worker, Busy(w), NEW status \in Status, Settle(w, status),
           status \notin {"NO_ROW", "SUCCEEDED"},
           status = "SUPERSEDED" => Target(w) < keyVersion[JobKey(w)]
    PROVE  QueueInv'
<1>1. Shape'
  BY SettleShape DEF QueueInv
<1>2. CASE OwnsClaim(w)
  BY <1>1, <1>2, JobSettles DEF Settle, OwnsClaim
<1>3. CASE ~OwnsClaim(w)
  <2>1. UNCHANGED <<tables, tx>> /\ worker' = [worker EXCEPT ![w] = IdleWorker]
    BY <1>3 DEF Settle, tables
  <2>2. jobs'[worker[w].job].status # "NO_ROW"
    BY <2>1, BusySound DEF Exists, tables
  <2> QED
    BY <1>1, <2>1, <2>2, RunEndsSound, WorkerMovesQueue
<1> QED
  BY <1>2, <1>3

LEMMA MarkSupersededQueue ==
    ASSUME QueueInv, NEW w \in Worker, MarkSuperseded(w) PROVE QueueInv'
<1>1. Busy(w) /\ worker[w].pc = "superseding" /\ Settle(w, "SUPERSEDED")
  BY DEF MarkSuperseded, Busy
<1>2. Target(w) < keyVersion[JobKey(w)]
  BY <1>1, BusySound DEF WorkerSound, JobKey, Target
<1>3. "SUPERSEDED" \in Status
  BY DEF Status, TerminalStatuses
<1> QED
  BY <1>1, <1>2, <1>3, SettleQueue

LEMMA RecordFailureQueue ==
    ASSUME QueueInv, NEW w \in Worker, RecordFailure(w) PROVE QueueInv'
<1>1. Busy(w)
  BY DEF RecordFailure, Busy
<1> DEFINE status == IF Permanent(w) THEN "FAILED_PERMANENT" ELSE "QUEUED"
<1>2. status \in Status /\ status \notin {"NO_ROW", "SUCCEEDED", "SUPERSEDED"}
  BY DEF Status, TerminalStatuses
<1>3. Settle(w, status)
  BY DEF RecordFailure
<1> HIDE DEF status
<1> QED
  BY <1>1, <1>2, <1>3, SettleQueue

LEMMA FailQueue == ASSUME QueueInv, NEW w \in Worker, Fail(w) PROVE QueueInv'
<1>1. Busy(w) /\ UNCHANGED <<tables, tx>>
  BY DEF Fail, Busy
<1>2. worker \in [Worker -> WorkerState] /\ jobs'[worker[w].job].status # "NO_ROW"
  BY <1>1, BusySound DEF Exists, tables
<1>3. /\ worker'[w].pc = "failing" /\ worker'[w].job = worker[w].job
      /\ \A v \in Worker \ {w} : worker'[v] = worker[v]
  BY <1>2 DEF Fail, Unwound, IdleWorker
<1>4. jobs'[worker'[w].job].status # "NO_ROW"
  BY <1>2, <1>3 DEF Exists
<1>5. WorkerSound(w)' /\ ~HoldsJob(w)'
  BY <1>3, <1>4 DEF WorkerSound, HoldsJob, Exists, Reading
<1>6. Shape'
  BY FailShape DEF QueueInv
<1> QED
  BY <1>1, <1>3, <1>5, <1>6, WorkerMovesQueue

LEMMA CrashQueue == ASSUME QueueInv, NEW w \in Worker, Crash(w) PROVE QueueInv'
<1>1. Busy(w) /\ UNCHANGED <<tables, tx>> /\ worker' = [worker EXCEPT ![w] = IdleWorker]
  BY DEF Crash
<1>2. jobs'[worker[w].job].status # "NO_ROW"
  BY <1>1, BusySound DEF Exists, tables
<1>3. Shape'
  BY <1>1, RowTypes, WorkerMovesAlone DEF QueueInv
<1> QED
  BY <1>1, <1>2, <1>3, RunEndsSound, WorkerMovesQueue

-----------------------------------------------------------------------------
(* Claims and the clock                                                        *)

\* A sweep fails jobs whose last lease has run out and leaves the others alone.
LEMMA SweptRows ==
    ASSUME QueueInv, NEW j \in JobId
    PROVE  \/ Swept[j] = jobs[j]
           \/ /\ jobs[j].status = "RUNNING" /\ ~JobLocked(j)
              /\ Swept[j].status = "FAILED_PERMANENT"
<1>1. jobs[j] \in Job
  BY DEF QueueInv, Shape, TypeOK
<1> QED
  BY <1>1 DEF Swept, Exhausted, LeaseOver, Released, Job

LEMMA SweepQueue == ASSUME QueueInv, NEW w \in Worker, SweepOnly(w) PROVE QueueInv'
<1>1. jobs' = Swept /\ UNCHANGED <<revision, docs, keyVersion, artifacts, current, versions,
                                   changeSets, tx, worker>>
  BY DEF SweepOnly
<1>2. \A j \in JobId : \/ jobs'[j] = jobs[j]
                       \/ /\ jobs[j].status = "RUNNING" /\ ~JobLocked(j)
                          /\ jobs'[j].status = "FAILED_PERMANENT"
  BY <1>1, SweptRows
<1>3. \A j \in JobId : /\ Exists(j)' <=> Exists(j)
                       /\ jobs'[j].status = "SUCCEEDED" <=> jobs[j].status = "SUCCEEDED"
                       /\ jobs'[j].status = "SUPERSEDED" => jobs[j].status = "SUPERSEDED"
  BY <1>2 DEF Exists
<1>4. ASSUME NEW v \in Worker, HoldsJob(v) PROVE jobs'[worker[v].job] = jobs[worker[v].job]
  <2>1. JobLocked(worker[v].job) /\ worker[v].job \in JobId
    BY <1>4 DEF HoldsJob, JobLocked, QueueInv, Shape, WorkerShaped
  <2> QED
    BY <1>2, <2>1
<1>5. \A v \in Worker : WorkerSound(v)'
  BY <1>1, <1>3, <1>4, OtherStaysSound
<1>6. WorkersSound'
  BY <1>1, <1>5 DEF WorkersSound, HoldsJob, QueueInv
<1>7. Shape'
  BY SweepShape DEF QueueInv
<1> QED
  BY <1>1, <1>3, <1>6, <1>7, JobsMove

LEMMA ClaimQueue == ASSUME QueueInv, NEW w \in Worker, Claim(w) PROVE QueueInv'
<1>1. UNCHANGED <<revision, docs, keyVersion, artifacts, current, versions, changeSets, tx>>
  BY DEF Claim
<1>2. worker \in [Worker -> WorkerState] /\ jobs \in [JobId -> Job] /\ Swept \in [JobId -> Job]
  BY SweptTyped DEF QueueInv, Shape, TypeOK
<1>3. PICK j \in FirstInQueue :
        /\ jobs' = [Swept EXCEPT ![j] = [status |-> "RUNNING",
                                         attempts |-> jobs[j].attempts + 1,
                                         lease |-> "LIVE", token |-> NewToken(j)]]
        /\ worker' = [worker EXCEPT ![w] = [IdleWorker EXCEPT
                        !.pc = "claimed", !.job = j, !.token = NewToken(j)]]
  BY DEF Claim
<1>4. j \in JobId /\ jobs[j].status \in {"QUEUED", "RUNNING"} /\ ~JobLocked(j)
  BY <1>3 DEF FirstInQueue, Claimable, LeaseOver
<1>5. jobs'[j].status = "RUNNING" /\ \A i \in JobId \ {j} : jobs'[i] = Swept[i]
  BY <1>2, <1>3, <1>4
<1>6. /\ worker'[w].pc = "claimed" /\ worker'[w].job = j
      /\ \A v \in Worker \ {w} : worker'[v] = worker[v]
  BY <1>2, <1>3 DEF IdleWorker
<1>7. ASSUME NEW i \in JobId
      PROVE  /\ Exists(i)' <=> Exists(i)
             /\ jobs'[i].status = "SUCCEEDED" <=> jobs[i].status = "SUCCEEDED"
             /\ jobs'[i].status = "SUPERSEDED" => jobs[i].status = "SUPERSEDED"
  BY <1>4, <1>5, SweptRows DEF Exists
<1>8. WorkerSound(w)' /\ ~HoldsJob(w)'
  BY <1>5, <1>6 DEF WorkerSound, HoldsJob, Exists, Reading
<1>9. ASSUME NEW v \in Worker \ {w}, HoldsJob(v)
      PROVE  jobs'[worker[v].job] = jobs[worker[v].job]
  <2>1. JobLocked(worker[v].job) /\ worker[v].job \in JobId
    BY <1>9 DEF HoldsJob, JobLocked, QueueInv, Shape, WorkerShaped
  <2>2. worker[v].job # j
    BY <1>4, <2>1
  <2> QED
    BY <1>5, <2>1, <2>2, SweptRows
<1>10. WorkersSound'
  BY <1>1, <1>6, <1>7, <1>8, <1>9, OneWorkerMoves
<1>11. Shape'
  BY ClaimShape DEF QueueInv
<1> QED
  BY <1>1, <1>7, <1>10, <1>11, JobsMove

LEMMA LeaseExpiresQueue == ASSUME QueueInv, NEW j \in JobId, LeaseExpires(j) PROVE QueueInv'
<1>1. /\ jobs' = [jobs EXCEPT ![j].lease = "EXPIRED"]
      /\ UNCHANGED <<revision, docs, keyVersion, artifacts, current, versions, changeSets, tx,
                     worker>>
  BY DEF LeaseExpires
<1>2. jobs \in [JobId -> Job]
  BY DEF QueueInv, Shape, TypeOK
<1>3. \A i \in JobId : jobs'[i].status = jobs[i].status /\ jobs'[i].token = jobs[i].token
  BY <1>1, <1>2 DEF Job
<1>4. ASSUME NEW v \in Worker PROVE WorkerSound(v)'
  <2>1. HoldsJob(v) => worker[v].job \in JobId
    BY DEF HoldsJob, QueueInv, Shape, WorkerShaped
  <2> QED
    BY <1>1, <1>3, <2>1, OtherStaysSound DEF Exists
<1>5. WorkersSound'
  BY <1>1, <1>4 DEF WorkersSound, HoldsJob, QueueInv
<1>6. Shape'
  BY LeaseExpiresShape DEF QueueInv
<1> QED
  BY <1>1, <1>3, <1>5, <1>6, JobsMove DEF Exists
-----------------------------------------------------------------------------
(* Publication                                                                 *)

\* What a version tells of its job: it has succeeded and its key has reached it.
LEMMA VersionFacts ==
    ASSUME QueueInv, NEW k \in Key, NEW n \in 1..Len(versions[k])
    PROVE  /\ versions[k][n] \in Version /\ VersionSound(k, n)
           /\ <<k, versions[k][n].job>> \in JobId
           /\ versions[k][n].job \in Nat \ {0} /\ keyVersion[k] \in Nat
           /\ versions[k][n].job <= keyVersion[k]
<1>1. versions[k] \in Seq(Version) /\ keyVersion[k] \in Stamp
  BY DEF QueueInv, Shape, TypeOK
<1>2. versions[k][n] \in Version
  BY <1>1
<1>3. VersionSound(k, n)
  BY DEF QueueInv, TablesSound, VersionsSound
<1> DEFINE j == <<k, versions[k][n].job>>
<1>4. j \in JobId /\ j[1] = k /\ j[2] = versions[k][n].job /\ j[2] \in Revision
  BY <1>2 DEF Version, JobId
<1>5. JobSound(j) /\ Exists(j)
  BY <1>3, <1>4 DEF QueueInv, TablesSound, VersionSound, Exists
<1>6. j[2] <= keyVersion[k]
  BY <1>4, <1>5 DEF JobSound
<1>7. j[2] \in Nat \ {0} /\ keyVersion[k] \in Nat
  BY <1>1, <1>4, BoundAssumption DEF Revision, Stamp
<1> QED
  BY <1>2, <1>3, <1>4, <1>6, <1>7

\* A publication writes a version for the revision that the key stands at, later than
\* every version there is; a version of the same job can never be there already.
LEMMA PublishWrites ==
    ASSUME QueueInv, NEW w \in Worker, Publish(w)
    PROVE  LET k == JobKey(w)
               new == [job |-> Target(w), change_key |-> k, observed |-> worker[w].first,
                       payload |-> worker[w].inputs]
           IN  /\ k \in Key /\ HoldsJob(w) /\ jobs[worker[w].job].status = "RUNNING"
               /\ worker[w].first = Target(w) /\ keyVersion[k] = Target(w)
               /\ \A c \in Client : k \notin tx[c].locked
               /\ versions[k] \in Seq(Version) /\ new \in Version
               /\ \A n \in 1..Len(versions[k]) : versions[k][n].job < Target(w)
               /\ versions' = [versions EXCEPT ![k] = Append(versions[k], new)]
               /\ current' = [current EXCEPT ![k] = Len(versions[k]) + 1]
<1> DEFINE j == worker[w].job
           k == JobKey(w)
           new == [job |-> Target(w), change_key |-> k,
                   observed |-> worker[w].first, payload |-> worker[w].inputs]
<1>1. Busy(w) /\ worker[w].pc = "publishing"
  BY DEF Publish, Busy
<1>2. /\ worker[w] \in WorkerState /\ WorkerSound(w) /\ j \in JobId /\ k \in Key
      /\ Target(w) \in Revision /\ Target(w) \in Nat /\ j = <<k, Target(w)>>
  BY <1>1, BusySound
<1>3. /\ HoldsJob(w) /\ jobs[j].status = "RUNNING" /\ worker[w].first = Target(w)
      /\ keyVersion[k] = Target(w) /\ \A c \in Client : k \notin tx[c].locked
  BY <1>1, <1>2 DEF WorkerSound, HoldsJob, Reading, JobKey, Target
<1>4. versions[k] \in Seq(Version)
  BY <1>2 DEF QueueInv, Shape, TypeOK
<1>5. new \in Version
  BY <1>2 DEF Version, WorkerState
<1>6. ASSUME NEW n \in 1..Len(versions[k]) PROVE versions[k][n].job < Target(w)
  <2>1. /\ versions[k][n].job \in Nat /\ versions[k][n].job <= keyVersion[k]
        /\ jobs[<<k, versions[k][n].job>>].status = "SUCCEEDED"
    BY <1>2, VersionFacts DEF VersionSound
  <2>2. versions[k][n].job # Target(w)
    BY <1>2, <1>3, <2>1
  <2> QED
    BY <1>2, <1>3, <2>1, <2>2
<1>7. Existing(j) = {}
  <2>1. \A n \in 1..Len(versions[k]) : versions[k][n].job # Target(w)
    BY <1>2, <1>6
  <2> QED
    BY <1>2, <1>4, <2>1 DEF Existing
<1>8. /\ versions' = [versions EXCEPT ![k] = Append(versions[k], new)]
      /\ current' = [current EXCEPT ![k] = Len(versions[k]) + 1]
  BY <1>7 DEF Publish
<1> HIDE DEF new
<1> QED
  BY <1>2, <1>3, <1>4, <1>5, <1>6, <1>8 DEF new

LEMMA PublishQueue == ASSUME QueueInv, NEW w \in Worker, Publish(w) PROVE QueueInv'
<1> DEFINE j == worker[w].job
           k == JobKey(w)
           new == [job |-> Target(w), change_key |-> k,
                   observed |-> worker[w].first, payload |-> worker[w].inputs]
<1>1. /\ Busy(w) /\ UNCHANGED <<revision, docs, keyVersion, artifacts, changeSets, tx>>
      /\ jobs' = [jobs EXCEPT ![j] = Released(j, "SUCCEEDED")] /\ RunEnds(w)
  BY DEF Publish, Busy
<1>2. /\ j \in JobId /\ k \in Key /\ Target(w) \in Nat /\ j = <<k, Target(w)>>
      /\ j[1] = k /\ j[2] = Target(w)
      /\ jobs \in [JobId -> Job] /\ versions \in [Key -> Seq(Version)] /\ current \in [Key -> Nat]
  BY <1>1, BusySound DEF QueueInv, Shape, TypeOK
<1>3. /\ HoldsJob(w) /\ jobs[j].status = "RUNNING" /\ worker[w].first = Target(w)
      /\ keyVersion[k] = Target(w) /\ \A c \in Client : k \notin tx[c].locked
      /\ versions[k] \in Seq(Version) /\ new \in Version
      /\ \A n \in 1..Len(versions[k]) : versions[k][n].job < Target(w)
      /\ versions' = [versions EXCEPT ![k] = Append(versions[k], new)]
      /\ current' = [current EXCEPT ![k] = Len(versions[k]) + 1]
  BY PublishWrites
<1>4. /\ new.job = Target(w) /\ new.change_key = k /\ new.observed = Target(w)
  BY <1>3
<1> HIDE DEF new
<1>5. jobs'[j].status = "SUCCEEDED" /\ \A i \in JobId \ {j} : jobs'[i] = jobs[i]
  BY <1>1, <1>2 DEF Released, Job
<1>6. \A i \in JobId : /\ Exists(i)' <=> Exists(i)
                       /\ jobs[i].status = "SUCCEEDED" => jobs'[i].status = "SUCCEEDED"
                       /\ jobs'[i].status = "SUCCEEDED" /\ i # j => jobs[i].status = "SUCCEEDED"
                       /\ jobs'[i].status = "SUPERSEDED" => jobs[i].status = "SUPERSEDED"
  BY <1>3, <1>5 DEF Exists
<1>7. /\ Len(versions'[k]) = Len(versions[k]) + 1 /\ Len(versions[k]) \in Nat
      /\ versions'[k][Len(versions[k]) + 1] = new
      /\ \A n \in 1..Len(versions[k]) : versions'[k][n] = versions[k][n]
      /\ \A l \in Key \ {k} : versions'[l] = versions[l] /\ current'[l] = current[l]
      /\ current'[k] = Len(versions[k]) + 1
  BY <1>2, <1>3
<1>8. ASSUME NEW l \in Key, NEW n \in 1..Len(versions[l])
      PROVE  /\ n \in 1..Len(versions'[l]) /\ versions'[l][n] = versions[l][n]
             /\ VersionSound(l, n)'
  <2>1. VersionSound(l, n) /\ <<l, versions[l][n].job>> \in JobId
    BY VersionFacts
  <2>2. n \in 1..Len(versions'[l]) /\ versions'[l][n] = versions[l][n]
    BY <1>7
  <2> QED
    BY <1>6, <2>1, <2>2 DEF VersionSound
<1>9. TablesSound'
  <2>1. ASSUME NEW l \in Key PROVE KeySound(l)'
    <3>1. KeySound(l) /\ keyVersion[l] \in Stamp
      BY DEF QueueInv, TablesSound, Shape, TypeOK
    <3>2. keyVersion[l] # 0 => <<l, keyVersion[l]>> \in JobId
      BY <3>1, BoundAssumption DEF JobId, Stamp, Revision
    <3>3. keyVersion[l] # 0 => jobs'[<<l, keyVersion[l]>>].status # "NO_ROW"
      BY <1>6, <3>1, <3>2 DEF KeySound, Exists
    <3> QED
      BY <1>1, <3>1, <3>3 DEF KeySound, Exists
  <2>2. ASSUME NEW l \in Key, l # k PROVE VersionsSound(l)'
    <3>1. VersionsSound(l)
      BY DEF QueueInv, TablesSound
    <3> QED
      BY <1>7, <1>8, <2>2, <3>1 DEF VersionsSound
  <2>3. ASSUME NEW l \in Key, l = k PROVE VersionsSound(l)'
    <3>1. VersionsSound(l)
      BY DEF QueueInv, TablesSound
    <3>2. PICK last \in Nat \ {0} : last = Len(versions[l]) + 1
      BY <1>7, <2>3
    <3>3. Len(versions'[l]) = last /\ current'[l] = last /\ versions'[l][last] = new
      BY <1>7, <2>3, <3>2
    <3>4. VersionSound(l, last)'
      BY <1>2, <1>4, <1>5, <2>3, <3>3 DEF VersionSound
    <3>5. ASSUME NEW n \in 1..last PROVE n = last \/ n \in 1..Len(versions[l])
      BY <1>7, <2>3, <3>2
    <3>6. \A n \in 1..last : VersionSound(l, n)'
      BY <1>8, <3>4, <3>5
    <3>7. ASSUME NEW m \in 1..last, NEW n \in 1..last, m < n
          PROVE  versions'[l][m].job < versions'[l][n].job
      <4>1. m \in 1..Len(versions[l])
        BY <3>5, <3>7
      <4>2. CASE n \in 1..Len(versions[l])
        BY <1>8, <3>1, <3>7, <4>1, <4>2 DEF VersionsSound
      <4>3. CASE n = last
        BY <1>3, <1>4, <1>8, <2>3, <3>3, <4>1, <4>3
      <4> QED
        BY <3>5, <4>2, <4>3
    <3> QED
      BY <3>3, <3>6, <3>7 DEF VersionsSound
  <2>4. ASSUME NEW i \in JobId PROVE JobSound(i)'
    <3>1. JobSound(i) /\ i[1] \in Key /\ versions[i[1]] \in Seq(Version)
      BY <1>2 DEF QueueInv, TablesSound, JobId
    <3>2. jobs'[i].status = "SUCCEEDED" => Existing(i)' # {}
      <4>1. CASE i = j
        <5>1. Len(versions[k]) + 1 \in DOMAIN versions'[k]
          BY <1>2, <1>3, <1>7
        <5>2. versions'[i[1]][Len(versions[k]) + 1].job = i[2]
          BY <1>2, <1>4, <1>7, <4>1
        <5> QED
          BY <1>2, <4>1, <5>1, <5>2 DEF Existing
      <4>2. CASE i # j /\ jobs'[i].status = "SUCCEEDED"
        <5>1. PICK n \in DOMAIN versions[i[1]] : versions[i[1]][n].job = i[2]
          BY <1>6, <3>1, <4>2 DEF JobSound, Existing
        <5>2. n \in 1..Len(versions[i[1]])
          BY <3>1, <5>1
        <5>3. n \in 1..Len(versions'[i[1]]) /\ versions'[i[1]][n].job = i[2]
          BY <1>8, <3>1, <5>1, <5>2
        <5>4. versions'[i[1]] \in Seq(Version)
          BY <3>1, PublishShape DEF QueueInv, Shape, TypeOK
        <5>5. n \in DOMAIN versions'[i[1]]
          BY <5>3, <5>4
        <5> QED
          BY <5>3, <5>5 DEF Existing
      <4> QED
        BY <4>1, <4>2
    <3> QED
      BY <1>1, <1>6, <3>1, <3>2 DEF JobSound
  <2> QED
    BY <2>1, <2>2, <2>3, <2>4 DEF TablesSound
<1>10. LocksSound'
  <2>1. ASSUME NEW c \in Client PROVE TxSound(c)'
    <3>1. TxSound(c) /\ TxShaped(tx[c])
      BY DEF QueueInv, LocksSound, Shape
    <3>2. tx[c].pc = "bootstrap" => current'[tx[c].key] = current[tx[c].key]
      BY <1>3, <1>7, <3>1 DEF TxSound, TxShaped
    <3> QED
      BY <1>1, <3>1, <3>2 DEF TxSound, NotRecorded, Processed
  <2> QED
    BY <1>1, <2>1 DEF LocksSound, QueueInv
<1>11. WorkersSound'
  <2>1. /\ WorkerSound(w)' /\ ~HoldsJob(w)'
        /\ \A v \in Worker \ {w} : worker'[v] = worker[v]
    BY <1>1, <1>5, RunEndsSound
  <2>2. ASSUME NEW v \in Worker \ {w}, HoldsJob(v)
        PROVE  jobs'[worker[v].job] = jobs[worker[v].job]
    <3>1. worker[v].job # j
      BY <1>3, <2>2, OthersHoldOtherJobs
    <3>2. worker[v].job \in JobId
      BY <2>2 DEF HoldsJob, QueueInv, Shape, WorkerShaped
    <3> QED
      BY <1>5, <3>1, <3>2
  <2> QED
    BY <1>1, <1>6, <2>1, <2>2, OneWorkerMoves
<1>12. Shape'
  BY PublishShape DEF QueueInv
<1> QED
  BY <1>9, <1>10, <1>11, <1>12 DEF QueueInv

-----------------------------------------------------------------------------
(* The invariant holds, and what follows from it                               *)

LEMMA NextQueue == ASSUME QueueInv, [Next]_vars PROVE QueueInv'
<1>1. ASSUME NEW c \in Client, NEW op \in Operation, NEW d \in Doc, LockCase(c, op, d)
      PROVE  QueueInv'
  BY <1>1, LockCaseQueue
<1>2. ASSUME NEW c \in Client, TxStep(c) \/ Rollback(c) PROVE QueueInv'
  BY <1>2, TouchKeyQueue, ReadDependentsQueue, BootstrapQueue, CommitQueue, RollbackQueue
     DEF TxStep
<1>3. ASSUME NEW w \in Worker, WorkerStep(w) PROVE QueueInv'
  BY <1>3, SweepQueue, ClaimQueue, ReadFirstQueue, ReadInputsQueue, ReadSecondQueue,
     LockJobQueue, LockKeyQueue, LockKeyTooLateQueue, PublishQueue, MarkSupersededQueue,
     RecordFailureQueue DEF WorkerStep
<1>4. ASSUME NEW w \in Worker, Fail(w) \/ Crash(w) PROVE QueueInv'
  BY <1>4, FailQueue, CrashQueue
<1>5. ASSUME NEW j \in JobId, LeaseExpires(j) PROVE QueueInv'
  BY <1>5, LeaseExpiresQueue
<1>6. CASE UNCHANGED vars
  <2>1. Shape' /\ UNCHANGED <<revision, docs, keyVersion, artifacts, current, versions, jobs,
                             changeSets, tx, worker>>
    BY <1>6, StutterShape DEF QueueInv, vars
  <2>2. \A w \in Worker : WorkerSound(w)'
    BY <2>1, OtherStaysSound DEF Exists
  <2>3. WorkersSound'
    BY <2>1, <2>2 DEF WorkersSound, HoldsJob, QueueInv
  <2> QED
    BY <2>1, <2>3, JobsMove DEF Exists
<1>7. CASE ServiceNext
  BY <1>1, <1>2, <1>7 DEF ServiceNext
<1>8. CASE WorkerNext
  BY <1>3, <1>4, <1>5, <1>6, <1>8 DEF WorkerNext, PollEmpty
<1> QED
  BY <1>6, <1>7, <1>8 DEF Next

LEMMA QueueInvHolds == Spec => []QueueInv
  BY InitQueue, NextQueue, PTL DEF Spec
\* A timeline is fresh exactly when the job for the version of its key has succeeded.
LEMMA FreshIffSucceeded ==
    ASSUME QueueInv, NEW k \in Key
    PROVE  Fresh(k) <=> keyVersion[k] # 0 /\ jobs[<<k, keyVersion[k]>>].status = "SUCCEEDED"
<1>1. /\ VersionsSound(k) /\ current[k] = Len(versions[k]) /\ versions[k] \in Seq(Version)
      /\ keyVersion[k] \in Stamp
  BY DEF QueueInv, TablesSound, VersionsSound, Shape, TypeOK
<1>2. ASSUME Fresh(k)
      PROVE  keyVersion[k] # 0 /\ jobs[<<k, keyVersion[k]>>].status = "SUCCEEDED"
  <2>1. current[k] \in 1..Len(versions[k])
    BY <1>1, <1>2 DEF Fresh
  <2>2. VersionSound(k, current[k]) /\ versions[k][current[k]].job \in Nat \ {0}
    BY <2>1, VersionFacts
  <2> QED
    BY <1>2, <2>2 DEF Fresh, CurrentVersion, VersionSound
<1>3. ASSUME keyVersion[k] # 0, jobs[<<k, keyVersion[k]>>].status = "SUCCEEDED"
      PROVE  Fresh(k)
  <2> DEFINE j == <<k, keyVersion[k]>>
  <2>1. j \in JobId
    BY <1>1, <1>3, BoundAssumption DEF JobId, Stamp, Revision
  <2>2. JobSound(j)
    BY <2>1 DEF QueueInv, TablesSound
  <2>3. Existing(j) # {}
    BY <1>3, <2>2 DEF JobSound
  <2>4. PICK n \in 1..Len(versions[k]) : versions[k][n].job = keyVersion[k]
    BY <1>1, <2>3 DEF Existing
  <2> DEFINE last == Len(versions[k])
  <2>5. last \in 1..Len(versions[k]) /\ n <= last
    BY <1>1, <2>4
  <2>6. /\ versions[k][last].job \in Nat /\ versions[k][last].job <= keyVersion[k]
        /\ keyVersion[k] \in Nat /\ VersionSound(k, last)
    BY <2>5, VersionFacts
  <2>7. n < last => keyVersion[k] < versions[k][last].job
    BY <1>1, <2>4, <2>5 DEF VersionsSound
  <2>8. n = last
    BY <2>4, <2>5, <2>6, <2>7
  <2> QED
    BY <1>1, <2>4, <2>5, <2>6, <2>8 DEF Fresh, CurrentVersion, VersionSound
<1> QED
  BY <1>2, <1>3

\* A timeline that is not fresh has its job: no step has lost it.
LEMMA QueueKeepsInvalidations == ASSUME QueueInv PROVE NoLostInvalidation
<1>1. ASSUME NEW k \in artifacts, ~Fresh(k)
      PROVE  /\ keyVersion[k] # 0
             /\ jobs[<<k, keyVersion[k]>>].status \in {"QUEUED", "RUNNING", "FAILED_PERMANENT"}
  <2> DEFINE j == <<k, keyVersion[k]>>
  <2>1. k \in Key /\ keyVersion[k] \in Stamp
    BY DEF QueueInv, Shape, TypeOK
  <2>2. keyVersion[k] # 0 /\ Exists(j)
    BY <2>1 DEF QueueInv, TablesSound, KeySound
  <2>3. j \in JobId /\ j[1] = k /\ j[2] = keyVersion[k] /\ keyVersion[k] \in Nat
    BY <2>1, <2>2, BoundAssumption DEF JobId, Stamp, Revision
  <2>4. jobs[j] \in Job /\ JobSound(j)
    BY <2>3 DEF QueueInv, Shape, TypeOK, TablesSound
  <2>5. jobs[j].status # "SUCCEEDED"
    BY <1>1, <2>1, <2>2, FreshIffSucceeded
  <2>6. jobs[j].status # "SUPERSEDED"
    BY <2>3, <2>4 DEF JobSound
  <2> QED
    BY <2>2, <2>4, <2>5, <2>6 DEF Job, Status, TerminalStatuses, Exists
<1> QED
  BY <1>1 DEF NoLostInvalidation

\* No interleaving of publications, crashes, takeovers and mutations loses an
\* invalidation, in any time zone: a timeline is fresh, or the job for the version
\* that its key is at is queued, running or visibly failed (_touch_keys_and_queue).
THEOREM InvalidationsAreKept == Spec => []NoLostInvalidation
  BY QueueKeepsInvalidations, QueueInvHolds, PTL

\* The current version of a timeline is the last one written, and each version is for
\* a later revision than the one before, whoever publishes (_publish).
THEOREM ReadersNeverGoBack == Spec => []ViewNeverGoesBack
<1>1. ASSUME QueueInv PROVE ViewNeverGoesBack
  <2>1. ASSUME NEW k \in Key
        PROVE  /\ current[k] = Len(versions[k])
               /\ \A m, n \in DOMAIN versions[k] :
                     m < n => versions[k][m].job < versions[k][n].job
    <3>1. VersionsSound(k) /\ versions[k] \in Seq(Version)
      BY <1>1 DEF QueueInv, TablesSound, Shape, TypeOK
    <3> QED
      BY <3>1 DEF VersionsSound
  <2> QED
    BY <2>1 DEF ViewNeverGoesBack
<1> QED
  BY <1>1, QueueInvHolds, PTL

\* A job that succeeded has published one version and any other job none, also when the
\* answer to the commit was lost or the job was taken over (_publish, run_once).
THEOREM JobsPublishOnce == Spec => []PublishedIffSucceeded
<1>1. ASSUME QueueInv PROVE PublishedIffSucceeded
  <2>1. ASSUME NEW j \in JobId
        PROVE  Cardinality(Existing(j)) = IF jobs[j].status = "SUCCEEDED" THEN 1 ELSE 0
    <3>1. /\ j[1] \in Key /\ j = <<j[1], j[2]>> /\ VersionsSound(j[1]) /\ JobSound(j)
          /\ versions[j[1]] \in Seq(Version)
      BY <1>1 DEF QueueInv, TablesSound, JobId, Shape, TypeOK
    <3>2. ASSUME NEW n \in Existing(j)
          PROVE  /\ n \in 1..Len(versions[j[1]]) /\ versions[j[1]][n].job = j[2]
                 /\ jobs[j].status = "SUCCEEDED"
      <4>1. n \in 1..Len(versions[j[1]]) /\ versions[j[1]][n].job = j[2]
        BY <3>1 DEF Existing
      <4>2. VersionSound(j[1], n)
        BY <1>1, <3>1, <4>1, VersionFacts
      <4> QED
        BY <3>1, <4>1, <4>2 DEF VersionSound
    <3>3. CASE jobs[j].status = "SUCCEEDED"
      <4>1. PICK n \in Existing(j) : TRUE
        BY <3>1, <3>3 DEF JobSound
      <4>2. ASSUME NEW m \in Existing(j), m # n PROVE FALSE
        <5>1. /\ m \in 1..Len(versions[j[1]]) /\ n \in 1..Len(versions[j[1]])
              /\ versions[j[1]][m].job = j[2] /\ versions[j[1]][n].job = j[2]
          BY <3>2, <4>1
        <5>2. m < n \/ n < m
          BY <4>2, <5>1
        <5>3. j[2] \in Nat
          BY DEF JobId, Revision
        <5> QED
          BY <3>1, <5>1, <5>2, <5>3 DEF VersionsSound
      <4>3. Existing(j) = {n}
        BY <4>1, <4>2
      <4> QED
        BY <3>3, <4>3, FS_Singleton
    <3>4. CASE jobs[j].status # "SUCCEEDED"
      <4>1. Existing(j) = {}
        BY <3>2, <3>4
      <4> QED
        BY <3>4, <4>1, FS_EmptySet
    <3> QED
      BY <3>3, <3>4
  <2> QED
    BY <2>1 DEF PublishedIffSucceeded
<1> QED
  BY <1>1, QueueInvHolds, PTL

-----------------------------------------------------------------------------
(* Completion is fenced                                                        *)

\* A step that takes a job out of RUNNING is its owner's, or a sweep of a dead claim.
Fenced(j) ==
    (jobs[j].status = "RUNNING" /\ jobs'[j].status # "RUNNING") =>
        \/ \E w \in Worker : /\ worker[w].job = j
                             /\ worker[w].token = jobs[j].token
                             /\ worker'[w] # worker[w]
        \/ LeaseOver(j) /\ jobs'[j].status = "FAILED_PERMANENT"

\* A worker that owns the claim writes its job's row and ends or goes on to fail.
LEMMA OwnerWrites ==
    ASSUME QueueInv, NEW w \in Worker, Busy(w), NEW status \in Status,
           jobs[worker[w].job].token = worker[w].token,
           jobs' = [jobs EXCEPT ![worker[w].job] = Released(worker[w].job, status)],
           worker'[w].pc # worker[w].pc
    PROVE  \A j \in JobId : Fenced(j)
<1>1. worker[w].job \in JobId /\ jobs \in [JobId -> Job]
  BY BusySound DEF QueueInv, Shape, TypeOK
<1> QED
  BY <1>1 DEF Fenced

LEMMA SweepsAreFenced ==
    ASSUME QueueInv, NEW j \in JobId, jobs'[j] = Swept[j] PROVE Fenced(j)
<1>1. jobs[j] \in Job
  BY DEF QueueInv, Shape, TypeOK
<1> QED
  BY <1>1 DEF Fenced, Swept, Exhausted, Released, Job

LEMMA StepsAreFenced == ASSUME QueueInv, [Next]_vars PROVE \A j \in JobId : Fenced(j)
<1>1. CASE UNCHANGED jobs
  BY <1>1 DEF Fenced
<1>2. ASSUME NEW c \in Client, Commit(c) PROVE \A j \in JobId : Fenced(j)
  BY <1>2, CommitWrites DEF Fenced, Exists
<1>3. ASSUME NEW w \in Worker, SweepOnly(w) PROVE \A j \in JobId : Fenced(j)
  BY <1>3, SweepsAreFenced DEF SweepOnly
<1>4. ASSUME NEW w \in Worker, Claim(w) PROVE \A j \in JobId : Fenced(j)
  <2>1. Swept \in [JobId -> Job]
    BY SweptTyped DEF QueueInv
  <2>2. PICK i, row : /\ i \in JobId /\ row.status = "RUNNING"
                      /\ jobs' = [Swept EXCEPT ![i] = row]
    BY <1>4 DEF Claim, FirstInQueue, Claimable
  <2>3. jobs'[i].status = "RUNNING" /\ \A j \in JobId \ {i} : jobs'[j] = Swept[j]
    BY <2>1, <2>2
  <2> QED
    BY <2>3, SweepsAreFenced DEF Fenced
<1>5. ASSUME NEW w \in Worker, LockKeyTooLate(w) \/ Publish(w)
      PROVE  \A j \in JobId : Fenced(j)
  <2>1. Busy(w) /\ HoldsJob(w) /\ RunEnds(w)
    BY <1>5 DEF LockKeyTooLate, Publish, Busy, HoldsJob
  <2>2. /\ WorkerSound(w) /\ worker[w].job \in JobId /\ worker \in [Worker -> WorkerState]
    BY <2>1, BusySound
  <2>3. worker'[w].pc \in {"idle", "failing"}
    <3>1. CASE worker' = [worker EXCEPT ![w] = IdleWorker]
      BY <2>2, <3>1 DEF IdleWorker
    <3>2. CASE worker' = [worker EXCEPT ![w] = Unwound(w, "failing", TRUE)]
      BY <2>2, <3>2 DEF Unwound, IdleWorker
    <3> QED
      BY <2>1, <3>1, <3>2 DEF RunEnds
  <2>4. PICK status \in Status :
          jobs' = [jobs EXCEPT ![worker[w].job] = Released(worker[w].job, status)]
    BY <1>5 DEF LockKeyTooLate, Publish, Status, TerminalStatuses
  <2>5. jobs[worker[w].job].token = worker[w].token /\ worker'[w].pc # worker[w].pc
    BY <2>1, <2>2, <2>3 DEF WorkerSound, HoldsJob
  <2> QED
    BY <2>1, <2>4, <2>5, OwnerWrites
<1>6. ASSUME NEW w \in Worker, NEW status \in Status, Busy(w), Settle(w, status)
      PROVE  \A j \in JobId : Fenced(j)
  <2>1. CASE ~OwnsClaim(w)
    BY <1>1, <1>6, <2>1 DEF Settle
  <2>2. CASE OwnsClaim(w)
    <3>1. worker'[w].pc # worker[w].pc
      BY <1>6, BusySound DEF Settle, Busy, IdleWorker
    <3> QED
      BY <1>6, <2>2, <3>1, OwnerWrites DEF Settle, OwnsClaim
  <2> QED
    BY <2>1, <2>2
<1>7. ASSUME NEW j \in JobId, LeaseExpires(j) PROVE \A i \in JobId : Fenced(i)
  <2>1. jobs \in [JobId -> Job] /\ jobs' = [jobs EXCEPT ![j].lease = "EXPIRED"]
    BY <1>7 DEF LeaseExpires, QueueInv, Shape, TypeOK
  <2>2. \A i \in JobId : jobs'[i].status = jobs[i].status
    BY <2>1 DEF Job
  <2> QED
    BY <2>2 DEF Fenced
<1>8. ASSUME NEW w \in Worker, MarkSuperseded(w) \/ RecordFailure(w)
      PROVE  \A j \in JobId : Fenced(j)
  <2>1. Busy(w)
    BY <1>8 DEF MarkSuperseded, RecordFailure, Busy
  <2>2. PICK status \in Status : Settle(w, status)
    BY <1>8 DEF MarkSuperseded, RecordFailure, Status, TerminalStatuses
  <2> QED
    BY <1>6, <2>1, <2>2
<1>9. CASE ServiceNext
  <2>1. PICK c \in Client : Commit(c) \/ UNCHANGED jobs
    BY <1>9 DEF ServiceNext, LockCase, TxStep, TouchKey, ReadDependents, Bootstrap, Rollback,
       tables
  <2> QED
    BY <1>1, <1>2, <2>1
<1>10. CASE WorkerNext
  <2>1. ASSUME NEW w \in Worker, WorkerStep(w) \/ PollEmpty(w) \/ Fail(w) \/ Crash(w)
        PROVE  \A j \in JobId : Fenced(j)
    <3>1. CASE ReadFirst(w) \/ ReadInputs(w) \/ ReadSecond(w) \/ LockJob(w) \/ LockKey(w)
               \/ PollEmpty(w) \/ Fail(w) \/ Crash(w)
      BY <1>1, <3>1 DEF ReadFirst, ReadInputs, ReadSecond, LockJob, LockKey, PollEmpty, Fail,
         Crash, tables, vars
    <3> QED
      BY <1>3, <1>4, <1>5, <1>8, <2>1, <3>1 DEF WorkerStep
  <2> QED
    BY <1>7, <1>10, <2>1 DEF WorkerNext
<1>11. CASE UNCHANGED vars
  BY <1>1, <1>11 DEF vars
<1> QED
  BY <1>9, <1>10, <1>11 DEF Next

\* A job leaves RUNNING by the worker whose claim token is in its row, or by a claim
\* transaction that finds its last lease run out: a run that has lost its claim can
\* neither publish, nor supersede, nor fail the job (_owns_claim).
THEOREM CompletionIsFenced == Spec => CompletionFenced
<1>1. QueueInv /\ [Next]_vars => [\A j \in JobId : Fenced(j)]_vars
  BY StepsAreFenced
<1>2. Spec => [][\A j \in JobId : Fenced(j)]_vars
  BY <1>1, QueueInvHolds, PTL DEF Spec
<1> QED
  BY <1>2 DEF CompletionFenced, Fenced

-----------------------------------------------------------------------------
(* Who waits for whom.  A mutation waits for the case row, then for one key at *)
(* a time; a worker waits for the row of its job, then for its key.  A claim   *)
(* skips locked rows and waits for nothing.  A set of sessions is a set of     *)
(* clients and a set of workers.                                               *)

KeyHeldIn(k, clients, workers) ==
    \/ \E c \in clients : k \in tx[c].locked
    \/ \E w \in workers : worker[w].pc = "publishing" /\ worker[w].job[1] = k
JobHeldIn(j, workers) == \E w \in workers : HoldsJob(w) /\ worker[w].job = j

\* The key that a mutation is about to touch.
NextKey(c, k) ==
    /\ tx[c].pc = "touch"
    /\ k \in Untouched(tx[c])
    /\ \A other \in Untouched(tx[c]) : k <= other

\* A request waits for a row that one of these sessions has locked.
ClientWaits(c, clients, workers) ==
    \/ tx[c].pc = "idle" /\ \E d \in clients : tx[d].pc # "idle"
    \/ \E k \in Key : NextKey(c, k) /\ KeyHeldIn(k, clients, workers)

\* A worker waits for a row that one of these sessions has locked.
WorkerWaits(w, clients, workers) ==
    \/ /\ worker[w].pc \in {"computed", "superseding", "failing"}
       /\ JobHeldIn(worker[w].job, workers)
    \/ /\ worker[w].pc = "job_locked"
       /\ KeyHeldIn(JobKey(w), clients, workers)

\* Among any sessions there is one that waits for none of them.
NoWaitCycle ==
    \A clients \in SUBSET Client, workers \in SUBSET Worker :
        clients # {} \/ workers # {} =>
            \/ \E c \in clients : ~ClientWaits(c, clients, workers)
            \/ \E w \in workers : ~WorkerWaits(w, clients, workers)

\* What TxStep and WorkerStep ask of the state in which they are taken.
TxMayStep(c) ==
    \/ tx[c].pc = "touch" /\ Untouched(tx[c]) = {}
    \/ \E k \in Key : NextKey(c, k) /\ ~KeyLocked(k)
    \/ tx[c].pc \in {"dependents", "bootstrap"}
RunMayStep(w) ==
    \/ worker[w].pc \in {"claimed", "first_read", "inputs_read", "publishing"}
    \/ /\ worker[w].pc \in {"computed", "superseding", "failing"}
       /\ ~JobLocked(worker[w].job)
    \/ worker[w].pc = "job_locked" /\ ~KeyLocked(JobKey(w))

SomeoneGoesOn ==
    ((\E c \in Client : tx[c].pc # "idle") \/ (\E w \in Worker : Busy(w))) =>
        \/ \E c \in Client : TxMayStep(c)
        \/ \E w \in Worker : RunMayStep(w)

\* Of some keys one is the least.
LEMMA LeastKey ==
    ASSUME NEW keys \in SUBSET Key, keys # {}
    PROVE  \E k \in keys : \A other \in keys : k <= other
<1> DEFINE R == {p \in Nat \X Nat : p[1] < p[2]}
<1>1. IsWellFoundedOn(R, Nat)
  BY NatLessThanWellFounded DEF OpToRel
<1>2. keys \in SUBSET Nat
  BY KeyAssumption
<1> HIDE DEF R
<1>3. PICK k \in keys : \A other \in keys : <<other, k>> \notin R
  BY <1>1, <1>2, WFMin
<1>4. \A other \in keys : ~ (other < k)
  BY <1>2, <1>3 DEF R
<1> QED
  BY <1>2, <1>4

\* Locks are taken in layers: the sessions that are furthest wait for nobody.  First
\* workers that publish, then the mutation that is open, then workers that hold the
\* row of a job, then all others.
LEMMA WaitsAreLayered == ASSUME QueueInv PROVE NoWaitCycle
<1> SUFFICES ASSUME NEW clients \in SUBSET Client, NEW workers \in SUBSET Worker,
                    clients # {} \/ workers # {}
             PROVE  \/ \E c \in clients : ~ClientWaits(c, clients, workers)
                    \/ \E w \in workers : ~WorkerWaits(w, clients, workers)
  BY DEF NoWaitCycle
<1>1. CASE \E w \in workers : worker[w].pc = "publishing"
  BY <1>1 DEF WorkerWaits
<1>2. CASE \E c \in clients : tx[c].pc # "idle" /\ \A w \in workers : worker[w].pc # "publishing"
  <2>1. PICK c \in clients : tx[c].pc # "idle" /\ \A w \in workers : worker[w].pc # "publishing"
    BY <1>2
  <2>2. \A d \in clients : tx[d].locked # {} => d = c
    BY <2>1 DEF QueueInv, LocksSound, TxSound
  <2>3. \A k \in Key : ~ (NextKey(c, k) /\ KeyHeldIn(k, clients, workers))
    BY <2>1, <2>2 DEF NextKey, KeyHeldIn, Untouched
  <2> QED
    BY <2>1, <2>3 DEF ClientWaits
<1>3. CASE \A c \in clients : tx[c].pc = "idle"
  <2>1. \A c \in clients : tx[c].locked = {}
    BY <1>3 DEF QueueInv, LocksSound, TxSound
  <2>2. CASE clients # {}
    <3>1. PICK c \in clients : TRUE
      BY <2>2
    <3> QED
      BY <1>3, <3>1 DEF ClientWaits, NextKey
  <2>3. CASE workers # {} /\ \A w \in workers : worker[w].pc # "publishing"
    <3>1. \A k : ~KeyHeldIn(k, clients, workers)
      BY <2>1, <2>3 DEF KeyHeldIn
    <3>2. CASE \E w \in workers : worker[w].pc = "job_locked"
      BY <3>1, <3>2 DEF WorkerWaits
    <3>3. CASE \A w \in workers : worker[w].pc # "job_locked"
      <4>1. \A j : ~JobHeldIn(j, workers)
        BY <2>3, <3>3 DEF JobHeldIn, HoldsJob
      <4> QED
        BY <2>3, <3>3, <4>1 DEF WorkerWaits
    <3> QED
      BY <3>2, <3>3
  <2> QED
    BY <1>1, <2>2, <2>3
<1> QED
  BY <1>1, <1>2, <1>3

\* A session that has begun waits at most for sessions that have begun, so the one
\* among these that waits for none of them may take its step.
LEMMA BegunSessionGoesOn == ASSUME QueueInv PROVE SomeoneGoesOn
<1> DEFINE clients == {c \in Client : tx[c].pc # "idle"}
           workers == {w \in Worker : Busy(w)}
<1> SUFFICES ASSUME clients # {} \/ workers # {}
             PROVE  \/ \E c \in Client : TxMayStep(c)
                    \/ \E w \in Worker : RunMayStep(w)
  BY DEF SomeoneGoesOn
<1>0. /\ clients \in SUBSET Client /\ \A c \in clients : tx[c].pc # "idle"
      /\ \A c \in Client : tx[c].locked # {} => c \in clients
      /\ workers \in SUBSET Worker /\ \A w \in workers : worker[w].pc # "idle"
      /\ \A w \in Worker : worker[w].pc \in {"publishing", "job_locked"} => w \in workers
  BY DEF QueueInv, LocksSound, TxSound, Busy
<1> HIDE DEF clients, workers
<1>1. \A k : KeyLocked(k) => KeyHeldIn(k, clients, workers)
  BY <1>0 DEF KeyLocked, KeyLockedByWorker, KeyHeldIn
<1>2. \A j : JobLocked(j) => JobHeldIn(j, workers)
  BY <1>0 DEF JobLocked, JobHeldIn, HoldsJob
<1>3. \/ \E c \in clients : ~ClientWaits(c, clients, workers)
      \/ \E w \in workers : ~WorkerWaits(w, clients, workers)
  BY <1>0, WaitsAreLayered DEF NoWaitCycle
<1>4. ASSUME NEW c \in clients, ~ClientWaits(c, clients, workers) PROVE TxMayStep(c)
  <2>1. c \in Client /\ tx[c].pc # "idle" /\ tx[c] \in Tx /\ TxShaped(tx[c])
    BY <1>0 DEF QueueInv, Shape, TypeOK
  <2>2. CASE tx[c].pc = "touch" /\ Untouched(tx[c]) # {}
    <3>1. Untouched(tx[c]) \in SUBSET Key
      BY <2>1, UntouchedAreKeys DEF TxShaped
    <3>2. PICK k \in Untouched(tx[c]) : \A other \in Untouched(tx[c]) : k <= other
      BY <2>2, <3>1, LeastKey
    <3>3. k \in Key /\ NextKey(c, k)
      BY <2>2, <3>1, <3>2 DEF NextKey
    <3> QED
      BY <1>1, <1>4, <3>3 DEF ClientWaits, TxMayStep
  <2>3. CASE tx[c].pc = "touch" /\ Untouched(tx[c]) = {}
    BY <2>3 DEF TxMayStep
  <2>4. CASE tx[c].pc # "touch"
    BY <2>1, <2>4 DEF Tx, TxMayStep
  <2> QED
    BY <2>2, <2>3, <2>4
<1>5. ASSUME NEW w \in workers, ~WorkerWaits(w, clients, workers) PROVE RunMayStep(w)
  <2>1. w \in Worker /\ worker[w].pc # "idle" /\ worker[w] \in WorkerState
    BY <1>0 DEF QueueInv, Shape, TypeOK
  <2>2. CASE worker[w].pc \in {"computed", "superseding", "failing"}
    BY <1>2, <1>5, <2>2 DEF WorkerWaits, RunMayStep
  <2>3. CASE worker[w].pc = "job_locked"
    BY <1>1, <1>5, <2>3 DEF WorkerWaits, RunMayStep
  <2>4. CASE worker[w].pc \notin {"computed", "superseding", "failing", "job_locked"}
    BY <2>1, <2>4 DEF WorkerState, RunMayStep
  <2> QED
    BY <2>2, <2>3, <2>4
<1> QED
  BY <1>0, <1>3, <1>4, <1>5

\* The API processes and the workers never wait for each other in a circle: among any
\* sessions, however many, one waits for none of the others, and as long as one has
\* begun, one that has begun can take its next step without another having to die.
THEOREM WaitsEnd == Spec => [](NoWaitCycle /\ SomeoneGoesOn)
<1>1. QueueInv => NoWaitCycle /\ SomeoneGoesOn
  BY WaitsAreLayered, BegunSessionGoesOn
<1> QED
  BY <1>1, QueueInvHolds, PTL
=============================================================================
