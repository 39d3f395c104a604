---------------------------- MODULE EvidenceStore ----------------------------
(***************************************************************************)
(* The database of one Evidence Delta case: the tables that the mutation   *)
(* service and the recomputation workers share, the sessions they have     *)
(* open on it, and the row locks those sessions hold.                      *)
(*                                                                         *)
(* Tables hold committed rows only.  What a session has written and not    *)
(* committed is in its own record of tx or worker, invisible to the        *)
(* others, as under PostgreSQL's READ COMMITTED; a statement that reads    *)
(* sees what is committed when it runs.                                    *)
(***************************************************************************)
EXTENDS Integers, Sequences, FiniteSets

CONSTANTS
    Key,          \* change keys "timeline:<entity>:<day>", numbered in sorted order
    Doc,          \* document contents; one row per content hash and case
    KeysOf,       \* KeysOf[d]: the change keys of the assertions of d, by UTC day
    KeysReadBack, \* the same, derived from the rows of d as a session loads them
    NoDoc,        \* stands for no document
    Client,       \* API requests that can be open at the same time
    Worker,       \* worker processes or threads
    MaxAttempts,  \* the attempt budget of a job (max_attempts)
    MaxRevision,  \* bound: mutations of the case that are considered
    CreatedAt     \* CreatedAt[r]: created_at that the host of mutation r stamps

ASSUME KeyAssumption == Key \subseteq Nat \ {0} /\ IsFiniteSet(Key)
ASSUME DocAssumption == NoDoc \notin Doc
ASSUME KeysOfAssumption == KeysOf \in [Doc -> SUBSET Key]
ASSUME KeysReadBackAssumption == KeysReadBack \in [Doc -> SUBSET Key]
ASSUME BoundAssumption == MaxAttempts \in Nat \ {0} /\ MaxRevision \in Nat
ASSUME ClockAssumption == CreatedAt \in [1..MaxRevision -> Nat]

\* A timestamptz is loaded in the TimeZone of the session, and timeline_key takes
\* the date of what it is given: only in UTC sessions do both sides agree.
SessionsInUTC == KeysReadBack = KeysOf

VARIABLES
    revision,     \* cases.revision
    docs,         \* documents and document_retractions
    keyVersion,   \* change_keys.version, 0 for no row
    artifacts,    \* artifacts, named by artifact_key
    current,      \* artifacts.current_version_id as a version number, 0 for NULL
    versions,     \* artifact_versions with their artifact_dependencies
    jobs,         \* recompute_jobs
    changeSets,   \* change_sets, in revision order
    tx,           \* the mutation transaction each client has open
    worker        \* what each worker is doing

tables == <<revision, docs, keyVersion, artifacts, current, versions, jobs,
            changeSets>>
vars == <<revision, docs, keyVersion, artifacts, current, versions, jobs,
          changeSets, tx, worker>>

-----------------------------------------------------------------------------
(* Rows *)

Revision == 1..MaxRevision
Stamp == 0..MaxRevision            \* a revision, 0 for none
JobId == Key \X Revision           \* uq_job_artifact_revision
NoJob == <<0, 0>>

TerminalStatuses == {"SUCCEEDED", "SUPERSEDED", "FAILED_PERMANENT"}
Status == {"NO_ROW", "QUEUED", "RUNNING"} \cup TerminalStatuses

Document == [added : Stamp, retracted : Stamp]
Version == [job : Revision, change_key : Key, observed : Stamp,
            payload : SUBSET Doc]
\* A claim token is a fresh uuid4.  The ordinal of the claim stands for it:
\* it differs between any two claims of one job.  0 is NULL.
Job == [status : Status, attempts : 0..MaxAttempts,
        lease : {"NULL", "LIVE", "EXPIRED"}, token : 0..MaxAttempts]
ChangeSet == [operation : {"ADD_DOCUMENT", "RETRACT_DOCUMENT"}, document : Doc,
              affected : SUBSET Key, queued : SUBSET Key, untouched : Int]

NoRow == [status |-> "NO_ROW", attempts |-> 0, lease |-> "NULL", token |-> 0]
NewJob == [NoRow EXCEPT !.status = "QUEUED"]

Exists(j) == jobs[j].status # "NO_ROW"
Terminal(j) == jobs[j].status \in TerminalStatuses

-----------------------------------------------------------------------------
(* The ledger of evidence and what is derived from it *)

Active(d) == docs[d].added # 0 /\ docs[d].retracted = 0

\* The assertions of the timeline of key k that no tombstone covers.  An
\* assertion is named by its document: with the key that identifies it here.
ActiveFor(k) == {d \in Doc : k \in KeysOf[d] /\ Active(d)}

\* The same, as it was when the case stood at revision r.
ActiveForAt(k, r) ==
    {d \in Doc : /\ k \in KeysOf[d]
                 /\ docs[d].added # 0 /\ docs[d].added <= r
                 /\ ~(docs[d].retracted # 0 /\ docs[d].retracted <= r)}

CurrentVersion(k) == versions[k][current[k]]

\* current_artifact's "fresh": what the current version read is what its
\* change key still says.
Fresh(k) ==
    /\ current[k] # 0
    /\ CurrentVersion(k).observed = keyVersion[CurrentVersion(k).change_key]

-----------------------------------------------------------------------------
(* Sessions and the row locks they hold until they commit or roll back *)

IdleTx == [pc |-> "idle", operation |-> "NONE", doc |-> NoDoc, rev |-> 0,
           key |-> 0, locked |-> {}, created |-> {}, queued |-> {}]
IdleWorker == [pc |-> "idle", job |-> NoJob, token |-> 0, first |-> 0,
               inputs |-> {}, retryable |-> FALSE]

Tx == [pc : {"idle", "touch", "dependents", "bootstrap"},
       operation : {"NONE", "ADD_DOCUMENT", "RETRACT_DOCUMENT"},
       doc : Doc \cup {NoDoc}, rev : Stamp, key : Key \cup {0},
       locked : SUBSET Key, created : SUBSET Key, queued : SUBSET Key]
WorkerState ==
      [pc : {"idle", "claimed", "first_read", "inputs_read", "computed",
             "job_locked", "publishing", "superseding", "failing"},
       job : JobId \cup {NoJob}, token : 0..MaxAttempts, first : Stamp,
       inputs : SUBSET Doc, retryable : BOOLEAN]

KeyLockedByWorker(k) ==
    \E w \in Worker : worker[w].pc = "publishing" /\ worker[w].job[1] = k
CaseLocked == \E c \in Client : tx[c].pc # "idle"
KeyLocked(k) ==
    \/ \E c \in Client : k \in tx[c].locked
    \/ KeyLockedByWorker(k)
JobLocked(j) ==
    \E w \in Worker : /\ worker[w].pc \in {"job_locked", "publishing"}
                      /\ worker[w].job = j

TypeOK ==
    /\ revision \in Stamp
    /\ docs \in [Doc -> Document]
    /\ keyVersion \in [Key -> Stamp]
    /\ artifacts \subseteq Key
    /\ current \in [Key -> Nat]
    /\ versions \in [Key -> Seq(Version)]
    /\ jobs \in [JobId -> Job]
    /\ changeSets \in Seq(ChangeSet)
    /\ tx \in [Client -> Tx]
    /\ worker \in [Worker -> WorkerState]

\* A case that has just been created (create_case), no request, idle workers.
Init ==
    /\ revision = 0
    /\ docs = [d \in Doc |-> [added |-> 0, retracted |-> 0]]
    /\ keyVersion = [k \in Key |-> 0]
    /\ artifacts = {}
    /\ current = [k \in Key |-> 0]
    /\ versions = [k \in Key |-> <<>>]
    /\ jobs = [j \in JobId |-> NoRow]
    /\ changeSets = <<>>
    /\ tx = [c \in Client |-> IdleTx]
    /\ worker = [w \in Worker |-> IdleWorker]
=============================================================================
