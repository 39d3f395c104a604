------------------------------ MODULE CaseReader ------------------------------
(***************************************************************************)
(* GET requests that answer from several statements while the engine runs. *)
(* The sessions are READ COMMITTED: each statement sees what is committed  *)
(* when it runs, and no two of them need to see the same.                  *)
(***************************************************************************)
EXTENDS DeltaEngine

CONSTANT Queries  \* bound: the kinds of request that an instance considers

Query == {"findings", "artifact", "proof", "changes", "workspace", "operations"}
ASSUME QueriesAssumption == Queries \subseteq Query

VARIABLE reader   \* the request that is being answered, or was answered last

readerVars == <<vars, reader>>

\* A timeline as a dict entry: its key and the documents it shows.
Entry == Key \X SUBSET Doc
NoStamps == [d \in Doc |-> 0]
NoVersions == [k \in Key |-> 0]

ReaderState ==
    [query : Query \cup {"none"},
     pc : {"answered", "events", "dependencies", "documents", "retractions",
           "assertions", "change_jobs", "incremental", "artifacts", "rebuild",
           "queue", "source_list", "timeline_list", "timelines", "case", "jobs",
           "keys", "artifact_rows"},
     label : Stamp,                    \* case.revision in the answer
     events : SUBSET Doc,              \* findings: documents of the active events
     key : Key \cup {0}, version : Nat, fresh : BOOLEAN,          \* artifact
     latest : Nat,                     \* changes: the newest one listed
     documents : SUBSET Doc,
     retracted : [Doc -> Stamp], added : [Doc -> Stamp],
     accounted : SUBSET Nat,           \* changes all of whose jobs were found
     incremental : SUBSET Entry, todo : SUBSET Key, rebuilt : SUBSET Entry,
     verified : BOOLEAN,
     listed : SUBSET Key, shown : [Key -> Nat],   \* timelines and their versions
     freshOnes : SUBSET Key,           \* workspace: the timelines called fresh
     failed : BOOLEAN,                 \* operations: the latest change has a failed job
     loaded : SUBSET Key, keys : [Key -> Stamp], operational : BOOLEAN]

NoRequest ==
    [query |-> "none", pc |-> "answered", label |-> 0, events |-> {},
     key |-> 0, version |-> 0, fresh |-> FALSE, latest |-> 0, documents |-> {},
     retracted |-> NoStamps, added |-> NoStamps, accounted |-> {},
     incremental |-> {}, todo |-> {}, rebuilt |-> {}, verified |-> FALSE,
     listed |-> {}, shown |-> NoVersions, freshOnes |-> {}, failed |-> FALSE,
     loaded |-> {}, keys |-> NoVersions, operational |-> FALSE]

\* Between the two statements of current_artifact the version that was read
\* exists, whatever has been published since, and nothing has been claimed yet.
VersionRead ==
    reader.pc = "dependencies" =>
        /\ reader.key \in Key
        /\ reader.version \in 1..Len(versions[reader.key])
        /\ reader.fresh = FALSE

\* Requests and engine keep to their types, and no request asks for the
\* dependencies of a version that is not there (current_artifact, case_workspace).
ReaderTypeOK == TypeOK /\ reader \in ReaderState /\ VersionRead

\* A request starts afresh and remembers nothing of the one before.
Asks(query) == reader.pc = "answered" /\ query \in Queries
Started(query, pc) == [NoRequest EXCEPT !.query = query, !.pc = pc]

-----------------------------------------------------------------------------
(* case_findings, case_evidence_graph, case_search *)

FindingsCase ==
    /\ Asks("findings")
    /\ reader' = [Started("findings", "events") EXCEPT !.label = revision]
    /\ UNCHANGED vars

\* The events of now; the revision stays the one that was loaded before them.
FindingsEvents ==
    /\ reader.pc = "events"
    /\ reader' = [reader EXCEPT !.pc = "answered",
                                !.events = {d \in Doc : Active(d)}]
    /\ UNCHANGED vars

-----------------------------------------------------------------------------
(* current_artifact *)

ArtifactVersion(k) ==
    /\ Asks("artifact")
    /\ reader' = [Started("artifact", IF current[k] = 0 THEN "answered"
                                                        ELSE "dependencies")
                    EXCEPT !.key = k, !.version = current[k]]
    /\ UNCHANGED vars

\* The workspace has one timeline after the other answered, in its own request.
AfterTimeline == IF reader.query = "workspace" /\ reader.todo # {} THEN "timelines"
                                                                   ELSE "answered"

\* Mutant: the dependencies of the version that is current by now.
DependenciesOfCurrent ==
    /\ reader.pc = "dependencies"
    /\ reader' = [reader EXCEPT
                    !.pc = AfterTimeline,
                    !.fresh = Fresh(reader.key),
                    !.freshOnes = reader.freshOnes
                                    \cup (IF Fresh(reader.key) THEN {reader.key} ELSE {})]
    /\ UNCHANGED vars

\* The dependencies of the version that was read, with their keys as of now.
ArtifactDependencies ==
    /\ reader.pc = "dependencies"
    /\ LET read == versions[reader.key][reader.version]
           matched == read.observed = keyVersion[read.change_key]
       IN  reader' = [reader EXCEPT
                        !.pc = AfterTimeline,
                        !.fresh = matched,
                        !.freshOnes = reader.freshOnes
                                        \cup (IF matched THEN {reader.key} ELSE {})]
    /\ UNCHANGED vars

-----------------------------------------------------------------------------
(* case_workspace: a session for the case, and one for each timeline *)

WorkspaceCase ==
    /\ Asks("workspace")
    /\ reader' = [Started("workspace", "source_list") EXCEPT !.label = revision]
    /\ UNCHANGED vars

WorkspaceDocuments ==
    /\ reader.pc = "source_list"
    /\ reader' = [reader EXCEPT !.pc = "timeline_list",
                                !.documents = {d \in Doc : docs[d].added # 0},
                                !.retracted = [d \in Doc |-> docs[d].retracted]]
    /\ UNCHANGED vars

WorkspaceKeys ==
    /\ reader.pc = "timeline_list"
    /\ reader' = [reader EXCEPT !.pc = IF artifacts = {} THEN "answered" ELSE "timelines",
                                !.listed = artifacts, !.todo = artifacts]
    /\ UNCHANGED vars

\* Mutant: the sources are listed again next to each timeline.
WorkspaceVersionWithSources(k) ==
    /\ reader.pc = "timelines"
    /\ k \in reader.todo /\ \A other \in reader.todo : k <= other
    /\ current[k] # 0
    /\ reader' = [reader EXCEPT !.pc = "dependencies", !.key = k, !.version = current[k],
                                !.fresh = FALSE, !.shown[k] = current[k],
                                !.todo = reader.todo \ {k},
                                !.documents = {d \in Doc : docs[d].added # 0},
                                !.retracted = [d \in Doc |-> docs[d].retracted]]
    /\ UNCHANGED vars

\* Mutant: no placeholder for a timeline that has no version yet.
WorkspaceVersionAnyway(k) ==
    /\ reader.pc = "timelines"
    /\ k \in reader.todo /\ \A other \in reader.todo : k <= other
    /\ reader' = [reader EXCEPT !.pc = "dependencies", !.key = k, !.version = current[k],
                                !.fresh = FALSE, !.shown[k] = current[k],
                                !.todo = reader.todo \ {k}]
    /\ UNCHANGED vars

\* current_artifact of the next timeline, or a placeholder without a version.
WorkspaceVersion(k) ==
    /\ reader.pc = "timelines"
    /\ k \in reader.todo /\ \A other \in reader.todo : k <= other
    /\ LET rest == reader.todo \ {k}
       IN  reader' = [reader EXCEPT
                        !.pc = IF current[k] # 0 THEN "dependencies"
                               ELSE IF rest # {} THEN "timelines" ELSE "answered",
                        !.key = k, !.version = current[k], !.fresh = FALSE,
                        !.shown[k] = current[k], !.todo = rest]
    /\ UNCHANGED vars

-----------------------------------------------------------------------------
(* case_changes, up to its call of case_proof *)

\* case_operations begins with the latest change of case_changes.
ChangesList ==
    /\ \E query \in {"changes", "operations"} :
         /\ Asks(query)
         /\ reader' = [Started(query, "documents") EXCEPT !.latest = Len(changeSets)]
    /\ UNCHANGED vars

ChangesListed ==
    IF reader.query = "operations" THEN {reader.latest} \ {0} ELSE 1..reader.latest

ChangesDocuments ==
    /\ reader.pc = "documents"
    /\ reader' = [reader EXCEPT !.pc = "retractions",
                                !.documents = {d \in Doc : docs[d].added # 0}]
    /\ UNCHANGED vars

\* Mutant: the changes are listed again after the documents.
ChangesListedLate ==
    /\ reader.pc = "retractions"
    /\ reader' = [reader EXCEPT !.pc = "assertions", !.latest = Len(changeSets),
                                !.retracted = [d \in Doc |-> docs[d].retracted]]
    /\ UNCHANGED vars

ChangesRetractions ==
    /\ reader.pc = "retractions"
    /\ reader' = [reader EXCEPT !.pc = "assertions",
                                !.retracted = [d \in Doc |-> docs[d].retracted]]
    /\ UNCHANGED vars

ChangesAssertions ==
    /\ reader.pc = "assertions"
    /\ reader' = [reader EXCEPT !.pc = "change_jobs",
                                !.added = [d \in Doc |-> docs[d].added]]
    /\ UNCHANGED vars

\* len(change_jobs) == requested
Accounted(r) ==
    Cardinality({j \in JobId : j[2] = r /\ Exists(j) /\ j[1] \in changeSets[r].queued})
        = Cardinality(changeSets[r].queued)

ChangesJobs ==
    /\ reader.pc = "change_jobs"
    /\ reader' = [reader EXCEPT !.pc = "incremental",
                    !.accounted = {r \in ChangesListed : Accounted(r)},
                    !.failed = \E j \in JobId : /\ j[2] = reader.latest
                                               /\ jobs[j].status = "FAILED_PERMANENT"]
    /\ UNCHANGED vars

\* Mutant: a retraction already counts at the revision before it.
FindingsFrom(r) ==
    {d \in Doc : /\ reader.added[d] # 0 /\ reader.added[d] <= r
                 /\ reader.retracted[d] = 0 \/ reader.retracted[d] > r + 1}

\* findings_at: the evidence at a revision, from the stamps that were read.
FindingsAt(r) ==
    {d \in Doc : /\ reader.added[d] # 0 /\ reader.added[d] <= r
                 /\ reader.retracted[d] = 0 \/ reader.retracted[d] > r}

-----------------------------------------------------------------------------
(* case_proof: incremental_state, full_rebuild_state, then the counts *)

\* What case_changes made of its rows is in the answer: only the flag is used again.
ProofIncremental ==
    /\ \/ Asks("proof")
       \/ reader.pc = "incremental"
    /\ LET query == IF reader.pc = "incremental" THEN reader.query ELSE "proof"
       IN  reader' = [Started(query, "artifacts")
                        EXCEPT !.failed = query # "proof" /\ reader.failed,
                               !.incremental = {<<k, CurrentVersion(k).payload>> :
                                                   k \in {a \in artifacts : current[a] # 0}}]
    /\ UNCHANGED vars

ProofArtifacts ==
    /\ reader.pc = "artifacts"
    /\ reader' = [reader EXCEPT !.pc = "rebuild", !.todo = artifacts]
    /\ UNCHANGED vars

\* Timelines are rebuilt one by one, in the order of their keys.
ProofRebuild ==
    /\ reader.pc = "rebuild"
    /\ \E k \in reader.todo :
         /\ \A other \in reader.todo : k <= other
         /\ reader' = [reader EXCEPT !.todo = reader.todo \ {k},
                                     !.rebuilt = reader.rebuilt
                                                   \cup {<<k, ActiveFor(k)>>}]
    /\ UNCHANGED vars

ProofCase ==
    /\ reader.pc = "rebuild"
    /\ reader.todo = {}
    /\ reader' = [reader EXCEPT !.pc = "queue", !.label = revision]
    /\ UNCHANGED vars

StatusesPresent == {jobs[j].status : j \in {i \in JobId : Exists(i)}}

\* Mutant: jobs that were given up count as settled like the others.
VerifiedBySettled ==
    /\ reader.incremental = reader.rebuilt
    /\ StatusesPresent \subseteq TerminalStatuses

\* current_verification: equivalent, settled and no job given up.
Verified ==
    /\ reader.incremental = reader.rebuilt
    /\ StatusesPresent \subseteq TerminalStatuses
    /\ "FAILED_PERMANENT" \notin StatusesPresent

ProofQueue ==
    /\ reader.pc = "queue"
    /\ reader' = [reader EXCEPT
                    !.pc = IF reader.query = "operations" THEN "case" ELSE "answered",
                    !.verified = Verified, !.incremental = {}, !.rebuilt = {}]
    /\ UNCHANGED vars

-----------------------------------------------------------------------------
(* case_operations: what follows case_changes, in one session *)

OperationsCase ==
    /\ reader.pc = "case"
    /\ reader' = [reader EXCEPT !.pc = "jobs", !.label = revision]
    /\ UNCHANGED vars

\* ORDER BY created_at DESC with a LIMIT, at least 1: the bound itself is left open.
IsNewest(page) ==
    LET all == {j \in JobId : Exists(j)}
    IN  /\ all # {} => page # {}
        /\ \A j \in page, other \in all \ page : CreatedAt[other[2]] <= CreatedAt[j[2]]

\* These jobs come with their artifact rows, which the session does not load again.
OperationsJobs ==
    /\ reader.pc = "jobs"
    /\ \E page \in SUBSET {j \in JobId : Exists(j)} :
         /\ IsNewest(page)
         /\ reader' = [reader EXCEPT !.pc = "keys", !.loaded = {j[1] : j \in page},
                                     !.shown = current]
    /\ UNCHANGED vars

OperationsKeys ==
    /\ reader.pc = "keys"
    /\ reader' = [reader EXCEPT !.pc = "artifact_rows", !.keys = keyVersion]
    /\ UNCHANGED vars

\* The version that the answer shows of timeline k.
RowOf(k) == IF k \in reader.loaded THEN reader.shown[k] ELSE current[k]

\* A version and its dependencies never change, whenever they are read.
DependenciesMatch(k, n) ==
    n # 0 /\ versions[k][n].observed = reader.keys[versions[k][n].change_key]

\* Mutant: the verdict of the proof is passed on.
OperationalAsVerified == reader.verified /\ ~reader.failed

Operational ==
    /\ reader.verified
    /\ artifacts # {} /\ \A k \in artifacts : DependenciesMatch(k, RowOf(k))
    /\ ~reader.failed

OperationsArtifacts ==
    /\ reader.pc = "artifact_rows"
    /\ reader' = [reader EXCEPT !.pc = "answered", !.listed = artifacts,
                                !.shown = [k \in Key |-> RowOf(k)],
                                !.operational = Operational]
    /\ UNCHANGED vars

-----------------------------------------------------------------------------
ReaderStep ==
    \/ FindingsCase \/ FindingsEvents
    \/ (\E k \in Key : ArtifactVersion(k)) \/ ArtifactDependencies
    \/ ChangesList \/ ChangesDocuments \/ ChangesRetractions \/ ChangesAssertions
    \/ ChangesJobs
    \/ ProofIncremental \/ ProofArtifacts \/ ProofRebuild \/ ProofCase \/ ProofQueue
    \/ WorkspaceCase \/ WorkspaceDocuments \/ WorkspaceKeys
    \/ (\E k \in Key : WorkspaceVersion(k))
    \/ OperationsCase \/ OperationsJobs \/ OperationsKeys \/ OperationsArtifacts

ReaderNext == (Next /\ UNCHANGED reader) \/ ReaderStep

ReaderSpec == Init /\ reader = NoRequest /\ [][ReaderNext]_readerVars

-----------------------------------------------------------------------------
(* What the answers are worth *)

\* The evidence after the first r mutations, as the ledger tells it.
EvidenceAt(r) ==
    {d \in Doc :
       /\ \E s \in 1..r : changeSets[s].operation = "ADD_DOCUMENT"
                            /\ changeSets[s].document = d
       /\ ~\E s \in 1..r : changeSets[s].operation = "RETRACT_DOCUMENT"
                             /\ changeSets[s].document = d}

Answered(query) == reader.query = query /\ reader.pc = "answered"

\* The revision of an answer is the one whose evidence it shows.
FindingsMatchLabel == Answered("findings") => reader.events = EvidenceAt(reader.label)

\* A timeline answered as fresh is exact at the moment its dependencies are
\* read, although the version was read before (current_artifact).
FreshAnswerIsExact ==
    [][(reader.pc = "dependencies" /\ reader'.fresh) =>
          versions[reader.key][reader.version].payload = ActiveFor(reader.key)]_readerVars

\* Whatever the statements of the proof saw before: when the last of them makes
\* the answer "verified", the maintained state equals the rebuild at that moment
\* (case_proof, current_verification).
VerifiedIsSound ==
    [][(reader.pc = "queue" /\ reader'.verified) => EqualsRebuild]_readerVars

\* The change brief reconstructs the evidence before and after each change it
\* lists from stamps that were read later, while the case moved on.
HistoryIsExact ==
    reader.pc \in {"change_jobs", "incremental"} =>
        \A r \in 0..reader.latest : FindingsAt(r) = EvidenceAt(r)

\* It never lists a change without finding its document and all of its jobs:
\* a missing document is a KeyError, a missing job a change that never settles.
ChangesAreComplete ==
    reader.pc = "incremental" =>
        /\ {changeSets[r].document : r \in ChangesListed} \subseteq reader.documents
        /\ reader.accounted = ChangesListed

\* The workspace never shows a source as withdrawn and, in a timeline it calls
\* fresh, evidence from it; and what it lists as active is in the fresh timelines
\* that it is about, or has been withdrawn meanwhile (case_workspace reads the
\* sources first and then each timeline in a session of its own).
WorkspaceHoldsTogether ==
    Answered("workspace") =>
        \A k \in reader.freshOnes : \A d \in Doc :
            LET cited == d \in versions[k][reader.shown[k]].payload
            IN  /\ reader.retracted[d] # 0 => ~cited
                /\ (d \in reader.documents /\ k \in KeysOf[d] /\ Active(d)) => cited

\* The timelines there were when the case stood at revision r.
TimelinesAt(r) == UNION {changeSets[s].affected : s \in 1..r}

\* The operations view is assembled by many statements, some of rows that are not
\* read again, around mutations and publications.  Still there is one revision, not
\* before its label, of which every timeline it calls fresh shows the evidence, and
\* "operational" means that these are all the timelines there were (case_operations).
OperationsOfOneRevision ==
    Answered("operations") =>
        \E r \in reader.label..revision :
            /\ \A k \in reader.listed :
                 DependenciesMatch(k, reader.shown[k]) =>
                     versions[k][reader.shown[k]].payload = ActiveForAt(k, r)
            /\ reader.operational =>
                 /\ reader.listed = TimelinesAt(r)
                 /\ \A k \in reader.listed : DependenciesMatch(k, reader.shown[k])
=============================================================================
