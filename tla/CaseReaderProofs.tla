--------------------------- MODULE CaseReaderProofs ---------------------------
(***************************************************************************)
(* Theorems about CaseReader: what an answer is worth while any number of  *)
(* mutations and workers go on between the statements that it is made of.  *)
(***************************************************************************)
EXTENDS CaseReader, ExactnessProofs

ReaderInv == QueueInv /\ reader \in ReaderState /\ VersionRead

\* Versions are only ever appended: one that was read stays what it was.
LEMMA VersionsGrow ==
    ASSUME QueueInv, [Next]_vars, NEW k \in Key
    PROVE  /\ Len(versions[k]) \in Nat /\ Len(versions'[k]) \in Nat
           /\ Len(versions[k]) <= Len(versions'[k])
           /\ \A n \in 1..Len(versions[k]) : versions'[k][n] = versions[k][n]
<1>1. versions[k] \in Seq(Version) /\ versions \in [Key -> Seq(Version)]
  BY DEF QueueInv, Shape, TypeOK
<1>2. CASE UNCHANGED versions
  BY <1>1, <1>2
<1>3. ASSUME NEW w \in Worker, Publish(w)
      PROVE  versions'[k] = versions[k] \/ \E new \in Version : versions'[k] = Append(versions[k], new)
  BY <1>1, <1>3, PublishWrites
<1>4. ASSUME NEW new \in Version, versions'[k] = Append(versions[k], new)
      PROVE  /\ Len(versions[k]) \in Nat /\ Len(versions'[k]) \in Nat
             /\ Len(versions[k]) <= Len(versions'[k])
             /\ \A n \in 1..Len(versions[k]) : versions'[k][n] = versions[k][n]
  BY <1>1, <1>4
<1> QED
  BY <1>1, <1>2, <1>3, <1>4, OnlyPublishWrites

\* What requests start from has the type of a request.
LEMMA NoRequestTyped == NoRequest \in ReaderState /\ NoStamps \in [Doc -> Stamp]
<1>1. NoStamps \in [Doc -> Stamp] /\ NoVersions \in [Key -> Nat] /\ NoVersions \in [Key -> Stamp]
  BY BoundAssumption DEF NoStamps, NoVersions, Stamp
<1> QED
  BY <1>1, BoundAssumption DEF NoRequest, ReaderState, Stamp, Query

\* A current version has a payload of documents.
LEMMA CurrentTyped ==
    ASSUME QueueInv, NEW k \in Key, current[k] # 0
    PROVE  /\ current[k] \in 1..Len(versions[k])
           /\ CurrentVersion(k).payload \subseteq Doc
<1>1. versions[k] \in Seq(Version) /\ current[k] = Len(versions[k])
  BY DEF QueueInv, Shape, TypeOK, TablesSound, VersionsSound
<1>2. current[k] \in 1..Len(versions[k])
  BY <1>1
<1>3. CurrentVersion(k) \in Version
  BY <1>1, <1>2 DEF CurrentVersion
<1> QED
  BY <1>2, <1>3 DEF Version

\* Requests only read.
LEMMA ReadersOnlyRead == ReaderStep => UNCHANGED vars
  BY DEF ReaderStep, FindingsCase, FindingsEvents, ArtifactVersion, ArtifactDependencies,
     ChangesList, ChangesDocuments, ChangesRetractions, ChangesAssertions, ChangesJobs,
     ProofIncremental, ProofArtifacts, ProofRebuild, ProofCase, ProofQueue, WorkspaceCase,
     WorkspaceDocuments, WorkspaceKeys, WorkspaceVersion, OperationsCase, OperationsJobs,
     OperationsKeys, OperationsArtifacts

\* A statement of a request keeps the invariant: it writes only its own record.
LEMMA ReaderStepInv == ASSUME ReaderInv, ReaderStep PROVE ReaderInv'
<1>1. reader \in ReaderState /\ Shape /\ UNCHANGED vars
  BY ReadersOnlyRead DEF ReaderInv, QueueInv
<1>2. QueueInv'
  BY <1>1, NextQueue DEF ReaderInv
<1>3. /\ revision \in Stamp /\ Len(changeSets) \in Nat /\ artifacts \subseteq Key
      /\ \A d \in Doc : docs[d].added \in Stamp /\ docs[d].retracted \in Stamp
  BY <1>1 DEF Shape, TypeOK, Document
<1>4. ASSUME FindingsCase \/ FindingsEvents
      PROVE  reader' \in ReaderState /\ reader'.pc # "dependencies"
  <2>1. ASSUME FindingsCase PROVE reader' \in ReaderState /\ reader'.pc # "dependencies"
    BY <1>3, <2>1, NoRequestTyped DEF FindingsCase, Started, ReaderState, Query
  <2>2. ASSUME FindingsEvents PROVE reader' \in ReaderState /\ reader'.pc # "dependencies"
    <3>1. {d \in Doc : Active(d)} \subseteq Doc
      OBVIOUS
    <3> QED
      BY <1>1, <2>2, <3>1 DEF FindingsEvents, ReaderState
  <2> QED
    BY <1>4, <2>1, <2>2
<1>5. ASSUME NEW k \in Key, ArtifactVersion(k) PROVE reader' \in ReaderState /\ VersionRead'
  <2>1. current[k] \in Nat
    BY <1>1 DEF Shape, TypeOK
  <2> DEFINE next == IF current[k] = 0 THEN "answered" ELSE "dependencies"
             base == Started("artifact", next)
  <2>2. next \in {"answered", "dependencies"} /\ (next = "dependencies" => current[k] # 0)
    OBVIOUS
  <2>3. reader' = [base EXCEPT !.key = k, !.version = current[k]]
    BY <1>5 DEF ArtifactVersion
  <2> HIDE DEF next
  <2>4. base \in ReaderState /\ base.fresh = FALSE /\ base.pc = next
    <3>1. NoRequest.fresh = FALSE
      BY DEF NoRequest
    <3> QED
      BY <2>2, <3>1, NoRequestTyped DEF Started, ReaderState, Query
  <2> HIDE DEF base
  <2>5. reader' \in ReaderState /\ reader'.fresh = FALSE /\ reader'.key = k
        /\ reader'.version = current[k] /\ reader'.pc = next
    BY <2>1, <2>3, <2>4 DEF ReaderState
  <2>6. UNCHANGED versions
    BY <1>1 DEF vars
  <2> QED
    BY <2>2, <2>5, <2>6, CurrentTyped DEF VersionRead, ReaderInv
<1>6. ASSUME ArtifactDependencies
      PROVE  reader' \in ReaderState /\ reader'.pc # "dependencies"
  <2> DEFINE read == versions[reader.key][reader.version]
             matched == read.observed = keyVersion[read.change_key]
             found == reader.freshOnes \cup (IF matched THEN {reader.key} ELSE {})
  <2>1. reader' = [reader EXCEPT !.pc = AfterTimeline, !.fresh = matched, !.freshOnes = found]
    BY <1>6 DEF ArtifactDependencies
  <2>2. found \subseteq Key
    BY <1>1, <1>6 DEF ArtifactDependencies, ReaderInv, VersionRead, ReaderState
  <2>3. AfterTimeline \in {"timelines", "answered"} /\ matched \in BOOLEAN
    BY DEF AfterTimeline
  <2> HIDE DEF matched, found
  <2> QED
    BY <1>1, <2>1, <2>2, <2>3 DEF ReaderState
<1>7. ASSUME ChangesList \/ ChangesDocuments \/ ChangesRetractions \/ ChangesAssertions
             \/ ChangesJobs
      PROVE  reader' \in ReaderState /\ reader'.pc # "dependencies"
  <2>1. ASSUME ChangesList PROVE reader' \in ReaderState /\ reader'.pc # "dependencies"
    <3>1. PICK query \in {"changes", "operations"} :
            reader' = [Started(query, "documents") EXCEPT !.latest = Len(changeSets)]
      BY <2>1 DEF ChangesList
    <3> QED
      BY <1>3, <3>1, NoRequestTyped DEF Started, ReaderState, Query
  <2>2. ASSUME ChangesDocuments PROVE reader' \in ReaderState /\ reader'.pc # "dependencies"
    BY <1>1, <2>2 DEF ChangesDocuments, ReaderState
  <2>3. ASSUME ChangesRetractions PROVE reader' \in ReaderState /\ reader'.pc # "dependencies"
    <3> DEFINE stamps == [d \in Doc |-> docs[d].retracted]
    <3>1. stamps \in [Doc -> Stamp]
      BY <1>3
    <3>2. reader' = [reader EXCEPT !.pc = "assertions", !.retracted = stamps]
      BY <2>3 DEF ChangesRetractions
    <3> HIDE DEF stamps
    <3> QED
      BY <1>1, <3>1, <3>2 DEF ReaderState
  <2>4. ASSUME ChangesAssertions PROVE reader' \in ReaderState /\ reader'.pc # "dependencies"
    <3> DEFINE stamps == [d \in Doc |-> docs[d].added]
    <3>1. stamps \in [Doc -> Stamp]
      BY <1>3
    <3>2. reader' = [reader EXCEPT !.pc = "change_jobs", !.added = stamps]
      BY <2>4 DEF ChangesAssertions
    <3> HIDE DEF stamps
    <3> QED
      BY <1>1, <3>1, <3>2 DEF ReaderState
  <2>5. ASSUME ChangesJobs PROVE reader' \in ReaderState /\ reader'.pc # "dependencies"
    <3> DEFINE found == {r \in ChangesListed : Accounted(r)}
               gone == \E j \in JobId : /\ j[2] = reader.latest
                                        /\ jobs[j].status = "FAILED_PERMANENT"
    <3>1. found \subseteq Nat /\ gone \in BOOLEAN
      BY <1>1 DEF ChangesListed, ReaderState
    <3>2. reader' = [reader EXCEPT !.pc = "incremental", !.accounted = found, !.failed = gone]
      BY <2>5 DEF ChangesJobs
    <3> HIDE DEF found, gone
    <3> QED
      BY <1>1, <3>1, <3>2 DEF ReaderState
  <2> QED
    BY <1>7, <2>1, <2>2, <2>3, <2>4, <2>5
<1>8. ASSUME ProofIncremental PROVE reader' \in ReaderState /\ reader'.pc # "dependencies"
  <2> DEFINE state == {<<k, CurrentVersion(k).payload>> :
                          k \in {a \in artifacts : current[a] # 0}}
             query == IF reader.pc = "incremental" THEN reader.query ELSE "proof"
             gone == query # "proof" /\ reader.failed
  <2>1. state \subseteq Entry
    BY <1>3, CurrentTyped DEF Entry, ReaderInv
  <2>2. query \in Query \cup {"none"} /\ gone \in BOOLEAN
    BY <1>1 DEF ReaderState, Query
  <2>3. reader' = [Started(query, "artifacts") EXCEPT !.failed = gone, !.incremental = state]
    BY <1>8 DEF ProofIncremental
  <2> HIDE DEF state, query, gone
  <2> QED
    BY <2>1, <2>2, <2>3, NoRequestTyped DEF Started, ReaderState
<1>9. ASSUME ProofArtifacts \/ ProofCase
      PROVE  reader' \in ReaderState /\ reader'.pc # "dependencies"
  <2>1. \/ reader' = [reader EXCEPT !.pc = "rebuild", !.todo = artifacts]
        \/ reader' = [reader EXCEPT !.pc = "queue", !.label = revision]
    BY <1>9 DEF ProofArtifacts, ProofCase
  <2>2. /\ [reader EXCEPT !.pc = "rebuild", !.todo = artifacts] \in ReaderState
        /\ [reader EXCEPT !.pc = "rebuild", !.todo = artifacts].pc = "rebuild"
    BY <1>1, <1>3 DEF ReaderState
  <2>3. /\ [reader EXCEPT !.pc = "queue", !.label = revision] \in ReaderState
        /\ [reader EXCEPT !.pc = "queue", !.label = revision].pc = "queue"
    BY <1>1, <1>3 DEF ReaderState
  <2> QED
    BY <2>1, <2>2, <2>3
<1>10. ASSUME ProofRebuild PROVE reader' \in ReaderState /\ reader'.pc # "dependencies"
  <2>1. PICK k \in reader.todo :
          reader' = [reader EXCEPT !.todo = reader.todo \ {k},
                                   !.rebuilt = reader.rebuilt \cup {<<k, ActiveFor(k)>>}]
    BY <1>10 DEF ProofRebuild
  <2>2. reader.pc = "rebuild" /\ reader.todo \subseteq Key /\ reader.rebuilt \subseteq Entry
    BY <1>1, <1>10 DEF ProofRebuild, ReaderState
  <2>3. <<k, ActiveFor(k)>> \in Entry
    BY <2>2 DEF Entry, ActiveFor
  <2> QED
    BY <1>1, <2>1, <2>2, <2>3 DEF ReaderState
<1>11. ASSUME ProofQueue PROVE reader' \in ReaderState /\ reader'.pc # "dependencies"
  <2> DEFINE next == IF reader.query = "operations" THEN "case" ELSE "answered"
  <2>1. Verified \in BOOLEAN /\ next \in {"case", "answered"}
    BY DEF Verified
  <2>2. reader' = [reader EXCEPT !.pc = next, !.verified = Verified,
                                 !.incremental = {}, !.rebuilt = {}]
    BY <1>11 DEF ProofQueue
  <2> HIDE DEF next
  <2> QED
    BY <1>1, <2>1, <2>2 DEF ReaderState
<1>12. ASSUME WorkspaceCase \/ WorkspaceDocuments \/ WorkspaceKeys
       PROVE  reader' \in ReaderState /\ reader'.pc # "dependencies"
  <2>1. ASSUME WorkspaceCase PROVE reader' \in ReaderState /\ reader'.pc # "dependencies"
    BY <1>3, <2>1, NoRequestTyped DEF WorkspaceCase, Started, ReaderState, Query
  <2>2. ASSUME WorkspaceDocuments PROVE reader' \in ReaderState /\ reader'.pc # "dependencies"
    <3> DEFINE stamps == [d \in Doc |-> docs[d].retracted]
               listed == {d \in Doc : docs[d].added # 0}
    <3>1. stamps \in [Doc -> Stamp] /\ listed \subseteq Doc
      BY <1>3
    <3>2. reader' = [reader EXCEPT !.pc = "timeline_list", !.documents = listed,
                                   !.retracted = stamps]
      BY <2>2 DEF WorkspaceDocuments
    <3> HIDE DEF stamps, listed
    <3> QED
      BY <1>1, <3>1, <3>2 DEF ReaderState
  <2>3. ASSUME WorkspaceKeys PROVE reader' \in ReaderState /\ reader'.pc # "dependencies"
    <3> DEFINE next == IF artifacts = {} THEN "answered" ELSE "timelines"
    <3>1. next \in {"answered", "timelines"}
      OBVIOUS
    <3>2. reader' = [reader EXCEPT !.pc = next, !.listed = artifacts, !.todo = artifacts]
      BY <2>3 DEF WorkspaceKeys
    <3> HIDE DEF next
    <3> QED
      BY <1>1, <1>3, <3>1, <3>2 DEF ReaderState
  <2> QED
    BY <1>12, <2>1, <2>2, <2>3
<1>13. ASSUME NEW k \in Key, WorkspaceVersion(k) PROVE reader' \in ReaderState /\ VersionRead'
  <2> DEFINE rest == reader.todo \ {k}
             next == IF current[k] # 0 THEN "dependencies"
                     ELSE IF rest # {} THEN "timelines" ELSE "answered"
             row == [reader.shown EXCEPT ![k] = current[k]]
  <2>1. current[k] \in Nat
    BY <1>1 DEF Shape, TypeOK
  <2>2. /\ next \in {"dependencies", "timelines", "answered"}
        /\ rest \subseteq Key /\ row \in [Key -> Nat]
        /\ next = "dependencies" => current[k] # 0
    BY <1>1, <2>1 DEF ReaderState
  <2>3. reader' = [reader EXCEPT !.pc = next, !.key = k, !.version = current[k],
                                 !.fresh = FALSE, !.shown = row, !.todo = rest]
    BY <1>13 DEF WorkspaceVersion
  <2> HIDE DEF rest, next, row
  <2>4. reader' \in ReaderState
    BY <1>1, <2>1, <2>2, <2>3 DEF ReaderState
  <2>5. /\ reader'.key = k /\ reader'.version = current[k] /\ reader'.fresh = FALSE
        /\ (reader'.pc = "dependencies" => current[k] # 0)
    BY <1>1, <2>2, <2>3 DEF ReaderState
  <2>6. UNCHANGED versions
    BY <1>1 DEF vars
  <2> QED
    BY <2>4, <2>5, <2>6, CurrentTyped DEF VersionRead, ReaderInv
<1>14. ASSUME OperationsCase \/ OperationsJobs \/ OperationsKeys \/ OperationsArtifacts
       PROVE  reader' \in ReaderState /\ reader'.pc # "dependencies"
  <2>1. ASSUME OperationsCase PROVE reader' \in ReaderState /\ reader'.pc # "dependencies"
    BY <1>1, <1>3, <2>1 DEF OperationsCase, ReaderState
  <2>2. ASSUME OperationsJobs PROVE reader' \in ReaderState /\ reader'.pc # "dependencies"
    <3>0. PICK page \in SUBSET JobId :
            reader' = [reader EXCEPT !.pc = "keys", !.loaded = {j[1] : j \in page},
                                     !.shown = current]
      BY <2>2 DEF OperationsJobs
    <3> DEFINE rows == {j[1] : j \in page}
    <3>1. rows \subseteq Key /\ current \in [Key -> Nat]
      BY <1>1 DEF JobId, Shape, TypeOK
    <3>2. reader' = [reader EXCEPT !.pc = "keys", !.loaded = rows, !.shown = current]
      BY <3>0
    <3> HIDE DEF rows
    <3> QED
      BY <1>1, <3>1, <3>2 DEF ReaderState
  <2>3. ASSUME OperationsKeys PROVE reader' \in ReaderState /\ reader'.pc # "dependencies"
    <3>1. keyVersion \in [Key -> Stamp]
      BY <1>1 DEF Shape, TypeOK
    <3> QED
      BY <1>1, <2>3, <3>1 DEF OperationsKeys, ReaderState
  <2>4. ASSUME OperationsArtifacts PROVE reader' \in ReaderState /\ reader'.pc # "dependencies"
    <3> DEFINE rows == [k \in Key |-> RowOf(k)]
    <3>1. rows \in [Key -> Nat]
      BY <1>1 DEF RowOf, ReaderState, Shape, TypeOK
    <3>2. Operational \in BOOLEAN
      BY DEF Operational
    <3>3. reader' = [reader EXCEPT !.pc = "answered", !.listed = artifacts, !.shown = rows,
                                   !.operational = Operational]
      BY <2>4 DEF OperationsArtifacts
    <3> HIDE DEF rows
    <3> QED
      BY <1>1, <1>3, <3>1, <3>2, <3>3 DEF ReaderState
  <2> QED
    BY <1>14, <2>1, <2>2, <2>3, <2>4
<1>15. reader' \in ReaderState /\ VersionRead'
  BY <1>4, <1>5, <1>6, <1>7, <1>8, <1>9, <1>10, <1>11, <1>12, <1>13, <1>14
     DEF ReaderStep, VersionRead
<1> QED
  BY <1>2, <1>15 DEF ReaderInv

LEMMA ReaderInitInv == Init /\ reader = NoRequest => ReaderInv
  BY InitQueue, NoRequestTyped DEF ReaderInv, VersionRead, NoRequest

LEMMA ReaderNextInv == ASSUME ReaderInv, [ReaderNext]_readerVars PROVE ReaderInv'
<1>1. ASSUME [Next]_vars, UNCHANGED reader PROVE ReaderInv'
  <2>1. QueueInv'
    BY <1>1, NextQueue DEF ReaderInv
  <2>2. ASSUME reader.pc = "dependencies"
        PROVE  reader.version \in 1..Len(versions'[reader.key])
    <3>1. reader.key \in Key /\ reader.version \in 1..Len(versions[reader.key])
      BY <2>2 DEF ReaderInv, VersionRead
    <3> QED
      BY <1>1, <3>1, VersionsGrow DEF ReaderInv
  <2> QED
    BY <1>1, <2>1, <2>2 DEF ReaderInv, VersionRead
<1>2. CASE ReaderStep
  BY <1>2, ReaderStepInv
<1> QED
  BY <1>1, <1>2 DEF ReaderNext, readerVars

\* The engine's steps are the same with requests beside it.
LEMMA EngineBeside == [ReaderNext]_readerVars => [Next]_vars
  BY ReadersOnlyRead DEF ReaderNext, readerVars

\* A step that answers "fresh" answers with a version that is exact just then.
LEMMA FreshStep ==
    ASSUME ReaderInv, ExactInv, [ReaderNext]_readerVars, reader.pc = "dependencies",
           reader'.fresh
    PROVE  versions[reader.key][reader.version].payload = ActiveFor(reader.key)
<1> DEFINE k == reader.key
           read == versions[k][reader.version]
<1>1. k \in Key /\ reader.version \in 1..Len(versions[k]) /\ reader.fresh = FALSE
  BY DEF ReaderInv, VersionRead
<1>2. VersionSound(k, reader.version) /\ read.payload = ActiveForAt(k, read.job)
  BY <1>1 DEF ReaderInv, QueueInv, TablesSound, VersionsSound, ExactInv, PayloadsExact
<1>3. ArtifactDependencies
  BY <1>1 DEF ReaderNext, readerVars, ReaderStep, Asks, FindingsCase, FindingsEvents,
     ArtifactVersion, ChangesList, ChangesDocuments, ChangesRetractions, ChangesAssertions,
     ChangesJobs, ProofIncremental, ProofArtifacts, ProofRebuild, ProofCase, ProofQueue,
     WorkspaceCase, WorkspaceDocuments, WorkspaceKeys, WorkspaceVersion,
     OperationsCase, OperationsJobs, OperationsKeys, OperationsArtifacts
<1>4. read.observed = keyVersion[read.change_key]
  BY <1>3 DEF ArtifactDependencies, ReaderInv, ReaderState
<1>5. read.payload = ActiveForAt(k, keyVersion[k])
  BY <1>2, <1>4 DEF VersionSound
<1> QED
  BY <1>1, <1>5, ActiveAtKey DEF ExactInv

\* A request and what it has read have their types, with any engine beside it; in
\* particular a version that a request has read is there when it reads the version's
\* dependencies, whatever is published in between (service.py, current_artifact).
THEOREM ReaderTypeCorrect == ReaderSpec => []ReaderTypeOK
<1>1. ReaderInv /\ [ReaderNext]_readerVars => ReaderInv'
  BY ReaderNextInv
<1>2. ReaderInv => ReaderTypeOK
  BY DEF ReaderInv, ReaderTypeOK, QueueInv, Shape
<1> QED
  BY <1>1, <1>2, ReaderInitInv, PTL DEF ReaderSpec

LEMMA ExactBeside == SessionsInUTC => (ReaderSpec => [](ReaderInv /\ ExactInv))
<1> SUFFICES ASSUME SessionsInUTC PROVE ReaderSpec => [](ReaderInv /\ ExactInv)
  OBVIOUS
<1>1. ExactInv /\ [ReaderNext]_readerVars => ExactInv'
  BY NextExact, EngineBeside
<1>2. ReaderInv /\ [ReaderNext]_readerVars => ReaderInv'
  BY ReaderNextInv
<1> QED
  BY <1>1, <1>2, ReaderInitInv, InitExact, PTL DEF ReaderSpec

\* With sessions in UTC, whatever is committed between the two statements of
\* current_artifact, an answer "fresh" is exact when it is given.
THEOREM FreshAnswersAreExact == SessionsInUTC => (ReaderSpec => FreshAnswerIsExact)
<1> SUFFICES ASSUME SessionsInUTC PROVE ReaderSpec => FreshAnswerIsExact
  OBVIOUS
<1>1. ReaderInv /\ ExactInv /\ [ReaderNext]_readerVars
        => [(reader.pc = "dependencies" /\ reader'.fresh) =>
               versions[reader.key][reader.version].payload = ActiveFor(reader.key)]_readerVars
  BY FreshStep
<1> QED
  BY <1>1, ExactBeside, PTL DEF ReaderSpec, FreshAnswerIsExact

-----------------------------------------------------------------------------
(* Where the statements of a request lead                                      *)

\* The requests that begin here begin with these statements.
LEMMA FirstStatements ==
    /\ FindingsCase => reader'.query = "findings" /\ reader'.pc = "events"
    /\ WorkspaceCase => /\ reader'.query = "workspace" /\ reader'.pc = "source_list"
                        /\ reader'.freshOnes = {}
    /\ ChangesList => reader'.query \in {"changes", "operations"} /\ reader'.pc = "documents"
    /\ ProofIncremental =>
         /\ reader'.query = (IF reader.pc = "incremental" THEN reader.query ELSE "proof")
         /\ reader'.pc = "artifacts"
    /\ \A k \in Key : ArtifactVersion(k) =>
         reader'.query = "artifact" /\ reader'.pc \in {"answered", "dependencies"}
<1>1. FindingsCase => reader'.query = "findings" /\ reader'.pc = "events"
  BY DEF FindingsCase, Started, NoRequest
<1>2. WorkspaceCase => /\ reader'.query = "workspace" /\ reader'.pc = "source_list"
                       /\ reader'.freshOnes = {}
  BY DEF WorkspaceCase, Started, NoRequest
<1>3. ChangesList => reader'.query \in {"changes", "operations"} /\ reader'.pc = "documents"
  BY DEF ChangesList, Started, NoRequest
<1>4. ASSUME ProofIncremental
      PROVE  /\ reader'.query = (IF reader.pc = "incremental" THEN reader.query ELSE "proof")
             /\ reader'.pc = "artifacts"
  BY <1>4 DEF ProofIncremental, Started, NoRequest
<1>5. ASSUME NEW k \in Key, ArtifactVersion(k)
      PROVE  reader'.query = "artifact" /\ reader'.pc \in {"answered", "dependencies"}
  <2> DEFINE next == IF current[k] = 0 THEN "answered" ELSE "dependencies"
  <2>1. reader' = [Started("artifact", next) EXCEPT !.key = k, !.version = current[k]]
    BY <1>5 DEF ArtifactVersion
  <2>2. next \in {"answered", "dependencies"}
    OBVIOUS
  <2> HIDE DEF next
  <2> QED
    BY <2>1, <2>2 DEF Started, NoRequest
<1> QED
  BY <1>1, <1>2, <1>3, <1>4, <1>5

\* The statements that follow stay with their request.
LEMMA NextStatements ==
    ASSUME reader \in ReaderState
    PROVE  /\ FindingsEvents => reader'.query = reader.query /\ reader'.pc = "answered"
           /\ ArtifactDependencies =>
                reader'.query = reader.query /\ reader'.pc \in {"timelines", "answered"}
           /\ ChangesDocuments => reader'.query = reader.query /\ reader'.pc = "retractions"
           /\ ChangesRetractions => reader'.query = reader.query /\ reader'.pc = "assertions"
           /\ ChangesAssertions => reader'.query = reader.query /\ reader'.pc = "change_jobs"
           /\ ChangesJobs => reader'.query = reader.query /\ reader'.pc = "incremental"
           /\ ProofArtifacts => reader'.query = reader.query /\ reader'.pc = "rebuild"
           /\ ProofRebuild => reader'.query = reader.query /\ reader'.pc = "rebuild"
           /\ ProofCase => reader'.query = reader.query /\ reader'.pc = "queue"
           /\ ProofQueue =>
                /\ reader'.query = reader.query
                /\ reader'.pc = IF reader.query = "operations" THEN "case" ELSE "answered"
           /\ WorkspaceDocuments => reader'.query = reader.query /\ reader'.pc = "timeline_list"
           /\ WorkspaceKeys =>
                reader'.query = reader.query /\ reader'.pc \in {"answered", "timelines"}
           /\ \A k \in Key : WorkspaceVersion(k) =>
                /\ reader'.query = reader.query
                /\ reader'.pc \in {"dependencies", "timelines", "answered"}
           /\ OperationsCase => reader'.query = reader.query /\ reader'.pc = "jobs"
           /\ OperationsJobs => reader'.query = reader.query /\ reader'.pc = "keys"
           /\ OperationsKeys => reader'.query = reader.query /\ reader'.pc = "artifact_rows"
           /\ OperationsArtifacts => reader'.query = reader.query /\ reader'.pc = "answered"
<1>1. FindingsEvents => reader'.query = reader.query /\ reader'.pc = "answered"
  BY DEF FindingsEvents, ReaderState
<1>2. ArtifactDependencies =>
        reader'.query = reader.query /\ reader'.pc \in {"timelines", "answered"}
  BY DEF ArtifactDependencies, AfterTimeline, ReaderState
<1>3. /\ ChangesDocuments => reader'.query = reader.query /\ reader'.pc = "retractions"
      /\ ChangesRetractions => reader'.query = reader.query /\ reader'.pc = "assertions"
      /\ ChangesAssertions => reader'.query = reader.query /\ reader'.pc = "change_jobs"
      /\ ChangesJobs => reader'.query = reader.query /\ reader'.pc = "incremental"
  BY DEF ChangesDocuments, ChangesRetractions, ChangesAssertions, ChangesJobs, ReaderState
<1>4. /\ ProofArtifacts => reader'.query = reader.query /\ reader'.pc = "rebuild"
      /\ ProofRebuild => reader'.query = reader.query /\ reader'.pc = "rebuild"
      /\ ProofCase => reader'.query = reader.query /\ reader'.pc = "queue"
      /\ ProofQueue =>
           /\ reader'.query = reader.query
           /\ reader'.pc = IF reader.query = "operations" THEN "case" ELSE "answered"
  BY DEF ProofArtifacts, ProofRebuild, ProofCase, ProofQueue, ReaderState
<1>5. /\ WorkspaceDocuments => reader'.query = reader.query /\ reader'.pc = "timeline_list"
      /\ WorkspaceKeys =>
           reader'.query = reader.query /\ reader'.pc \in {"answered", "timelines"}
  BY DEF WorkspaceDocuments, WorkspaceKeys, ReaderState
<1>6. ASSUME NEW k \in Key, WorkspaceVersion(k)
      PROVE  /\ reader'.query = reader.query
             /\ reader'.pc \in {"dependencies", "timelines", "answered"}
  <2> DEFINE rest == reader.todo \ {k}
             next == IF current[k] # 0 THEN "dependencies"
                     ELSE IF rest # {} THEN "timelines" ELSE "answered"
             row == [reader.shown EXCEPT ![k] = current[k]]
  <2>1. reader' = [reader EXCEPT !.pc = next, !.key = k, !.version = current[k],
                                 !.fresh = FALSE, !.shown = row, !.todo = rest]
    BY <1>6 DEF WorkspaceVersion
  <2>2. next \in {"dependencies", "timelines", "answered"}
    OBVIOUS
  <2> HIDE DEF next, row, rest
  <2> QED
    BY <2>1, <2>2 DEF ReaderState
<1>7. /\ OperationsCase => reader'.query = reader.query /\ reader'.pc = "jobs"
      /\ OperationsJobs => reader'.query = reader.query /\ reader'.pc = "keys"
      /\ OperationsKeys => reader'.query = reader.query /\ reader'.pc = "artifact_rows"
      /\ OperationsArtifacts => reader'.query = reader.query /\ reader'.pc = "answered"
  BY DEF OperationsCase, OperationsJobs, OperationsKeys, OperationsArtifacts, ReaderState
<1> QED
  BY <1>1, <1>2, <1>3, <1>4, <1>5, <1>7, <1>6

-----------------------------------------------------------------------------
(* The change brief (case_changes).  It holds whatever the time zone of the    *)
(* sessions is: a stamp that was read is the one in its row, or the row has    *)
(* been stamped since, and later than every change that is listed.             *)

ListsChanges == {"documents", "retractions", "assertions", "change_jobs", "incremental"}

StampRead(read, now) == read = now \/ (read = 0 /\ now > reader.latest)

\* The jobs that a change set speaks of are there.
JobsQueued ==
    \A r \in 1..Len(changeSets) : \A k \in changeSets[r].queued :
        <<k, r>> \in JobId /\ Exists(<<k, r>>)

HistoryInv ==
    /\ reader.pc \in ListsChanges => reader.latest <= Len(changeSets)
    /\ reader.pc \in ListsChanges \ {"documents"} =>
         \A r \in 1..reader.latest : changeSets[r].document \in reader.documents
    /\ reader.pc \in {"assertions", "change_jobs", "incremental"} =>
         \A d \in Doc : StampRead(reader.retracted[d], docs[d].retracted)
    /\ reader.pc \in {"change_jobs", "incremental"} =>
         \A d \in Doc : StampRead(reader.added[d], docs[d].added)
    /\ reader.pc = "incremental" => reader.accounted = ChangesListed

BriefInv ==
    /\ ReaderInv
    /\ LedgerTellsOneStory
    /\ \A d \in Doc : RetractedWasAdded(d)
    /\ JobsQueued
    /\ HistoryInv

\* The ledger is only appended to.
LEMMA ChangesGrow ==
    ASSUME QueueInv, Len(changeSets) = revision, [Next]_vars
    PROVE  /\ Len(changeSets) \in Nat /\ Len(changeSets') \in Nat
           /\ Len(changeSets) <= Len(changeSets')
           /\ \A r \in 1..Len(changeSets) : changeSets'[r] = changeSets[r]
<1>1. changeSets \in Seq(ChangeSet)
  BY DEF QueueInv, Shape, TypeOK
<1>2. CASE UNCHANGED changeSets
  BY <1>1, <1>2
<1>3. ASSUME NEW c \in Client, Commit(c)
      PROVE  /\ Len(changeSets) \in Nat /\ Len(changeSets') = Len(changeSets) + 1
             /\ \A r \in 1..Len(changeSets) : changeSets'[r] = changeSets[r]
  BY <1>3, CommitRecords
<1> QED
  BY <1>2, <1>3, OnlyCommitWrites

LEMMA QueuedStay ==
    ASSUME QueueInv, JobsQueued, Len(changeSets) = revision, [Next]_vars PROVE JobsQueued'
<1>1. CASE UNCHANGED changeSets /\ \A j \in JobId : Exists(j)' <=> Exists(j)
  BY <1>1 DEF JobsQueued
<1>2. ASSUME NEW c \in Client, Commit(c) PROVE JobsQueued'
  <2> DEFINE t == tx[c]
  <2>1. /\ t.rev = Len(changeSets) + 1 /\ Len(changeSets') = t.rev /\ Len(changeSets) \in Nat
        /\ changeSets'[t.rev].queued = t.queued
        /\ \A r \in 1..Len(changeSets) : changeSets'[r] = changeSets[r]
    BY <1>2, CommitRecords
  <2>2. /\ t.queued = t.locked /\ t.locked \subseteq Key /\ t.rev \in Revision
        /\ \A j \in JobId : Exists(j) => jobs'[j] = jobs[j]
        /\ \A j \in JobId : ~Exists(j) =>
             jobs'[j] = IF j[1] \in t.locked /\ j[2] = t.rev THEN NewJob ELSE jobs[j]
    BY <1>2, CommitWrites
  <2>3. ASSUME NEW r \in 1..Len(changeSets'), NEW k \in changeSets'[r].queued
        PROVE  <<k, r>> \in JobId /\ Exists(<<k, r>>)'
    <3>1. CASE r \in 1..Len(changeSets)
      <4>1. <<k, r>> \in JobId /\ Exists(<<k, r>>)
        BY <2>1, <2>3, <3>1 DEF JobsQueued
      <4> QED
        BY <2>2, <4>1 DEF Exists
    <3>2. CASE r = t.rev
      <4>1. k \in t.locked /\ <<k, r>> \in JobId
        BY <2>1, <2>2, <2>3, <3>2 DEF JobId
      <4>2. PICK j \in JobId : j = <<k, r>>
        BY <4>1
      <4>3. Exists(j) => jobs'[j].status # "NO_ROW"
        BY <2>2 DEF Exists
      <4>4. ~Exists(j) => jobs'[j].status # "NO_ROW"
        BY <2>2, <3>2, <4>1, <4>2 DEF NewJob, NoRow
      <4> QED
        BY <4>2, <4>3, <4>4 DEF Exists
    <3> QED
      BY <2>1, <3>1, <3>2
  <2> QED
    BY <2>3 DEF JobsQueued
<1> QED
  BY <1>1, <1>2, OnlyCommitWrites, JobsAppearAtCommits

\* So case_changes finds as many jobs as a change has requested.
LEMMA AllAccounted ==
    ASSUME QueueInv, JobsQueued, NEW r \in 1..Len(changeSets) PROVE Accounted(r)
<1> DEFINE queued == changeSets[r].queued
           found == {j \in JobId : j[2] = r /\ Exists(j) /\ j[1] \in queued}
           jobOf == [k \in queued |-> <<k, r>>]
<1>1. queued \subseteq Key
  <2>1. changeSets[r] \in ChangeSet
    BY DEF QueueInv, Shape, TypeOK
  <2> QED
    BY <2>1 DEF ChangeSet
<1>2. IsFiniteSet(queued)
  BY <1>1, KeyAssumption, FS_Subset
<1>3. \A k \in queued : jobOf[k] \in found
  BY DEF JobsQueued
<1>4. \A j \in found : j[1] \in queued /\ jobOf[j[1]] = j
  BY DEF JobId
<1>5. \A k, l \in queued : jobOf[k] = jobOf[l] => k = l
  OBVIOUS
<1> HIDE DEF found, queued
<1>6. jobOf \in [queued -> found]
  BY <1>3
<1> HIDE DEF jobOf
<1>7. jobOf \in Bijection(queued, found)
  BY <1>4, <1>5, <1>6 DEF Bijection, Injection, Surjection, IsInjective
<1>8. Cardinality(found) = Cardinality(queued)
  BY <1>2, <1>7, FS_Bijection DEF ExistsBijection
<1> QED
  BY <1>8 DEF Accounted, found, queued

\* What the ledger says of documents, in terms of their stamps.
LEMMA EvidenceByStamps ==
    ASSUME QueueInv, LedgerTellsOneStory, NEW d \in Doc,
           NEW r \in Nat, r <= Len(changeSets)
    PROVE  /\ docs[d].added \in Nat /\ docs[d].retracted \in Nat
           /\ d \in EvidenceAt(r) <=>
                /\ docs[d].added \in 1..r
                /\ docs[d].retracted \notin 1..r
<1>1. /\ docs[d].added \in Nat /\ docs[d].retracted \in Nat
      /\ revision \in Nat /\ MaxRevision \in Nat /\ revision <= MaxRevision
      /\ Len(changeSets) = revision /\ changeSets \in Seq(ChangeSet)
  BY StampsAreNumbers, BoundAssumption
     DEF QueueInv, Shape, TypeOK, Stamp, LedgerTellsOneStory
<1>2. \A s \in 1..r : s \in Revision /\ s \in DOMAIN changeSets
  BY <1>1 DEF Revision
<1>3. \A s \in 1..r :
        /\ docs[d].added = s <=> /\ changeSets[s].operation = "ADD_DOCUMENT"
                                 /\ changeSets[s].document = d
        /\ docs[d].retracted = s <=> /\ changeSets[s].operation = "RETRACT_DOCUMENT"
                                     /\ changeSets[s].document = d
  BY <1>2 DEF LedgerTellsOneStory
<1> QED
  BY <1>1, <1>3 DEF EvidenceAt

\* The document of a change has been recorded.
LEMMA DocumentsRecorded ==
    ASSUME QueueInv, LedgerTellsOneStory, \A d \in Doc : RetractedWasAdded(d),
           NEW r \in 1..Len(changeSets)
    PROVE  changeSets[r].document \in {d \in Doc : docs[d].added # 0}
<1>1. /\ revision \in Nat /\ MaxRevision \in Nat /\ revision <= MaxRevision
      /\ Len(changeSets) = revision /\ changeSets \in Seq(ChangeSet)
  BY BoundAssumption DEF QueueInv, Shape, TypeOK, Stamp, LedgerTellsOneStory
<1>2. changeSets[r] \in ChangeSet /\ r \in DOMAIN changeSets /\ r \in Revision
  BY <1>1 DEF Revision
<1>3. PICK d \in Doc : d = changeSets[r].document
  BY <1>2 DEF ChangeSet
<1>4. docs[d].added = r \/ docs[d].retracted = r
  BY <1>2, <1>3 DEF LedgerTellsOneStory, ChangeSet
<1>5. docs[d].added # 0
  BY <1>4 DEF RetractedWasAdded
<1> QED
  BY <1>3, <1>5

\* The engine leaves what was read as it is, and what it stamps later is later than
\* every change that is listed.
LEMMA HistoryBeside ==
    ASSUME BriefInv, [Next]_vars, UNCHANGED reader PROVE HistoryInv'
<1>1. QueueInv /\ reader \in ReaderState /\ HistoryInv /\ Len(changeSets) = revision
  BY DEF BriefInv, ReaderInv, LedgerTellsOneStory
<1>2. /\ Len(changeSets) \in Nat /\ Len(changeSets') \in Nat
      /\ Len(changeSets) <= Len(changeSets') /\ reader.latest \in Nat
      /\ \A r \in 1..Len(changeSets) : changeSets'[r] = changeSets[r]
  BY <1>1, ChangesGrow DEF ReaderState
<1>3. ASSUME NEW d \in Doc, reader.latest <= Len(changeSets)
      PROVE  /\ StampRead(reader.retracted[d], docs[d].retracted)
                   => StampRead(reader.retracted[d], docs[d].retracted)'
             /\ StampRead(reader.added[d], docs[d].added)
                   => StampRead(reader.added[d], docs[d].added)'
  <2>1. /\ \/ docs'[d].added = docs[d].added
           \/ docs[d].added = 0 /\ docs'[d].added = revision + 1
        /\ \/ docs'[d].retracted = docs[d].retracted
           \/ docs[d].retracted = 0 /\ docs'[d].retracted = revision + 1
    BY <1>1, StampsStay
  <2> QED
    BY <1>1, <1>2, <1>3, <2>1 DEF StampRead
<1>4. reader.pc \in ListsChanges => reader.latest <= Len(changeSets)
  BY <1>1 DEF HistoryInv
<1>5. (reader.pc \in ListsChanges => reader.latest <= Len(changeSets))'
  BY <1>2, <1>4 DEF ListsChanges
<1>6. (reader.pc \in ListsChanges \ {"documents"} =>
          \A r \in 1..reader.latest : changeSets[r].document \in reader.documents)'
  BY <1>1, <1>2, <1>4 DEF HistoryInv, ListsChanges
<1>7. /\ (reader.pc \in {"assertions", "change_jobs", "incremental"} =>
             \A d \in Doc : StampRead(reader.retracted[d], docs[d].retracted))'
      /\ (reader.pc \in {"change_jobs", "incremental"} =>
             \A d \in Doc : StampRead(reader.added[d], docs[d].added))'
  BY <1>1, <1>3, <1>4 DEF HistoryInv, ListsChanges
<1>8. (reader.pc = "incremental" => reader.accounted = ChangesListed)'
  BY <1>1 DEF HistoryInv, ChangesListed
<1> QED
  BY <1>5, <1>6, <1>7, <1>8 DEF HistoryInv

\* Only the statements of a brief lead to the statements of a brief.
LEMMA BriefStatements ==
    ASSUME reader \in ReaderState, ReaderStep, reader'.pc \in ListsChanges
    PROVE  ChangesList \/ ChangesDocuments \/ ChangesRetractions \/ ChangesAssertions
              \/ ChangesJobs
  BY FirstStatements, NextStatements DEF ReaderStep, ListsChanges

LEMMA HistoryStep == ASSUME BriefInv, ReaderStep PROVE HistoryInv'
<1>1. /\ QueueInv /\ reader \in ReaderState /\ HistoryInv /\ LedgerTellsOneStory /\ JobsQueued
      /\ \A d \in Doc : RetractedWasAdded(d)
      /\ UNCHANGED vars /\ UNCHANGED <<docs, changeSets, revision>>
  BY ReadersOnlyRead DEF BriefInv, ReaderInv, vars
<1>2. /\ Len(changeSets) \in Nat /\ changeSets \in Seq(ChangeSet) /\ Len(changeSets) = revision
      /\ reader.latest \in Nat
  BY <1>1 DEF QueueInv, Shape, TypeOK, LedgerTellsOneStory, ReaderState
<1>3. CASE reader'.pc \notin ListsChanges
  BY <1>3 DEF HistoryInv, ListsChanges
<1>4. CASE ChangesList
  <2>1. reader'.pc = "documents" /\ reader'.latest = Len(changeSets)
    BY <1>4, NoRequestTyped DEF ChangesList, Started, ReaderState
  <2> QED
    BY <1>1, <1>2, <2>1 DEF HistoryInv, ListsChanges
<1>5. CASE ChangesDocuments
  <2>1. /\ reader.pc = "documents" /\ reader'.pc = "retractions"
        /\ reader'.latest = reader.latest
        /\ reader'.documents = {d \in Doc : docs[d].added # 0}
    BY <1>1, <1>5 DEF ChangesDocuments, ReaderState
  <2>2. reader.latest <= Len(changeSets)
    BY <1>1, <2>1 DEF HistoryInv, ListsChanges
  <2>3. ASSUME NEW r \in 1..reader.latest PROVE changeSets[r].document \in reader'.documents
    <3>1. r \in 1..Len(changeSets) /\ r # 0
      BY <1>2, <2>2
    <3> QED
      BY <1>1, <2>1, <3>1, DocumentsRecorded
  <2> QED
    BY <1>1, <2>1, <2>2, <2>3 DEF HistoryInv, ListsChanges
<1>6. CASE ChangesRetractions
  <2>1. /\ reader.pc = "retractions" /\ reader'.pc = "assertions"
        /\ reader'.latest = reader.latest /\ reader'.documents = reader.documents
        /\ reader'.retracted = [d \in Doc |-> docs[d].retracted]
    BY <1>1, <1>6 DEF ChangesRetractions, ReaderState
  <2> QED
    BY <1>1, <2>1 DEF HistoryInv, ListsChanges, StampRead
<1>7. CASE ChangesAssertions
  <2>1. /\ reader.pc = "assertions" /\ reader'.pc = "change_jobs"
        /\ reader'.latest = reader.latest /\ reader'.documents = reader.documents
        /\ reader'.retracted = reader.retracted
        /\ reader'.added = [d \in Doc |-> docs[d].added]
    BY <1>1, <1>7 DEF ChangesAssertions, ReaderState
  <2> QED
    BY <1>1, <2>1 DEF HistoryInv, ListsChanges, StampRead
<1>8. CASE ChangesJobs
  <2> DEFINE found == {r \in ChangesListed : Accounted(r)}
  <2>1. PICK gone : reader' = [reader EXCEPT !.pc = "incremental", !.accounted = found,
                                             !.failed = gone]
    BY <1>8 DEF ChangesJobs
  <2> HIDE DEF found
  <2>2. /\ reader.pc = "change_jobs" /\ reader'.pc = "incremental"
        /\ reader'.latest = reader.latest /\ reader'.documents = reader.documents
        /\ reader'.retracted = reader.retracted /\ reader'.added = reader.added
        /\ reader'.query = reader.query /\ reader'.accounted = found
    BY <1>1, <1>8, <2>1 DEF ChangesJobs, ReaderState
  <2>3. ChangesListed \subseteq 1..Len(changeSets)
    <3>1. reader.latest <= Len(changeSets)
      BY <1>1, <2>2 DEF HistoryInv, ListsChanges
    <3> QED
      BY <1>2, <3>1 DEF ChangesListed
  <2>4. found = ChangesListed
    BY <1>1, <2>3, AllAccounted DEF found
  <2>5. ChangesListed' = ChangesListed
    BY <2>2 DEF ChangesListed
  <2> QED
    BY <1>1, <2>2, <2>4, <2>5 DEF HistoryInv, ListsChanges, StampRead
<1> QED
  BY <1>1, <1>3, <1>4, <1>5, <1>6, <1>7, <1>8, BriefStatements

LEMMA BriefInit == Init /\ reader = NoRequest => BriefInv
<1> SUFFICES ASSUME Init, reader = NoRequest PROVE BriefInv
  OBVIOUS
<1>1. reader.pc = "answered"
  BY DEF NoRequest
<1>2. HistoryInv
  BY <1>1 DEF HistoryInv, ListsChanges
<1>3. JobsQueued /\ \A d \in Doc : RetractedWasAdded(d)
  BY DEF Init, JobsQueued, RetractedWasAdded
<1> QED
  BY <1>2, <1>3, ReaderInitInv, LedgerInit DEF BriefInv

LEMMA BriefNext == ASSUME BriefInv, [ReaderNext]_readerVars PROVE BriefInv'
<1>1. QueueInv /\ Len(changeSets) = revision /\ [Next]_vars
  BY EngineBeside DEF BriefInv, ReaderInv, LedgerTellsOneStory
<1>2. ReaderInv'
  BY ReaderNextInv DEF BriefInv
<1>3. LedgerTellsOneStory'
  BY <1>1, LedgerNext DEF BriefInv
<1>4. \A d \in Doc : RetractedWasAdded(d)'
  BY <1>1, RetractionsAreOfRecords DEF BriefInv
<1>5. JobsQueued'
  BY <1>1, QueuedStay DEF BriefInv
<1>6. HistoryInv'
  <2>1. CASE [Next]_vars /\ UNCHANGED reader
    BY <2>1, HistoryBeside
  <2>2. CASE ReaderStep
    BY <2>2, HistoryStep
  <2> QED
    BY <2>1, <2>2 DEF ReaderNext, readerVars
<1> QED
  BY <1>2, <1>3, <1>4, <1>5, <1>6 DEF BriefInv

\* The change brief shows the evidence before and after each change as the ledger tells
\* it, although it computes both from stamps that it reads after it has listed the
\* changes, while others commit (case_changes, findings_at).
THEOREM BriefsAreExact == ReaderSpec => []HistoryIsExact
<1>1. BriefInv /\ [ReaderNext]_readerVars => BriefInv'
  BY BriefNext
<1>2. ASSUME BriefInv PROVE HistoryIsExact
  <2> SUFFICES ASSUME reader.pc \in {"change_jobs", "incremental"},
                      NEW r \in 0..reader.latest, NEW d \in Doc
               PROVE  d \in FindingsAt(r) <=> d \in EvidenceAt(r)
    BY DEF HistoryIsExact, FindingsAt, EvidenceAt
  <2>1. /\ QueueInv /\ reader \in ReaderState /\ reader.latest <= Len(changeSets)
        /\ LedgerTellsOneStory
        /\ StampRead(reader.retracted[d], docs[d].retracted)
        /\ StampRead(reader.added[d], docs[d].added)
    BY <1>2 DEF BriefInv, ReaderInv, HistoryInv, ListsChanges
  <2>2. r \in Nat /\ reader.latest \in Nat /\ r <= reader.latest /\ Len(changeSets) \in Nat
    BY <2>1 DEF ReaderState, QueueInv, Shape, TypeOK
  <2>3. /\ docs[d].added \in Nat /\ docs[d].retracted \in Nat
        /\ d \in EvidenceAt(r) <=> docs[d].added \in 1..r /\ docs[d].retracted \notin 1..r
    BY <2>1, <2>2, EvidenceByStamps
  <2>4. reader.added[d] \in 1..r <=> docs[d].added \in 1..r
    BY <2>1, <2>2, <2>3 DEF StampRead
  <2>5. reader.retracted[d] \in 1..r <=> docs[d].retracted \in 1..r
    BY <2>1, <2>2, <2>3 DEF StampRead
  <2>6. /\ reader.added[d] \in Nat /\ reader.retracted[d] \in Nat
    BY <2>1, <2>3 DEF StampRead
  <2>7. d \in FindingsAt(r) <=> reader.added[d] \in 1..r /\ reader.retracted[d] \notin 1..r
    BY <2>2, <2>6 DEF FindingsAt
  <2> QED
    BY <2>3, <2>4, <2>5, <2>7
<1> QED
  BY <1>1, <1>2, BriefInit, PTL DEF ReaderSpec

\* A change that is listed has its document and all of its jobs in what the same request
\* reads later (case_changes: otherwise a KeyError, or a change that never settles).
THEOREM BriefsAreComplete == ReaderSpec => []ChangesAreComplete
<1>1. BriefInv /\ [ReaderNext]_readerVars => BriefInv'
  BY BriefNext
<1>2. ASSUME BriefInv PROVE ChangesAreComplete
  <2>1. reader \in ReaderState /\ HistoryInv
    BY <1>2 DEF BriefInv, ReaderInv
  <2>2. ChangesListed \subseteq 1..reader.latest
    BY <2>1 DEF ChangesListed, ReaderState
  <2> QED
    BY <2>1, <2>2 DEF HistoryInv, ListsChanges, ChangesAreComplete
<1> QED
  BY <1>1, <1>2, BriefInit, PTL DEF ReaderSpec

-----------------------------------------------------------------------------
(* The proof (case_proof)                                                      *)

\* No verdict is given before the last statement.
VerdictPending == reader.pc \in {"artifacts", "rebuild", "queue"} => reader.verified = FALSE

LEMMA VerdictNext ==
    ASSUME reader \in ReaderState, VerdictPending, [ReaderNext]_readerVars PROVE VerdictPending'
<1>1. CASE UNCHANGED reader
  BY <1>1 DEF VerdictPending
<1>2. CASE ProofIncremental
  BY <1>2 DEF ProofIncremental, Started, NoRequest, VerdictPending
<1>3. CASE ProofArtifacts \/ ProofRebuild \/ ProofCase
  <2>1. reader.pc \in {"artifacts", "rebuild"}
    BY <1>3 DEF ProofArtifacts, ProofRebuild, ProofCase
  <2>2. reader'.verified = reader.verified
    BY <1>3 DEF ProofArtifacts, ProofRebuild, ProofCase, ReaderState
  <2> QED
    BY <2>1, <2>2 DEF VerdictPending
<1>4. ASSUME reader'.pc \in {"artifacts", "rebuild", "queue"}, ReaderStep
      PROVE  ProofIncremental \/ ProofArtifacts \/ ProofRebuild \/ ProofCase
  BY <1>4, FirstStatements, NextStatements DEF ReaderStep
<1> QED
  BY <1>1, <1>2, <1>3, <1>4 DEF ReaderNext, readerVars, VerdictPending

\* The last statement answers "verified" of a queue that is settled just then.
LEMMA VerdictStep ==
    ASSUME reader \in ReaderState, VerdictPending, ExactInv, [ReaderNext]_readerVars,
           reader.pc = "queue", reader'.verified
    PROVE  EqualsRebuild
<1>1. ~reader.verified
  BY DEF VerdictPending
<1>2. ProofQueue
  BY <1>1 DEF ReaderNext, readerVars, ReaderStep, Asks, FindingsCase, FindingsEvents,
     ArtifactVersion, ArtifactDependencies, ChangesList, ChangesDocuments, ChangesRetractions,
     ChangesAssertions, ChangesJobs, ProofIncremental, ProofArtifacts, ProofRebuild, ProofCase,
     WorkspaceCase, WorkspaceDocuments, WorkspaceKeys, WorkspaceVersion,
     OperationsCase, OperationsJobs, OperationsKeys, OperationsArtifacts
<1>3. PICK next : reader' = [reader EXCEPT !.pc = next, !.verified = Verified,
                                           !.incremental = {}, !.rebuilt = {}]
  BY <1>2 DEF ProofQueue
<1>4. Verified
  BY <1>3 DEF ReaderState
<1>5. \A j \in JobId : Exists(j) => /\ jobs[j].status \in TerminalStatuses
                                    /\ jobs[j].status # "FAILED_PERMANENT"
  BY <1>4 DEF Verified, StatusesPresent
<1>6. Drained /\ \A j \in JobId : jobs[j].status # "FAILED_PERMANENT"
  BY <1>5 DEF Drained, Unfinished, Exists, TerminalStatuses
<1>7. \A k \in artifacts : ~GivenUp(k)
  <2>1. ASSUME NEW k \in artifacts, keyVersion[k] # 0 PROVE <<k, keyVersion[k]>> \in JobId
    <3>1. k \in Key /\ keyVersion[k] \in Stamp
      BY DEF ExactInv, QueueInv, Shape, TypeOK
    <3> QED
      BY <2>1, <3>1, BoundAssumption DEF JobId, Stamp, Revision
  <2> QED
    BY <1>6, <2>1 DEF GivenUp
<1> QED
  BY <1>6, <1>7, ExactIsDrained DEF DrainedUnlessFailed, EqualsRebuild

\* With sessions in UTC, "verified" is true of the moment at which the last statement
\* of the proof is run, although the states that it compares were read before and one
\* timeline after the other: the queue that it finds settled settles it.
THEOREM VerificationIsSound == SessionsInUTC => (ReaderSpec => VerifiedIsSound)
<1> SUFFICES ASSUME SessionsInUTC PROVE ReaderSpec => VerifiedIsSound
  OBVIOUS
<1>1. reader = NoRequest => VerdictPending
  BY DEF VerdictPending, NoRequest
<1>2. ReaderInv /\ VerdictPending /\ [ReaderNext]_readerVars => VerdictPending'
  BY VerdictNext DEF ReaderInv
<1>3. ReaderInv /\ ExactInv /\ VerdictPending /\ [ReaderNext]_readerVars
        => [(reader.pc = "queue" /\ reader'.verified) => EqualsRebuild]_readerVars
  BY VerdictStep DEF ReaderInv
<1> QED
  BY <1>1, <1>2, <1>3, ExactBeside, PTL DEF ReaderSpec, VerifiedIsSound

-----------------------------------------------------------------------------
(* The workspace (case_workspace)                                              *)

\* What a timeline that was called fresh shows of a document: nothing of a source that
\* was listed as withdrawn, and every listed one of its own that is still active.
Shows(k, d) ==
    LET cited == d \in versions[k][reader.shown[k]].payload
    IN  /\ reader.retracted[d] # 0 => ~cited
        /\ (d \in reader.documents /\ k \in KeysOf[d] /\ Active(d)) => cited

\* Sources that were listed are there, and those listed as withdrawn are withdrawn.
SourceListed(d) ==
    /\ d \in reader.documents => docs[d].added # 0
    /\ reader.retracted[d] # 0 => docs[d].retracted # 0

CalledFresh(k) ==
    /\ k \notin reader.todo
    /\ reader.shown[k] \in 1..Len(versions[k])
    /\ \A d \in Doc : Shows(k, d)

WorkspaceInv ==
    reader.query = "workspace" =>
        /\ reader.pc \in {"source_list", "timeline_list", "timelines", "dependencies",
                          "answered"}
        /\ reader.pc # "source_list" => \A d \in Doc : SourceListed(d)
        /\ reader.pc \in {"source_list", "timeline_list"} => reader.freshOnes = {}
        /\ \A k \in reader.freshOnes : CalledFresh(k)
        /\ reader.pc = "dependencies" =>
             /\ reader.key \notin reader.todo
             /\ reader.shown[reader.key] = reader.version

LEMMA WorkspaceBeside ==
    ASSUME ReaderInv, WorkspaceInv, [Next]_vars, UNCHANGED reader PROVE WorkspaceInv'
<1>1. QueueInv /\ reader \in ReaderState
  BY DEF ReaderInv
<1>2. ASSUME NEW d \in Doc
      PROVE  /\ docs[d].added # 0 => docs'[d].added = docs[d].added
             /\ docs[d].retracted # 0 => docs'[d].retracted = docs[d].retracted
  BY <1>1, StampsStay
<1>3. ASSUME NEW d \in Doc, SourceListed(d) PROVE SourceListed(d)'
  BY <1>2, <1>3 DEF SourceListed
<1>4. ASSUME NEW k \in Key, CalledFresh(k), \A d \in Doc : SourceListed(d)
      PROVE  CalledFresh(k)'
  <2>1. /\ versions'[k][reader.shown[k]] = versions[k][reader.shown[k]]
        /\ reader.shown[k] \in 1..Len(versions'[k])
    BY <1>1, <1>4, VersionsGrow DEF CalledFresh
  <2>2. ASSUME NEW d \in Doc PROVE Shows(k, d)'
    <3>1. docs[d].added \in Nat /\ docs[d].retracted \in Nat
      BY <1>1, StampsAreNumbers
    <3>2. d \in reader.documents /\ Active(d)' => Active(d)
      BY <1>2, <1>4, <3>1 DEF Active, SourceListed
    <3> QED
      BY <1>4, <2>1, <3>2 DEF CalledFresh, Shows
  <2> QED
    BY <1>4, <2>1, <2>2 DEF CalledFresh
<1>5. reader.freshOnes \subseteq Key
  BY <1>1 DEF ReaderState
<1> QED
  BY <1>3, <1>4, <1>5 DEF WorkspaceInv

\* Only the statements of a workspace follow one another in a workspace.
LEMMA WorkspaceStatements ==
    ASSUME reader \in ReaderState, WorkspaceInv, ReaderStep, reader'.query = "workspace"
    PROVE  \/ WorkspaceCase
           \/ /\ reader.query = "workspace"
              /\ WorkspaceDocuments \/ WorkspaceKeys \/ ArtifactDependencies
                   \/ \E k \in Key : WorkspaceVersion(k)
<1>1. ~(\E k \in Key : ArtifactVersion(k)) /\ ~FindingsCase /\ ~ChangesList
  BY FirstStatements
<1>2. ASSUME reader.query = "workspace"
      PROVE  /\ ~FindingsEvents /\ ~ChangesDocuments /\ ~ChangesRetractions
             /\ ~ChangesAssertions /\ ~ChangesJobs /\ ~ProofArtifacts /\ ~ProofRebuild
             /\ ~ProofCase /\ ~ProofQueue /\ ~OperationsCase /\ ~OperationsJobs
             /\ ~OperationsKeys /\ ~OperationsArtifacts /\ reader.pc # "incremental"
  BY <1>2 DEF WorkspaceInv, FindingsEvents, ChangesDocuments, ChangesRetractions,
     ChangesAssertions, ChangesJobs, ProofArtifacts, ProofRebuild, ProofCase, ProofQueue,
     OperationsCase, OperationsJobs, OperationsKeys, OperationsArtifacts
<1>3. ~ProofIncremental
  BY <1>2, FirstStatements
<1>4. ~WorkspaceCase => reader.query = "workspace"
  BY <1>1, <1>3, NextStatements DEF ReaderStep
<1> QED
  BY <1>1, <1>2, <1>3, <1>4 DEF ReaderStep

LEMMA WorkspaceStep ==
    ASSUME ReaderInv, ExactInv, WorkspaceInv, ReaderStep PROVE WorkspaceInv'
<1>1. /\ QueueInv /\ reader \in ReaderState /\ UNCHANGED <<docs, versions>>
      /\ \A d \in Doc : docs[d].added \in Nat /\ docs[d].retracted \in Nat
  BY ReadersOnlyRead, StampsAreNumbers DEF ReaderInv, vars
<1>2. CASE reader'.query # "workspace"
  BY <1>2 DEF WorkspaceInv
<1>3. CASE WorkspaceCase
  BY <1>3, FirstStatements DEF WorkspaceInv
<1>4. CASE reader.query = "workspace" /\ WorkspaceDocuments
  <2>1. /\ reader.pc = "source_list" /\ reader'.pc = "timeline_list"
        /\ reader'.documents = {d \in Doc : docs[d].added # 0}
        /\ reader'.retracted = [d \in Doc |-> docs[d].retracted]
        /\ reader'.freshOnes = reader.freshOnes
    BY <1>1, <1>4 DEF WorkspaceDocuments, ReaderState
  <2>2. reader.freshOnes = {}
    BY <1>4, <2>1 DEF WorkspaceInv
  <2>3. \A d \in Doc : SourceListed(d)'
    BY <1>1, <2>1 DEF SourceListed
  <2> QED
    BY <2>1, <2>2, <2>3 DEF WorkspaceInv
<1>5. CASE reader.query = "workspace" /\ WorkspaceKeys
  <2>1. /\ reader.pc = "timeline_list" /\ reader'.pc \in {"answered", "timelines"}
        /\ reader'.documents = reader.documents /\ reader'.retracted = reader.retracted
        /\ reader'.freshOnes = reader.freshOnes
    BY <1>1, <1>5, NextStatements DEF WorkspaceKeys, ReaderState
  <2>2. reader.freshOnes = {}
    BY <1>5, <2>1 DEF WorkspaceInv
  <2>3. \A d \in Doc : SourceListed(d)'
    BY <1>1, <1>5, <2>1 DEF SourceListed, WorkspaceInv
  <2> QED
    BY <2>1, <2>2, <2>3 DEF WorkspaceInv
<1>6. ASSUME NEW k \in Key, reader.query = "workspace", WorkspaceVersion(k)
      PROVE  WorkspaceInv'
  <2> DEFINE rest == reader.todo \ {k}
             next == IF current[k] # 0 THEN "dependencies"
                     ELSE IF rest # {} THEN "timelines" ELSE "answered"
             row == [reader.shown EXCEPT ![k] = current[k]]
  <2>1. /\ next \in {"dependencies", "timelines", "answered"}
        /\ rest = reader.todo \ {k} /\ row = [reader.shown EXCEPT ![k] = current[k]]
        /\ reader' = [reader EXCEPT !.pc = next, !.key = k, !.version = current[k],
                                    !.fresh = FALSE, !.shown = row, !.todo = rest]
    BY <1>6 DEF WorkspaceVersion
  <2> HIDE DEF rest, next, row
  <2>2. /\ reader.pc = "timelines" /\ k \in reader.todo
        /\ reader'.pc = next /\ reader'.key = k /\ reader'.version = current[k]
        /\ reader'.shown = row /\ reader'.todo = rest
        /\ reader'.documents = reader.documents /\ reader'.retracted = reader.retracted
        /\ reader'.freshOnes = reader.freshOnes
    BY <1>1, <1>6, <2>1 DEF WorkspaceVersion, ReaderState
  <2>3. reader.shown \in [Key -> Nat]
    BY <1>1 DEF ReaderState
  <2>4. \A d \in Doc : SourceListed(d)'
    BY <1>1, <1>6, <2>2 DEF SourceListed, WorkspaceInv
  <2>5. ASSUME NEW l \in reader.freshOnes PROVE CalledFresh(l)'
    <3>1. CalledFresh(l) /\ l \in Key
      BY <1>1, <1>6 DEF WorkspaceInv, ReaderState
    <3>2. l # k /\ row[l] = reader.shown[l] /\ l \notin rest
      BY <2>1, <2>2, <2>3, <3>1 DEF CalledFresh
    <3>3. \A d \in Doc : Shows(l, d)'
      BY <1>1, <2>2, <3>1, <3>2 DEF CalledFresh, Shows, Active
    <3> QED
      BY <1>1, <2>2, <3>1, <3>2, <3>3 DEF CalledFresh
  <2>6. k \notin rest /\ row[k] = current[k]
    BY <2>1, <2>3
  <2> QED
    BY <2>1, <2>2, <2>4, <2>5, <2>6 DEF WorkspaceInv
<1>7. CASE reader.query = "workspace" /\ ArtifactDependencies
  <2>0. PICK k \in Key : k = reader.key
    BY <1>7 DEF ArtifactDependencies, ReaderInv, VersionRead
  <2> DEFINE read == versions[k][reader.version]
  <2>1. PICK next, matched, found :
          /\ matched = (read.observed = keyVersion[read.change_key])
          /\ found = reader.freshOnes \cup (IF matched THEN {k} ELSE {})
          /\ reader' = [reader EXCEPT !.pc = next, !.fresh = matched, !.freshOnes = found]
    BY <1>7, <2>0 DEF ArtifactDependencies
  <2>2. /\ reader.pc = "dependencies" /\ reader'.pc \in {"timelines", "answered"}
        /\ reader'.documents = reader.documents /\ reader'.retracted = reader.retracted
        /\ reader'.freshOnes = found /\ reader'.shown = reader.shown
        /\ reader'.todo = reader.todo /\ reader'.fresh = matched
    BY <1>1, <1>7, <2>1, NextStatements DEF ArtifactDependencies, ReaderState
  <2>3. /\ k \in Key /\ reader.version \in 1..Len(versions[k])
        /\ k \notin reader.todo /\ reader.shown[k] = reader.version
    BY <1>7, <2>0, <2>2 DEF ReaderInv, VersionRead, WorkspaceInv
  <2>4. \A d \in Doc : SourceListed(d) /\ SourceListed(d)'
    BY <1>1, <1>7, <2>2 DEF SourceListed, WorkspaceInv
  <2>5. ASSUME NEW l \in reader.freshOnes PROVE CalledFresh(l)'
    BY <1>1, <1>7, <2>2, <2>5 DEF WorkspaceInv, CalledFresh, Shows, Active
  <2>6. ASSUME matched PROVE CalledFresh(k)'
    <3>1. read.payload = ActiveFor(k)
      BY <1>7, <2>0, <2>2, <2>6, FreshStep DEF ReaderNext
    <3>2. ASSUME NEW d \in Doc PROVE Shows(k, d)'
      <4>1. reader'.retracted[d] # 0 => d \notin ActiveFor(k)
        BY <2>2, <2>4 DEF SourceListed, ActiveFor, Active
      <4>2. k \in KeysOf[d] /\ Active(d) => d \in ActiveFor(k)
        BY DEF ActiveFor
      <4>3. Active(d)' <=> Active(d)
        BY <1>1 DEF Active
      <4> QED
        BY <1>1, <2>2, <2>3, <3>1, <4>1, <4>2, <4>3 DEF Shows
    <3> QED
      BY <1>1, <2>2, <2>3, <3>2 DEF CalledFresh
  <2>7. \A l \in found : CalledFresh(l)'
    BY <2>1, <2>5, <2>6
  <2> QED
    BY <2>2, <2>4, <2>7 DEF WorkspaceInv
<1> QED
  BY <1>1, <1>2, <1>3, <1>4, <1>5, <1>6, <1>7, WorkspaceStatements

\* With sessions in UTC, the workspace holds together although its sources are read
\* first and each of its timelines later, in a session of its own: no fresh timeline
\* cites a source that is listed as withdrawn or misses a listed one that is active.
THEOREM WorkspacesHoldTogether == SessionsInUTC => (ReaderSpec => []WorkspaceHoldsTogether)
<1> SUFFICES ASSUME SessionsInUTC PROVE ReaderSpec => []WorkspaceHoldsTogether
  OBVIOUS
<1>1. reader = NoRequest => WorkspaceInv
  BY DEF WorkspaceInv, NoRequest
<1>2. ReaderInv /\ ExactInv /\ WorkspaceInv /\ [ReaderNext]_readerVars => WorkspaceInv'
  BY WorkspaceBeside, WorkspaceStep DEF ReaderNext, readerVars
<1>3. WorkspaceInv => WorkspaceHoldsTogether
  BY DEF WorkspaceInv, WorkspaceHoldsTogether, Answered, CalledFresh, Shows
<1> QED
  BY <1>1, <1>2, <1>3, ExactBeside, PTL DEF ReaderSpec

-----------------------------------------------------------------------------
(* The operations view (case_operations)                                       *)

\* The keys that were read are those of revision r: each stands at the last mutation of
\* its timeline by then, and a timeline without any has none.
KeysOfRevision(r) ==
    \A k \in Key : /\ reader.keys[k] # 0 <=> k \in TouchedBy(r)
                   /\ ActiveForAt(k, reader.keys[k]) = ActiveForAt(k, r)
                   /\ reader.keys[k] <= r

OperationsPcs == ListsChanges \cup {"artifacts", "rebuild", "queue", "case", "jobs", "keys",
                                    "artifact_rows", "answered"}

OperationsInv ==
    reader.query = "operations" =>
        /\ reader.pc \in OperationsPcs
        /\ reader.pc \in {"jobs", "keys", "artifact_rows", "answered"} =>
             reader.label <= revision
        /\ reader.pc \in {"keys", "artifact_rows"} =>
             \A k \in Key : reader.shown[k] <= Len(versions[k])
        /\ reader.pc = "artifact_rows" =>
             \E r \in reader.label..revision : KeysOfRevision(r)
        /\ reader.pc = "answered" =>
             \E r \in reader.label..revision :
                 /\ KeysOfRevision(r)
                 /\ \A k \in Key : reader.shown[k] <= Len(versions[k])
                 /\ reader.operational =>
                      /\ reader.listed = TouchedBy(r)
                      /\ \A k \in reader.listed : DependenciesMatch(k, reader.shown[k])

\* The timelines touched by r mutations stay those, and are among those there are.
LEMMA TouchedStays ==
    ASSUME QueueInv, InvalidationInv, NEW r \in Nat, r <= revision
    PROVE  /\ TouchedBy(r) \subseteq artifacts
           /\ [Next]_vars => TouchedBy(r)' = TouchedBy(r)
<1>1. Len(changeSets) = revision /\ revision \in Nat /\ artifacts = TouchedBy(revision)
  BY BoundAssumption DEF InvalidationInv, QueueInv, Shape, TypeOK, Stamp
<1>2. \A s \in 1..r : s \in 1..revision
  BY <1>1
<1>3. TouchedBy(r) \subseteq artifacts
  BY <1>1, <1>2 DEF TouchedBy
<1>4. ASSUME [Next]_vars PROVE TouchedBy(r)' = TouchedBy(r)
  <2>1. \A s \in 1..r : changeSets'[s] = changeSets[s]
    BY <1>1, <1>2, <1>4, ChangesGrow
  <2> QED
    BY <2>1 DEF TouchedBy
<1> QED
  BY <1>3, <1>4

\* The keys of this moment are those of its revision.
LEMMA KeysReadNow ==
    ASSUME ExactInv, InvalidationInv, NEW k \in Key
    PROVE  /\ keyVersion[k] # 0 <=> k \in TouchedBy(revision)
           /\ ActiveForAt(k, keyVersion[k]) = ActiveForAt(k, revision)
           /\ keyVersion[k] <= revision
<1>1. QueueInv /\ KeySound(k) /\ artifacts = TouchedBy(revision)
  BY DEF ExactInv, QueueInv, TablesSound, InvalidationInv
<1>2. ActiveForAt(k, keyVersion[k]) = ActiveFor(k)
  BY <1>1, ActiveAtKey DEF ExactInv
<1>3. ASSUME NEW d \in Doc, k \in KeysOf[d]
      PROVE  docs[d].added <= revision /\ docs[d].retracted <= revision
  <2>1. /\ docs[d].added \in Nat /\ docs[d].retracted \in Nat /\ keyVersion[k] \in Nat
        /\ revision \in Nat
    BY <1>1, <1>3, StampsAreNumbers, BoundAssumption DEF QueueInv, Shape, TypeOK, Stamp
  <2>2. docs[d].added <= keyVersion[k] /\ docs[d].retracted <= keyVersion[k]
    BY <1>3 DEF ExactInv, StampsBehind
  <2> QED
    BY <1>1, <2>1, <2>2 DEF KeySound
<1>4. ActiveForAt(k, revision) = ActiveFor(k)
  BY <1>3 DEF ActiveForAt, ActiveFor, Active
<1> QED
  BY <1>1, <1>2, <1>4 DEF KeySound

\* A version that matches is one of the timeline's own, of the key that was read.
LEMMA MatchingVersion ==
    ASSUME QueueInv, reader \in ReaderState, NEW k \in Key, NEW n \in Nat,
           n <= Len(versions[k]), DependenciesMatch(k, n)
    PROVE  /\ n \in 1..Len(versions[k]) /\ VersionSound(k, n)
           /\ versions[k][n].job = reader.keys[k] /\ reader.keys[k] # 0
<1>1. n \in 1..Len(versions[k]) /\ versions[k] \in Seq(Version)
  BY DEF DependenciesMatch, QueueInv, Shape, TypeOK
<1>2. VersionSound(k, n) /\ versions[k][n] \in Version
  BY <1>1 DEF QueueInv, TablesSound, VersionsSound
<1>3. versions[k][n].job # 0
  BY <1>2, BoundAssumption DEF Version, Revision
<1> QED
  BY <1>1, <1>2, <1>3 DEF DependenciesMatch, VersionSound

\* What was read of a revision stays true of it, whatever is committed or published.
LEMMA RevisionStays ==
    ASSUME ReaderInv, InvalidationInv, [Next]_vars, UNCHANGED reader,
           NEW r \in Nat, r <= revision, KeysOfRevision(r)
    PROVE  KeysOfRevision(r)'
<1>1. QueueInv /\ reader.keys \in [Key -> Stamp]
  BY DEF ReaderInv, ReaderState
<1>2. revision \in Nat
  BY <1>1, BoundAssumption DEF QueueInv, Shape, TypeOK, Stamp
<1>3. TouchedBy(r)' = TouchedBy(r)
  BY <1>1, TouchedStays
<1>4. ASSUME NEW k \in Key
      PROVE  /\ ActiveForAt(k, reader.keys[k])' = ActiveForAt(k, reader.keys[k])
             /\ ActiveForAt(k, r)' = ActiveForAt(k, r)
  <2>1. PICK n \in Nat : n = reader.keys[k] /\ n <= r
    BY <1>1, BoundAssumption DEF Stamp, KeysOfRevision
  <2>2. ActiveForAt(k, n)' = ActiveForAt(k, n) /\ ActiveForAt(k, r)' = ActiveForAt(k, r)
    BY <1>1, <1>2, <2>1, PastIsKept
  <2> QED
    BY <2>1, <2>2 DEF ActiveForAt
<1> QED
  BY <1>3, <1>4 DEF KeysOfRevision

LEMMA OperationsBeside ==
    ASSUME ReaderInv, InvalidationInv, OperationsInv, [Next]_vars, UNCHANGED reader
    PROVE  OperationsInv'
<1> SUFFICES ASSUME reader.query = "operations" PROVE OperationsInv'
  BY DEF OperationsInv
<1>1. /\ QueueInv /\ reader \in ReaderState /\ reader.label \in Nat
      /\ reader.shown \in [Key -> Nat] /\ reader.listed \subseteq Key
  BY BoundAssumption DEF ReaderInv, ReaderState, Stamp
<1>2. revision \in Nat /\ revision' \in Nat /\ revision <= revision'
  <2>1. revision \in Nat /\ revision' \in Stamp
    BY <1>1, NextQueue, BoundAssumption DEF QueueInv, Shape, TypeOK, Stamp
  <2>2. UNCHANGED revision \/ \E c \in Client : Commit(c)
    BY OnlyCommitWrites
  <2>3. \A c \in Client : Commit(c) => revision' = revision + 1
    BY <1>1, CommitWrites DEF Commit
  <2> QED
    BY <2>1, <2>2, <2>3
<1>3. ASSUME NEW r \in reader.label..revision, KeysOfRevision(r)
      PROVE  /\ r \in reader.label..revision' /\ KeysOfRevision(r)'
             /\ TouchedBy(r)' = TouchedBy(r)
  <2>1. r \in Nat /\ r <= revision /\ r \in reader.label..revision'
    BY <1>1, <1>2, <1>3
  <2> QED
    BY <1>1, <1>3, <2>1, RevisionStays, TouchedStays
<1>4. ASSUME NEW k \in Key, reader.shown[k] <= Len(versions[k])
      PROVE  /\ reader.shown[k] <= Len(versions'[k])
             /\ DependenciesMatch(k, reader.shown[k]) => DependenciesMatch(k, reader.shown[k])'
  <2>1. /\ Len(versions[k]) \in Nat /\ Len(versions'[k]) \in Nat
        /\ Len(versions[k]) <= Len(versions'[k])
        /\ \A n \in 1..Len(versions[k]) : versions'[k][n] = versions[k][n]
    BY <1>1, VersionsGrow
  <2>2. reader.shown[k] # 0 => reader.shown[k] \in 1..Len(versions[k])
    BY <1>1, <1>4, <2>1
  <2> QED
    BY <1>1, <1>4, <2>1, <2>2 DEF DependenciesMatch
<1>5. /\ reader.pc \in OperationsPcs
      /\ reader.pc \in {"jobs", "keys", "artifact_rows", "answered"} => reader.label <= revision'
      /\ reader.pc \in {"keys", "artifact_rows"} =>
           \A k \in Key : reader.shown[k] <= Len(versions'[k])
  BY <1>1, <1>2, <1>4 DEF OperationsInv
<1>6. (reader.pc = "artifact_rows" => \E r \in reader.label..revision : KeysOfRevision(r))'
  BY <1>3 DEF OperationsInv
<1>7. ASSUME reader.pc = "answered"
      PROVE  (\E r \in reader.label..revision :
                 /\ KeysOfRevision(r)
                 /\ \A k \in Key : reader.shown[k] <= Len(versions[k])
                 /\ reader.operational =>
                      /\ reader.listed = TouchedBy(r)
                      /\ \A k \in reader.listed : DependenciesMatch(k, reader.shown[k]))'
  <2>1. PICK r \in reader.label..revision :
          /\ KeysOfRevision(r)
          /\ \A k \in Key : reader.shown[k] <= Len(versions[k])
          /\ reader.operational =>
               /\ reader.listed = TouchedBy(r)
               /\ \A k \in reader.listed : DependenciesMatch(k, reader.shown[k])
    BY <1>7 DEF OperationsInv
  <2>2. /\ r \in reader.label..revision' /\ KeysOfRevision(r)' /\ TouchedBy(r)' = TouchedBy(r)
    BY <1>3, <2>1
  <2>3. (\A k \in Key : reader.shown[k] <= Len(versions[k]))'
    BY <1>4, <2>1
  <2>4. ASSUME reader.operational
        PROVE  (/\ reader.listed = TouchedBy(r)
                /\ \A k \in reader.listed : DependenciesMatch(k, reader.shown[k]))'
    BY <1>1, <1>4, <2>1, <2>2, <2>4
  <2> QED
    BY <2>2, <2>3, <2>4
<1> QED
  BY <1>5, <1>6, <1>7 DEF OperationsInv

\* Which statements an operations view is made of: those of a brief and a proof, then
\* four of its own.
LEMMA OperationsStatements ==
    ASSUME reader \in ReaderState, OperationsInv, ReaderStep, reader'.query = "operations"
    PROVE  \/ reader'.pc \in ListsChanges \cup {"artifacts", "rebuild", "queue", "case"}
           \/ /\ reader.query = "operations"
              /\ OperationsCase \/ OperationsJobs \/ OperationsKeys \/ OperationsArtifacts
<1>1. ~FindingsCase /\ ~WorkspaceCase /\ ~(\E k \in Key : ArtifactVersion(k))
  BY FirstStatements
<1>2. CASE ChangesList \/ ProofIncremental
  BY <1>2, FirstStatements DEF ListsChanges
<1>3. ASSUME reader.query = "operations"
      PROVE  /\ ~FindingsEvents /\ ~ArtifactDependencies /\ ~WorkspaceDocuments
             /\ ~WorkspaceKeys /\ ~(\E k \in Key : WorkspaceVersion(k))
  BY <1>3 DEF OperationsInv, OperationsPcs, ListsChanges, FindingsEvents, ArtifactDependencies,
     WorkspaceDocuments, WorkspaceKeys, WorkspaceVersion
<1>4. ASSUME ~ChangesList, ~ProofIncremental PROVE reader.query = "operations"
  BY <1>1, <1>4, NextStatements DEF ReaderStep
<1>5. CASE ChangesDocuments \/ ChangesRetractions \/ ChangesAssertions \/ ChangesJobs
  BY <1>5, NextStatements DEF ListsChanges
<1>6. ASSUME reader.query = "operations",
             ProofArtifacts \/ ProofRebuild \/ ProofCase \/ ProofQueue
      PROVE  reader'.pc \in {"rebuild", "queue", "case"}
  BY <1>6, NextStatements
<1> QED
  BY <1>1, <1>2, <1>3, <1>4, <1>5, <1>6 DEF ReaderStep

LEMMA OperationsStep ==
    ASSUME ReaderInv, ExactInv, InvalidationInv, OperationsInv, ReaderStep PROVE OperationsInv'
<1>1. /\ QueueInv /\ reader \in ReaderState /\ revision \in Nat /\ reader.label \in Nat
      /\ UNCHANGED vars /\ UNCHANGED <<revision, docs, versions, changeSets>>
  <2>1. QueueInv /\ reader \in ReaderState
    BY DEF ReaderInv
  <2>2. revision \in Nat /\ reader.label \in Nat
    BY <2>1, BoundAssumption DEF QueueInv, Shape, TypeOK, Stamp, ReaderState
  <2>3. UNCHANGED vars
    BY ReadersOnlyRead
  <2>4. UNCHANGED <<revision, docs, versions, changeSets>>
    BY <2>3 DEF vars
  <2> QED
    BY <2>1, <2>2, <2>3, <2>4
<1>2. \A k \in Key : current[k] \in Nat /\ current[k] <= Len(versions[k])
  <2>1. ASSUME NEW k \in Key PROVE current[k] \in Nat /\ current[k] <= Len(versions[k])
    <3>1. current[k] = Len(versions[k]) /\ versions[k] \in Seq(Version)
      BY <1>1 DEF QueueInv, Shape, TypeOK, TablesSound, VersionsSound
    <3> QED
      BY <3>1
  <2> QED
    BY <2>1
<1>3. CASE reader'.query # "operations"
  BY <1>3 DEF OperationsInv
<1>4. CASE reader'.pc \in ListsChanges \cup {"artifacts", "rebuild", "queue", "case"}
  BY <1>4 DEF OperationsInv, OperationsPcs, ListsChanges
<1>5. CASE OperationsCase
  <2>1. reader'.pc = "jobs" /\ reader'.label = revision
    BY <1>1, <1>5 DEF OperationsCase, ReaderState
  <2> QED
    BY <1>1, <2>1 DEF OperationsInv, OperationsPcs
<1>6. CASE reader.query = "operations" /\ OperationsJobs
  <2>1. PICK rows : reader' = [reader EXCEPT !.pc = "keys", !.loaded = rows, !.shown = current]
    BY <1>6 DEF OperationsJobs
  <2>2. reader.pc = "jobs" /\ reader'.pc = "keys" /\ reader'.label = reader.label
        /\ reader'.shown = current
    BY <1>1, <1>6, <2>1 DEF OperationsJobs, ReaderState
  <2>3. reader.label <= revision
    BY <1>6, <2>2 DEF OperationsInv
  <2> QED
    BY <1>1, <1>2, <2>2, <2>3 DEF OperationsInv, OperationsPcs
<1>7. CASE reader.query = "operations" /\ OperationsKeys
  <2>1. /\ reader.pc = "keys" /\ reader'.pc = "artifact_rows" /\ reader'.label = reader.label
        /\ reader'.shown = reader.shown /\ reader'.keys = keyVersion
    BY <1>1, <1>7 DEF OperationsKeys, ReaderState
  <2>2. /\ reader.label <= revision
        /\ \A k \in Key : reader.shown[k] <= Len(versions[k])
    BY <1>7, <2>1 DEF OperationsInv
  <2>3. PICK r \in Nat : r = revision
    BY <1>1
  <2>4. KeysOfRevision(r)'
    BY <1>1, <2>1, <2>3, KeysReadNow DEF KeysOfRevision, TouchedBy, ActiveForAt
  <2>5. r \in reader.label..revision
    BY <1>1, <2>2, <2>3
  <2> QED
    BY <1>1, <2>1, <2>2, <2>4, <2>5 DEF OperationsInv, OperationsPcs
<1>8. CASE reader.query = "operations" /\ OperationsArtifacts
  <2> DEFINE rows == [k \in Key |-> RowOf(k)]
  <2>1. /\ reader.pc = "artifact_rows" /\ reader'.pc = "answered"
        /\ reader'.label = reader.label /\ reader'.shown = rows
        /\ reader'.keys = reader.keys /\ reader'.listed = artifacts
        /\ reader'.operational = Operational
    BY <1>1, <1>8 DEF OperationsArtifacts, ReaderState
  <2>2. reader.label <= revision /\ \A k \in Key : reader.shown[k] <= Len(versions[k])
    BY <1>8, <2>1 DEF OperationsInv
  <2>3. \A k \in Key : rows[k] = RowOf(k) /\ rows[k] \in Nat /\ rows[k] <= Len(versions[k])
    BY <1>1, <1>2, <2>2 DEF RowOf, ReaderState
  <2> HIDE DEF rows
  <2>4. PICK r \in reader.label..revision : KeysOfRevision(r)
    BY <1>8, <2>1 DEF OperationsInv
  <2>5. KeysOfRevision(r)'
    BY <1>1, <2>1, <2>4 DEF KeysOfRevision, TouchedBy, ActiveForAt
  <2>6. ASSUME Operational
        PROVE  /\ artifacts = TouchedBy(r)
               /\ \A k \in artifacts : DependenciesMatch(k, rows[k])
    <3>1. artifacts \subseteq Key
      BY <1>1 DEF QueueInv, Shape, TypeOK
    <3>2. \A k \in artifacts : DependenciesMatch(k, rows[k])
      BY <2>3, <2>6, <3>1 DEF Operational
    <3>3. \A k \in artifacts : reader.keys[k] # 0
      BY <1>1, <2>3, <3>1, <3>2, MatchingVersion
    <3>4. TouchedBy(r) \subseteq artifacts
      BY <1>1, TouchedStays
    <3> QED
      BY <2>4, <3>1, <3>2, <3>3, <3>4 DEF KeysOfRevision
  <2>7. ASSUME Operational
        PROVE  (/\ reader.listed = TouchedBy(r)
                /\ \A k \in reader.listed : DependenciesMatch(k, reader.shown[k]))'
    BY <1>1, <2>1, <2>6, <2>7 DEF TouchedBy, DependenciesMatch
  <2> QED
    BY <1>1, <2>1, <2>2, <2>3, <2>4, <2>5, <2>7 DEF OperationsInv, OperationsPcs
<1> QED
  BY <1>1, <1>3, <1>4, <1>5, <1>6, <1>7, <1>8, OperationsStatements

\* With sessions in UTC, an operations view is of one revision, not before its label:
\* every timeline that it calls fresh shows the evidence of that revision, and it says
\* "operational" only if these are all the timelines of that revision, although it is
\* put together from many statements, some of rows that it does not read again.
THEOREM OperationsAreOfOneRevision == SessionsInUTC => (ReaderSpec => []OperationsOfOneRevision)
<1> SUFFICES ASSUME SessionsInUTC PROVE ReaderSpec => []OperationsOfOneRevision
  OBVIOUS
<1>1. reader = NoRequest => OperationsInv
  BY DEF OperationsInv, NoRequest
<1>2. ReaderInv /\ InvalidationInv /\ [ReaderNext]_readerVars => InvalidationInv'
  BY InvalidationNext, EngineBeside DEF ReaderInv
<1>3. ReaderInv /\ ExactInv /\ InvalidationInv /\ OperationsInv /\ [ReaderNext]_readerVars
        => OperationsInv'
  BY OperationsBeside, OperationsStep DEF ReaderNext, readerVars
<1>4. ASSUME ReaderInv, ExactInv, OperationsInv PROVE OperationsOfOneRevision
  <2> SUFFICES ASSUME reader.query = "operations", reader.pc = "answered"
               PROVE  OperationsOfOneRevision
    BY DEF OperationsOfOneRevision, Answered
  <2>1. PICK r \in reader.label..revision :
          /\ KeysOfRevision(r)
          /\ \A k \in Key : reader.shown[k] <= Len(versions[k])
          /\ reader.operational =>
               /\ reader.listed = TouchedBy(r)
               /\ \A k \in reader.listed : DependenciesMatch(k, reader.shown[k])
    BY <1>4 DEF OperationsInv
  <2>2. /\ QueueInv /\ reader \in ReaderState /\ reader.listed \subseteq Key
        /\ reader.shown \in [Key -> Nat]
    BY <1>4 DEF ReaderInv, ReaderState
  <2>3. ASSUME NEW k \in reader.listed, DependenciesMatch(k, reader.shown[k])
        PROVE  versions[k][reader.shown[k]].payload = ActiveForAt(k, r)
    <3>1. /\ reader.shown[k] \in 1..Len(versions[k])
          /\ versions[k][reader.shown[k]].job = reader.keys[k]
      BY <2>1, <2>2, <2>3, MatchingVersion
    <3>2. versions[k][reader.shown[k]].payload = ActiveForAt(k, reader.keys[k])
      BY <1>4, <2>2, <3>1 DEF ExactInv, PayloadsExact
    <3> QED
      BY <2>1, <2>2, <3>2 DEF KeysOfRevision
  <2>4. TimelinesAt(r) = TouchedBy(r)
    BY DEF TimelinesAt, TouchedBy
  <2> QED
    BY <2>1, <2>3, <2>4 DEF OperationsOfOneRevision
<1> QED
  BY <1>1, <1>2, <1>3, <1>4, ExactBeside, InvalidationInit, PTL DEF ReaderSpec
=============================================================================
