# Evidence Delta: specifications and proofs

Evidence Delta keeps, for a legal case, timelines that are derived from the
assertions of its source documents. A document can be added or retracted; only
the timelines it touches are rebuilt, by workers that take jobs from a queue in
the same PostgreSQL database. The promise is that the incremental result is the
one a full rebuild would give. These TLA+ modules model how the code keeps it.

Paths below are relative to the repository; the Python package is
`src/evidence_delta/`.

## Inventory

| part | state | operations | hard behaviour | what makes it correct |
|---|---|---|---|---|
| tables and locks (`models.py`, `database.py`) | cases, documents, assertions, tombstones, change keys, artifacts, versions + dependencies, jobs, change sets; row locks per session | read-committed statements, `FOR UPDATE`, unique constraints | sessions interleave statement by statement | stamps, versions and change sets are never rewritten |
| mutation service (`service.py` 83-309, 658-835) | the open transaction; the officer assigned to the case | `ingest_document`, `retract_document`, `_touch_keys_and_queue`, `assign_case` | duplicate requests at once; a publication between two statements; death before commit; a case that changes hands while a mutation waits | exactly the touched timelines get a job; none is missed; a duplicate changes nothing; a change set names who was assigned |
| worker (`worker.py`, `runtime.py`) | claimed job, token, what was read | claim, sweep, compute, publish, supersede, record failure | lease expiry, takeover, crash, commit with lost answer, retry budget, stale reads | fenced completion, one publication per job, no stale or mixed version, every job settles |
| timeline derivation and keys (`domain.py`) | none | `build_timeline`, `timeline_key`, `parse_timeline_key` | time zones, ordering | pure; key round trip |
| read models (`service.py` 837-1081, 1205-1747) | none | artifact, workspace, proof, changes, operations, findings, graph, search | several statements without a common snapshot; a session that does not refresh what it has loaded | labels, equality, "verified" and "operational" belong to one moment |
| custody (`service.py` 311-656, `artifact_vault.py`) | acquisition rows, hash chain of attempts, files | record, replace, verify; store | concurrent imports, crash between file and row, rows older than the chain | chain verifies; row and counter agree with it |
| findings, graph (`analysis.py`, `evidence_graph.py`) | none | contradictions, corroborations, single source; nodes and edges | rules that count different things; two levels of one graph; deltas by keys | strong support is independent; the rules agree; summary and detail say the same |
| acquisition, OCR, extraction (`public_artifacts.py`, `ocr.py`, `extraction.py`) | a pool of threads, a cache of readings shared by them and the requests, a deadline for the pages of a scan | fetch, inspect, read, verify, propose spans of an excerpt | threads finish in any order; a host that never stops sending; a process that hangs; a reading that fails half way | every document is answered with its own verdict, on all of its text; what was shown as a quote is found |
| API, access, demo, migrations, page | wiring | endpoints, lifespan | start/stop of the embedded worker | not part of the kernel |

Interactions: requests and workers share nothing but the database. A mutation
locks the case row, then its change keys in sorted order, and inserts jobs in the
same transaction. A worker claims a job in one transaction (`SKIP LOCKED`), reads
in a second that locks nothing, and publishes in a third that locks the job, the
change key and the artifact. `PROJECT.json` lists every component with its
status and every hazard with its line.

## Modules

`EvidenceStore` declares the tables, the sessions (`tx`, `worker`), the locks
they hold and the derived notions (`ActiveFor`, `Fresh`). Tables hold committed
rows only; what a transaction has flushed and not committed is in its session
record. A lock is not a variable: who holds it follows from the sessions'
states. A timeline has one key and one artifact, so artifacts and keys share a
name; its payload is abstracted to the set of documents whose assertions it
shows, because `build_timeline` is a pure function of that set.

`EvidenceService` (EXTENDS `EvidenceStore`): `LockCase` is the locked case row
plus the idempotency check, `TouchKey` the update of one change key (it waits for
a worker that holds the row), `ReadDependents` and `Bootstrap` the two ways to
find the timelines of that key, `Commit` the job and change-set inserts and the
commit, `Rollback` a failed request or a dead process. A request that is answered
as deduplicated writes nothing and is a stuttering step.

`RecomputeWorker` (EXTENDS `EvidenceStore`): `SweepOnly`/`Claim`/`PollEmpty` are
`_claim`; `ReadFirst`, `ReadInputs`, `ReadSecond` are the three reads of
`_compute`; `LockJob`, `LockKey`/`LockKeyTooLate`, `Publish` are `_publish`;
`MarkSuperseded` and `RecordFailure` are the transactions of those names; `Fail`
is any exception (retryable or not), `Crash` a dead process or an error in the
settling transaction itself, `LeaseExpires` the database clock. `RunEnds` lets the
answer to a commit get lost: the run then goes on to `RecordFailure` although its
publication is in the tables. The uuid claim token is the ordinal of the claim.
The claim transaction is one step: rows another session has locked are skipped,
and the rows it locks are invisible to other claims until it commits. The branch
of `Publish` for a version that the job already wrote is in the model and never
taken: the version and the status are committed together.

`DeltaEngine` composes the two and states the properties. `TimelineView` is the
abstract promise: evidence changes in one step and marks timelines pending, a
pending timeline is rebuilt in one step from what is active then, or visibly
given up. `ImplementsView` is the refinement: `Commit` maps to Add/Retract,
`Publish` to Refresh, a recorded failure or a sweep to GiveUp, all else to a
stutter.

`CaseReader` (EXTENDS `DeltaEngine`) adds one request that reads: a step is one
statement, between two of them anything may be committed. `FindingsCase` and
`FindingsEvents` are `case_findings` (and the graph, which reads the same way);
`ArtifactVersion` and `ArtifactDependencies` are `current_artifact`; `Changes*` are the five
statements of `case_changes`, which then calls `case_proof`; `Proof*` are
`case_proof`: the maintained state, the artifacts, the rebuild of each of them, the
case, the job counts. What a request derives without reading again
(`FindingsAt`, `Accounted`, `Verified`) are operators over what it has read. The
abstraction of findings is the evidence they are derived from.

A request for the workspace (`Workspace*`) reads the case, its documents and the list of
its timelines in one session, and then each timeline as `current_artifact` does, in a
session of its own. One for the operations begins with `case_changes` and its
`case_proof` and then reads the case, the jobs, the keys and the artifacts in one more
session (`Operations*`). SQLAlchemy does not overwrite an object that a session holds
with the columns of a later SELECT: `RowOf` is the artifact row as the session knows it,
which may be older than the statement. The jobs come in pages of the newest (`IsNewest`);
how many fit is left open. `AfterTimeline` says where the request goes once
a timeline is read.

`Handoff` (EXTENDS `DeltaEngine`) adds `assign_case` and the officer in the case
row: `LockAssignedCase` is `LockCase` with the officer that comes with the locked
row, `CommitAttributed` writes that officer into the change set as `performed_by`.

`Custody` models where the bytes of a source came from. A session (the public fetch
of a document, or a reviewer's import) stores its bytes in the vault (`LookUp`,
`Replace`, `StorageFails`), and then runs its transaction: `Load` is the SELECT of the
acquisition row, without a lock; `Flush` the UPDATE that the ORM emits before
the next query, which waits for the row and sets only the columns that differ
from what was loaded (`Flushed`); `ReadPrevious` the query for the event to chain to;
`Commit` the insert of the new event. The hash of an event is the sequence of
payloads that it covers, so two hashes are equal exactly when the chains are.
`Inspected` is a constant: what inspection makes of given bytes does not depend on
anything else here. `ReadRows`, `ReadAttempts` and `ChainVerified` are the custody
report. `Init` includes rows that an older schema left (`UpgradedRow`): fetched, without
an event, with the defaults of the migration. `overlapped` is a history variable: the
documents on whose row two transactions were open at once. `CustodyLog` is the abstract
promise: an append-only log per document.

`SourceText` has the pure part of the intake: how text is normalised, when a span counts
as found (`Found`, `Verdict`: `_verify_assertions`) and which spans of an excerpt are
proposed and shown as verbatim (`Sentences`, `Finalized`). A character is a letter, a
mark or a blank, which is what the regular expressions tell apart, and normalizing keeps
its letters and one blank for each gap between them (`Kept`, `Normalized`);
`FewestWords` stands for the 8 words from which a reading is compared with tolerance.
Letters that a reading adds or drops are left out of that comparison. Which sentences
the keyword table of the fallback picks is left open (any).

`Acquisition` (EXTENDS `SourceText`) is what runs around it. `Start` takes the next
document from the pool (`acquire_all`), `Chunk`, `BodyEnds` and `FetchFails` are the
streaming loop of `acquire`, `Inspect` is `_inspect_response`. A scan goes to the OCR
adapter: `OcrLookup` reads its cache, `VisionReads` is the one process of the macOS
adapter, `Renders` and `ReadsPage` the processes of the Tesseract adapter against one
deadline, `OcrFails` each of its exceptions. `answers` is the list that
`acquire_all` returns. `ExtractAssisted`, `ExtractDeterministic`, `Confirm` and `Import`
are the reviewer's way from an excerpt to a document and the import of its source,
which uses the same inspection and the same adapter. A byte string is a model value
with its form, its pages and its length in chunks. What is recorded of a
result afterwards is `Custody`'s subject; its constant `Inspected` is what this
module computes.

`Findings` has the rules of `analysis.py` as operators over a set of events and
`EvidenceGraph` (EXTENDS `Findings`) the graph that `evidence_graph.py` draws of them;
both are pure. `CaseAnalysis` (EXTENDS `EvidenceGraph`) applies them to the active
events of a case that receives (`Ingest`) and retracts (`Retract`) documents, each in
one step: what happens between the statements of a mutation is `EvidenceService`'s
subject and of a reader `CaseReader`'s. Kinds and source types are sequences of the
words between their underscores, so that the prefix and suffix tests of the code are
kept. A finding is the category, the entity-day, the classes and the cited events; its
id is what the digest is taken of (collisions of the truncated digest are left out). A
document says one thing at most once; wording, labels and order are left out.

`MCDeltaEngine`, `MCHandoff`, `MCCaseReader`, `MCCustody`, `MCAcquisition` and
`MCCaseAnalysis` have the instances for TLC. The theorems are in modules of their own:
`DeltaEngineProofs` (types), `QueueProofs` (EXTENDS it; the queue) and
`ExactnessProofs` (EXTENDS that; the evidence and the two refinements) for the engine,
`CaseReaderProofs` on top of these and `HandoffProofs` on top of that, and
`CustodyProofs`, `CaseAnalysisProofs` and `AcquisitionProofs` for the other components.
Operators whose comment starts with "Mutant:" are deliberate bugs; they are
used in no specification, and show that each property can fail.

## Runs

| run | instance | question |
|---|---|---|
| `one_timeline` | 1 key, 2 documents, 1 request at a time, 2 workers, 2 attempts, 3 mutations | what publication, takeover, retry and failure can do to a timeline and its jobs |
| `two_timelines` | `Handoff`; 2 keys, one document on both, 2 requests, 1 worker, 1 attempt, 3 mutations, host clocks that disagree, 1 officer | exact invalidation and its counts, ledger, attribution, lock cycles, refinement of `TimelineView` |
| `progress` | 1 key, 2 workers, 2 attempts, 2 mutations, fairness | every job settles; nothing stays stale in silence |
| `readers` | 2 keys, 1 request, 1 worker, 1 attempt, 2 mutations, one reader | answers made of several statements and sessions: artifact, changes, findings, proof, workspace, operations |
| `custody` | 1 document, new or upgraded, its fetch and 2 imports, 2 contents, vault on | append-only chain, files behind events and rows (the medium may damage or lose them), the report; row and counter where no transactions overlapped |
| `acquisition` | 5 documents (2 never fetched), 2 threads, 3 adapters, 7 byte strings, 2 excerpts, then an import; fairness | every document answered, with its own verdict on all of its text; confirmed quotes found |
| `board` | a verdict, a complaint and a tip, up to 2 of 5 claims each | strong support, gaps, what a change opens and clears; what one finds in the graph from a source |
| `session_timezone` | violation | retraction keys in a database session that is not in UTC |
| `findings_label` | violation | the revision that findings and graph are labelled with |
| `custody_counter` | violation | `attempt_count` under two overlapping imports |
| `contradiction_sources` | violation | a contradiction of one source |
| `custody_row` | violation | the acquisition row under two overlapping imports |

Bounds. `MaxRevision` bounds the mutations: three suffice for add, add, retract
on one timeline, so a job can be overtaken twice and a second overtaking meets a
published version. `MaxAttempts` 2 gives one takeover and one exhausted budget.
Two workers give every takeover; a third would add only another late run. Two
requests give the duplicate race; they serialize on the case row. Symmetry over
requests and workers is used in the safety runs only. `CreatedAt` is a constant
because jobs are ordered by the clock of the host that inserted them; no safety
property depends on it.

One reader is enough because readers write nothing, so they do not affect each
other; two mutations let an add and a retraction fall between any two of its statements.
`MaxAttempts` 1 there makes a failed job a permanently failed one, which is what
`VerifiedIsSound` has to tell from a settled one. A fetch and two imports are the least
with two transactions on an existing row; the two contents are an anti-bot page and
the document, whose verdicts differ. The properties of row and counter leave out the
`overlapped` documents: the code does not prevent overlaps, and `custody_counter` and
`custody_row` show what they do.

Two threads finish in either order and read the same scan at once. Two of the five
documents may be answered with that scan of two pages, one with a blank one and two are
refused before any request. `MaxBytes` 2 and `TimeLimit` 2, in chunks and in units of
time, are the least with a body at the limit and one beyond it, and with a deadline that
runs out between two pages or does not. Imports begin once the pool is done
(`PoolDone`): the importing request is to the adapter one more thread, and two threads
are there. The excerpts and the page they come from differ in blanks and marks only,
which is what the two ways of comparing text are about.

One officer is enough for `Handoff`: the case is assigned or not, and each of both can
turn into the other while a mutation waits.

Three records are the least with a corroboration that gains or loses one and stays;
two claims the least for one record on both sides of a conflict. The claims have
both conflicting classes, two kinds of one class in different tiers, one without
a class, and another entity and day to keep apart.

Deadlock is checked in every passing run of the engine, the readers and custody;
`CaseAnalysis` stops when everything is received and retracted, `Acquisition` when every
document is answered and the import done. An idle worker can
always poll, which hides a cycle of waiting sessions from TLC's own check, so
`NoLockCycle` states that a begun session can go on. `WaitsEnd` (below) proves the
same of the guards, for any number of sessions.

Fairness (`Fairness` in `DeltaEngine`). Weak fairness of a worker's next step:
`WorkerLoop.run` polls for ever and catches every exception. Weak fairness of an
open transaction's next step or rollback: it ends somehow. Weak fairness of lease
expiry: the database clock advances. Strong fairness of `LockKey`: PostgreSQL
queues waiters of a row lock, and mutations that keep rolling back would otherwise
starve it (without it TLC finds exactly that behaviour). Crashes and failures are
not assumed to stop: the attempt budget ends them. What is assumed is that
mutations do (`MaxRevision`): a timeline that is touched for ever may be superseded
for ever.

Fairness in `Acquisition` is weak, of each thread's next step. A read of a response ends
with a chunk, the end of the body or the timeout of the client, a process with
its result or `subprocess.TimeoutExpired`. That a host sends for ever is not excluded:
the limit on the bytes ends it.

## Findings

* `session_timezone`: `retract_document` derives change keys from reloaded
  timestamps (`service.py:183`, `:696`). The driver returns them in the TimeZone
  of the session, which `database.py` does not set; ingestion derived the keys
  from UTC. Where the server is not in UTC, a retraction can advance another day's
  key, and the retracted assertion stays in a timeline reported fresh. The images
  the repository deploys with run in UTC, where the two agree.
* `findings_label`: the revision is read before the events (`service.py:1064-1067`,
  `1077-1081`). All events come from one statement, but it may see a later
  revision than the label, against DESIGN.md's "declares the case
  revision [...] used to build it".
* `custody_counter`: `replace_source_acquisition` increments `attempt_count` from a row
  read without a lock (`service.py:408`). After the fetch, with event 1, two overlapping
  imports both write 2; the chain has three events. The property is about documents that
  have an event for each attempt, which leaves out the rows that a migration counted
  (`AttemptsCounted`). The chain itself is never damaged (`ChainComplete`,
  `ImportsNeverCollide`): its query comes after the flush that waits for the row.
* `custody_row`: the UPDATE of such an import sets the columns that differ from what it
  had read. A failed fetch leaves NOT_RUN; of two imports that read this, the first
  commits the document with VERIFIED, the second an anti-bot page whose NOT_RUN is what
  it had read. The row ends with the fingerprint of that page and VERIFIED, a snapshot of
  no attempt, against DESIGN.md's "snapshot is promoted only after fingerprinting,
  extraction, and source-span verification" (`RowIsOneAttempt`, `service.py:391`).
* `contradiction_sources`: README.md speaks of two active sources; `_contradictions`
  (`analysis.py:178`) looks at classes only. One document that reports both is flagged,
  with "Distinct sources" 1; if the day has no other record it is a single-source
  exposure as well.

Known limits that are no findings. DESIGN.md states its invariant for any drained
queue; a job that is given up (`worker.py:322`) leaves its timeline behind until its key is
touched again. `DrainedUnlessFailed` shows, timeline by timeline, that this is the only
exception, and `NoLostInvalidation` that it is visible. `RowDescribesLastAttempt` and
`CounterIsChainLength` leave out documents with overlapping transactions, for which
`custody_row` and `custody_counter` show that they fail.
The repository's README explains cross-tier support as allegation and court agreeing; the
flag (`analysis.py:202`) means any two tiers. What STRONG support does mean, two records
of different tiers, is proved (`StrongSupportIsIndependent`).
A span without letters or digits counts as found in every text
(`public_artifacts.py:87`). And Tesseract's result has a heading for each page
(`ocr.py:141`), so a blank scan counts as read and its spans as UNVERIFIED, where the
macOS adapter leaves NOT_RUN.
The page has its own copy of the tier rule (`static/investigation.html:1511`) with a case
that `source_tier` lacks; the page is presentation and not modelled.

## Proofs

A run shows a property on an instance; the theorems below show it for any constants that
satisfy the named assumptions: for the engine those of `EvidenceStore` (finitely many
numbered keys, a positive attempt budget, the types of the functions), for the board
finitely many documents of which each asserts finitely many things, for custody finitely
many sessions, for acquisition the types of its constants and that no bytes have no
text. TLC evaluates all of these assumptions on its instances. In particular no theorem
bounds the requests, workers, documents or mutations.

None of the properties is inductive: what the tables say stays true because of what the
open sessions hold and have read. Each proof therefore has an invariant about both, one
lemma per action that shows that the action keeps it, and the theorem that draws the
property from it.

**The engine, in any time zone** (`DeltaEngineProofs`, `QueueProofs`). `Shape` is
`TypeOK` and that an open transaction has its document and keys and a busy worker its
job (`TypeCorrect`; beyond types it says that attempts stay within the budget).
`QueueInv` adds three parts.

* `LocksSound`: at most one mutation is open, because it holds the case row. It writes
  revision + 1, and has queued exactly the timelines of the keys it has processed.
* `KeySound`, `JobSound`, `VersionsSound` (`TablesSound`): the last mutation of a key
  has left a job; a job is superseded only when its key has moved on and has succeeded
  only when its version is there; versions grow with the revision and the last one is
  current.
* `WorkersSound`: what a worker has read as the key's version is its job's; who holds
  the row of a job owns its claim, and no two workers hold one; while a worker
  publishes, its key is where it was read and no mutation holds it.

`WaitsEnd` is about locks alone. A session waits for a row that another one holds
(`ClientWaits`, `WorkerWaits`: the guards on locks, relative to a set of sessions; for
all sessions they are the guards). Who publishes waits for nobody; a mutation, of which
one at most is open, waits for a publication; who holds a job for a key; everyone else
for those. So any set of sessions has one that waits for none of the set
(`NoWaitCycle`), and as whoever is waited for has begun, one of the begun sessions has
all that its next step asks for (`SomeoneGoesOn`). That these guards are when the
actions are enabled is by inspection of the actions, which assign every variable.

Other row locks add no waiting to this and are left out. A publication locks the artifact
row after its key; of mutations only the job's insert needs that row (its foreign key), and
it comes when the mutation holds the key. Versions and dependencies refer to rows that the
publication holds itself, not to the case.

From `QueueInv` also follow `InvalidationsAreKept` (a timeline behind its evidence has
an open or a visibly failed job: the last mutation's job exists, is not superseded, and
if it has succeeded the version is the newest), `ReadersNeverGoBack`, `JobsPublishOnce`
and `CompletionIsFenced`. `LedgerIsOneStory` rests on the same invariant: a mutation
checks that it is not recorded yet under the lock that it still holds when it commits.
None of these needs to know which keys a retraction computes, so they hold in any
session time zone.

**The engine, with sessions in UTC** (`ExactnessProofs`). `SessionsInUTC` says that a
retraction computes the keys of the addition. It is a hypothesis of these theorems, not
an assumption of the model; `session_timezone` shows that it cannot be dropped.
`InvalidationInv` says which artifacts there are, the timelines touched so far, because
a change set counts those it leaves alone: `InvalidationIsExact`. `ExactInv` says that
no key is behind the stamps of its documents (`StampsBehind`), that the inputs a worker
has read are those of the version it read as long as the key has not moved
(`InputsExact`: the reads of `_compute` lock nothing), and that every version has the
evidence of its job's revision (`PayloadsExact`). A commit cannot change a payload's
truth, as it stamps with a later revision than any version has: hence
`SnapshotsAreExact`; with `QueueInv`, `FreshTimelinesAreExact` and
`DrainedEqualsRebuild`: with no job open each timeline either shows its rebuild or is
one whose own last job was given up.

`EngineImplementsView`: `Spec` implements `TimelineView`. The status of a timeline is
that of its key and of the job of that key's version; `ViewInv` adds to `ExactInv` that
only recorded documents are retracted. `Commit` is Add or Retract, `Publish` is Refresh,
a recorded failure or a sweep with no attempt left is GiveUp, and everything else,
superseded jobs included, is invisible.

`EngineFeedsTheBoard`: the engine also implements `CaseAnalysis`. A document is received
for the board when its addition commits and retracted when its tombstone does
(`Analysis`, in `ExactnessProofs`; `CommitIsAnalysed`). What the documents say is not in
the engine's model, so the theorem has it as a hypothesis (`Stated`): each of finitely
many documents asserts something, its change keys are those of its assertions, and a key
names one entity and day. Then all that is proved of `CaseAnalysis` holds of the engine's
tables (`BoardOfTheEngine`), and a fresh timeline shows the records which the findings of
its entity-day are drawn from (`TimelinesMatchTheBoard`).

**Assignments** (`HandoffProofs`). `AssignmentsDisturbNothing`: `HandoffSpec => Spec`,
so all of the above holds beside `assign_case`. `AssignmentsDisturbNoReader`:
a request that reads beside them (`ReadersBesideHandoff`) implements `ReaderSpec`, so the
theorems about readers hold there as well. `ChangesAreAttributed`: a mutation that
has locked the case has loaded the officer that the row has (`OfficerLoaded`), until it
commits.

**Readers** (`CaseReaderProofs`). What earlier statements have seen is related to the
tables of now, through whatever was committed in between.

* `FreshAnswersAreExact`: the version that was read still exists (`VersionRead`, part of
  `ReaderTypeOK`: `ReaderTypeCorrect`), and it is exact if its key has not moved.
* `BriefsAreExact`, `BriefsAreComplete` (`BriefInv`, any time zone): a stamp read
  earlier is the one of now, or was empty and has become later than every listed change
  (`StampRead`); the jobs of a listed change have been there since it was committed
  (`JobsQueued`).
* `VerificationIsSound`: no verdict is given before the last statement
  (`VerdictPending`), and where that one finds no job open and none given up every
  timeline is its rebuild at that moment, whatever the statements before it have
  compared.
* `WorkspacesHoldTogether`: `CalledFresh` says of each timeline that was reported fresh
  what it shows of each listed source; a version is exact for its key, and stamps are
  never removed.
* `OperationsAreOfOneRevision`: all keys come from one statement, hence from one
  revision (`KeysOfRevision`), and the artifacts that the session has kept from before
  are not newer than its versions. The label is read earlier and may be of an earlier
  revision.

**Custody** (`CustodyProofs`). `ChainInv`: the events of a document are exactly those of
one sequence (`ChainsSound`); one transaction at a time has the row locked
(`LocksExclude`), so what it has read of the chain is still its end (`LinksSound`). From
it `ChainsAreComplete`, `ImportsDoNotCollide` and the refinement `CustodyIsALog`.
`VaultInv` follows each receipt from the vault to the event, and `AddressesKept` each
address from the receipt to the rows, through UPDATEs that set only some columns; with
them `StoredBytesAreThere`: the bytes of an event are in the vault unless the medium has
damaged or lost them, and no row names an address at which nothing was stored.
`RowInv`: a transaction that no other has overlapped has loaded the row as it is, which
gives `LoneImportsAreCounted` and `LoneRowsDescribe`. `ReportInv`: the counters of the
rows never exceed the chain (with what the migration left), also for rows that a report
has read before its second statement (`ReportsHoldTogether`).

**The board** (`CaseAnalysisProofs`). Its invariants say of each state what the rules
make of the active events, so the work is in lemmas about the rules.

* `StrongSupportIsIndependent`: two records and two tiers, counted apart, give two
  events that differ in both (`RecordsAndTiers`): of two events of different records,
  either their tiers differ, or a third in another tier is of another record than one of
  them.
* `GapsNeverCorroborated`: the records of a class are among those of the entity-day.
* `EvidenceAccumulates`: more events keep every contradiction and corroboration
  (`MoreEvidence`); `Ingest` only adds active events, because a document is received
  once (`TypeOK`), and `Retract` only removes some.
* `DeltaIsCounted`: a finding is what the rules make of its entity-day and classes
  (`FindingOfKey`), so its key determines it and the findings of a category are as many
  as their keys (`KeysAreFindings`), of which there are finitely many.
* `GraphWellFormed`: a finding cites active events (`FindingCites`), and the assertions
  of an id determine its events and these its classes (`EventsIdentify`).
* `InfluenceIsShown`: a source leads to the findings that cite it
  (`EdgesOfAnAssertion`), and without it the rules give exactly those that do not
  (`UncitedSourceIsIdle`).

**Acquisition** (`AcquisitionProofs`). `IntakeInv`: a thread of the pool works on a
document that may be fetched, and what it reads with OCR is a scan that this document's
host sent (`ThreadsSound`); the cache has complete readings of the runtime that the host
has (`CacheSound`), so whoever finds one in it gets what a reading of his own would
give. Hence `AcquisitionTypeCorrect`, whose content is that bodies and readings stay
within their limits, and `AnswersBelong`. Texts are built from pages by a recursive
function; that the result is a text is shown for the least number of pages for which it
would not be (`LeastNumber`, `FlattenedIsSeq`), as the induction theorems of the library
are out of the provers' reach.

`QuotesAreFound` relates two comparisons of text that the code makes with different
means. A quote is a stretch of places of the excerpt, and what is compared with the
source are its letters with a blank for each gap (`NormalizedText`: the places that
`Kept` keeps).

* `QuoteOfPlaces`: where the places kept of one text go to places kept of another, in
  order, with nothing kept in between and the same character each, the one normalized is
  a stretch of the other.
* `WordInBoth`, `MovedLetter`, `MovedInOrder`, `MovedGap`: where the words of the excerpt
  are a stretch of those of the source, each letter goes to the same letter of the same
  word (`Moved`), and a gap between words to a gap. So `QuoteOfWords`: the excerpt is
  found in the source.
* `NormalizedQuote`, `QuoteOfQuote`: a quote of the excerpt is found in the excerpt, hence
  in the source.
* `QuotesSound`: while a reviewer looks at the proposals, each one called verified is a
  quote of the excerpt it came from, and a result reads what its pages say. It is
  preserved by every step (`NextQuotes`).

Only model-checked:

* `JobsSettle`, `StaleIsResolved` and `EveryDocumentIsAnswered` are liveness under
  fairness, and `NoLockCycle` is about ENABLED; the proof system treats neither. What
  `NoLockCycle` says of the guards is proved (`WaitsEnd`).

## Plan

The modules are written, and every safety property of the runs is proved but
`NoLockCycle`, of which the part that is not about ENABLED is. The components that share
state are composed: engine and readers (`CaseReader`), engine and assignments (`Handoff`),
all three (`ReadersBesideHandoff`), engine and board (`Analysis`). Custody is not composed
with the engine: they share the documents only, to which a custody row refers by id.

## Not modelled

* One case is modelled: cases share only the queue, where jobs of other cases are
  more claimable jobs.
* SQLite, which ignores row locks, is for local demonstration.
* The round trip of a key through its string (`timeline_key`, `parse_timeline_key`) is
  formatting of a pair; what matters of it, the time zone, is `KeysReadBack`.
* The lifecycle of `WorkerLoop`: its run repeats `run_once`, which is modelled; a stop
  is that no further step is taken, which no safety property excludes.
* The keyword and date tables of the deterministic extraction and the prompt: data that
  no property tells apart.
* Access keys, routing, request schemas, the HTML page: wiring and presentation.
* Schema definitions and migrations, except the rows that the custody migration leaves.
* The demo and real-case builders: fixtures over the service. In `Custody` each document
  is fetched once, when its case is built (`real_case.py`). An import waits for the
  acquisition row's lock; that its insert also waits for a mutation which has the case
  row locked (its foreign key) is left out, as it holds nothing that mutations wait for.
