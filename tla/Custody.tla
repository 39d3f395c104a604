------------------------------- MODULE Custody -------------------------------
(***************************************************************************)
(* Where the bytes of a source came from.  The public fetch of a document  *)
(* records its first acquisition, reviewers import better copies later,    *)
(* and each of them stores the bytes in the vault, then, in a transaction, *)
(* promotes its result in the acquisition row of the document and appends  *)
(* a hash-chained event.  The row is read without a lock: the lock comes   *)
(* with the UPDATE that the next query of the session flushes.             *)
(***************************************************************************)
EXTENDS Integers, Sequences, FiniteSets

CONSTANTS
    Doc,          \* documents that are ingested; d also names its fetch
    Import,       \* imports by reviewers
    DocumentOf,   \* DocumentOf[i]: the document that import i names
    Content,      \* byte strings; each is its own digest
    NoContent,    \* nothing was received
    Inspected,    \* Inspected[x]: what inspection makes of the bytes x
    VaultEnabled  \* ARTIFACT_VAULT_DIR is configured

Received == Content \cup {NoContent}
\* Of the outcomes of an acquisition: nothing received, received and not the
\* document, received and read.
Status == {"FETCH_FAILED", "ACCESS_CHALLENGE", "FETCHED"}
Verification == {"NOT_RUN", "UNVERIFIED", "PARTIAL", "VERIFIED"}
Session == Doc \cup Import

ASSUME SessionAssumption == Doc \cap Import = {} /\ IsFiniteSet(Session)
ASSUME DocumentOfAssumption == DocumentOf \in [Import -> Doc]
ASSUME ContentAssumption == NoContent \notin Content
ASSUME InspectedAssumption ==
    Inspected \in [Received -> [status : Status, verification : Verification]]
ASSUME VaultAssumption == VaultEnabled \in BOOLEAN

VARIABLES
    rows,      \* source_acquisitions, by document
    attempts,  \* source_acquisition_attempts
    file,      \* what the vault has under a digest
    session,   \* the request that fetches or imports
    reader,    \* a request for the custody report
    upgraded,  \* documents acquired before there were attempts to append to
    overlapped \* history: documents on whose row two transactions were open at once

vars == <<rows, attempts, file, session, reader, upgraded, overlapped>>
history == <<upgraded, overlapped>>

-----------------------------------------------------------------------------
(* Rows *)

\* Columns that a property tells apart; content is the digest, uri the digest
\* that vault://sha256/<digest> names.
Row == [status : {"NONE"} \cup Status, verification : Verification,
        content : Received, uri : Received,
        storage : {"NOT_STORED", "STORED", "STORAGE_UNAVAILABLE"},
        method : {"PUBLIC_HTTP", "REVIEWER_IMPORT"},
        count : 0..Cardinality(Session) + 1]
NoRow == [status |-> "NONE", verification |-> "NOT_RUN", content |-> NoContent,
          uri |-> NoContent, storage |-> "NOT_STORED", method |-> "PUBLIC_HTTP",
          count |-> 0]
HasRow(d) == rows[d] # NoRow

\* No session appends more than one event.
Payload == [document : Doc, sequence : 1..Cardinality(Session), actor : Session, status : Status,
            content : Received, uri : Received]

\* sha256_json of an event covers the hash of the event before it, so a hash
\* stands for all payloads up to its own.  The hash before the first is None.
Hash == Seq(Payload)
NoHash == <<>>
HashOf(previous, payload) == Append(previous, payload)

Event == [payload : Payload, previous : Hash, hash : Hash]
EventsIn(table, d) == {e \in table : e.payload.document = d}
Events(d) == EventsIn(attempts, d)

\* ORDER BY sequence DESC LIMIT 1
Last(table) ==
    CHOOSE e \in table : \A f \in table : f.payload.sequence <= e.payload.sequence

-----------------------------------------------------------------------------
(* Sessions *)

IsFetch(s) == s \in Doc
Idle == [pc |-> "new", content |-> NoContent, uri |-> NoContent,
         storage |-> "NOT_STORED", loaded |-> NoRow, row |-> NoRow,
         previous |-> NoHash, sequence |-> 0]
SessionState ==
    [pc : {"new", "storing", "writing", "stored", "loaded", "flushed", "linked",
           "answered", "refused", "conflict", "failed"},
     content : Received, uri : Received,
     storage : {"NOT_STORED", "STORED", "STORAGE_UNAVAILABLE"},
     loaded : Row, row : Row, previous : Hash, sequence : 0..Cardinality(Session)]
Over == {"answered", "refused", "conflict", "failed"}
Target(s) == IF IsFetch(s) THEN s ELSE DocumentOf[s]
Goes(s, pc) == session' = [session EXCEPT ![s].pc = pc]

\* Mutant: nobody waits for the row of another transaction.
NeverLocked(d) == FALSE

\* The row lock of the flushed INSERT or UPDATE, held until the transaction ends.
RowLocked(d) ==
    \E s \in Session : Target(s) = d /\ session[s].pc \in {"flushed", "linked"}

CustodyTypeOK ==
    /\ rows \in [Doc -> Row]
    /\ attempts \subseteq Event
    /\ file \in [Content -> {"absent", "intact", "damaged", "lost"}]
    /\ session \in [Session -> SessionState]
    /\ reader \in [pc : {"idle", "rows_read", "done"}, rows : [Doc -> Row],
                   attempts : SUBSET Event]
    /\ upgraded \subseteq Doc
    /\ overlapped \subseteq Doc

\* Mutant: the column for the count is added with 0 and not with 1.
UpgradedRowUncounted(x) ==
    [NoRow EXCEPT !.status = Inspected[x].status,
                  !.verification = Inspected[x].verification, !.content = x]

\* A row of the schema before attempts and vault, with the defaults that the
\* added columns got (acquisition_method, storage_status, attempt_count).
UpgradedRow(x) ==
    [NoRow EXCEPT !.status = Inspected[x].status,
                  !.verification = Inspected[x].verification, !.content = x,
                  !.count = 1]

\* The fetch of a document whose row was upgraded is long over.
Init ==
    /\ upgraded \in SUBSET Doc
    /\ \E received \in [Doc -> Received] :
         rows = [d \in Doc |-> IF d \in upgraded THEN UpgradedRow(received[d]) ELSE NoRow]
    /\ attempts = {}
    /\ file = [x \in Content |-> "absent"]
    /\ session = [s \in Session |->
                    IF s \in upgraded THEN [Idle EXCEPT !.pc = "answered"] ELSE Idle]
    /\ reader = [pc |-> "idle", rows |-> rows, attempts |-> {}]
    /\ overlapped = {}

-----------------------------------------------------------------------------
(* The vault: ArtifactVault.store, called before the transaction begins *)

\* A fetch may have received nothing; an import has at least one byte.
Begin(s, x) ==
    /\ session[s].pc = "new"
    /\ x = NoContent => IsFetch(s)
    /\ session' = [session EXCEPT ![s].content = x,
                                  ![s].pc = IF x # NoContent /\ VaultEnabled
                                              THEN "storing" ELSE "stored"]
    /\ UNCHANGED <<rows, attempts, file, reader, history>>

Stored(s) ==
    [session EXCEPT ![s].pc = "stored", ![s].storage = "STORED",
                    ![s].uri = session[s].content]

\* target.exists(): a file under this digest is kept after it has been read
\* back; one that does not hold these bytes ends the request in an error.
LookUp(s) ==
    /\ session[s].pc = "storing"
    /\ session' = CASE file[session[s].content] \in {"absent", "lost"} ->
                         [session EXCEPT ![s].pc = "writing"]
                    [] file[session[s].content] = "intact"  -> Stored(s)
                    [] file[session[s].content] = "damaged" ->
                         [session EXCEPT ![s].pc = "failed"]
    /\ UNCHANGED <<rows, attempts, file, reader, history>>

\* A complete temporary file takes the name in one step (os.replace).
Replace(s) ==
    /\ session[s].pc = "writing"
    /\ file' = [file EXCEPT ![session[s].content] = "intact"]
    /\ session' = Stored(s)
    /\ UNCHANGED <<rows, attempts, reader, history>>

\* Mutant: the receipt is made out although nothing was written.
StorageIgnored(s) ==
    /\ session[s].pc \in {"storing", "writing"}
    /\ session' = Stored(s)
    /\ UNCHANGED <<rows, attempts, file, reader, history>>

\* OSError: the request goes on and does not claim that the bytes are kept.
StorageFails(s) ==
    /\ session[s].pc \in {"storing", "writing"}
    /\ session' = [session EXCEPT ![s].pc = "stored",
                                  ![s].storage = "STORAGE_UNAVAILABLE"]
    /\ UNCHANGED <<rows, attempts, file, reader, history>>

\* ArtifactVault.verify
Verifies(uri, content) ==
    /\ VaultEnabled
    /\ uri # NoContent
    /\ uri = content
    /\ file[uri] = "intact"

-----------------------------------------------------------------------------
(* The transaction of record_source_acquisition or replace_source_acquisition *)

InTransaction(s) == session[s].pc \in {"loaded", "flushed", "linked"}

\* SELECT of the acquisition row, without FOR UPDATE.  A fetch records nothing
\* when there is one; an import is refused when there is none.
Load(s) ==
    /\ session[s].pc = "stored"
    /\ LET d == Target(s)
           goesOn == IsFetch(s) # HasRow(d)
       IN  /\ session' = [session EXCEPT
                            ![s].loaded = rows[d],
                            ![s].pc = IF goesOn THEN "loaded"
                                      ELSE IF IsFetch(s) THEN "answered" ELSE "refused"]
           /\ overlapped' = IF goesOn /\ \E t \in Session : Target(t) = d /\ InTransaction(t)
                              THEN overlapped \cup {d} ELSE overlapped
    /\ UNCHANGED <<rows, attempts, file, reader, upgraded>>

\* What the vault and the inspection have to say, as a first acquisition.
Acquired(s) ==
    LET t == session[s]
    IN  [status |-> Inspected[t.content].status,
         verification |-> Inspected[t.content].verification,
         content |-> t.content, uri |-> t.uri, storage |-> t.storage,
         method |-> IF IsFetch(s) THEN "PUBLIC_HTTP" ELSE "REVIEWER_IMPORT",
         count |-> 1]

\* Mutant: the new fingerprint is promoted, the old verdict on the spans stays.
KeepsVerdict(s) ==
    [Acquired(s) EXCEPT !.count = session[s].loaded.count + 1,
                        !.verification = session[s].loaded.verification]

\* Mutant: a stored copy counts as an attempt of its own.
CountsStorage(s) ==
    [Acquired(s) EXCEPT !.count = session[s].loaded.count
                                    + IF session[s].storage = "STORED" THEN 2 ELSE 1]

\* What the session assigns to the columns: of a new row, or of the one loaded.
Assigned(s) == [Acquired(s) EXCEPT !.count = session[s].loaded.count + 1]

\* The UPDATE sets the columns whose value differs from the one loaded, and
\* leaves the others as they are by now; an INSERT sets them all.
Flushed(s) ==
    LET assigned == Assigned(s)
        loaded == session[s].loaded
        persisted == rows[Target(s)]
    IN  IF loaded = NoRow
          THEN assigned
          ELSE [column \in DOMAIN assigned |->
                  IF assigned[column] = loaded[column] THEN persisted[column]
                                                       ELSE assigned[column]]

\* Mutant: the UPDATE is committed before the event is appended.
FlushAutocommitted(s) ==
    /\ session[s].pc = "loaded"
    /\ ~RowLocked(Target(s))
    /\ session' = [session EXCEPT ![s].pc = "flushed", ![s].row = Flushed(s)]
    /\ rows' = [rows EXCEPT ![Target(s)] = Flushed(s)]
    /\ UNCHANGED <<attempts, file, reader, history>>

\* The autoflush of the query for the previous event: it waits for the lock.
Flush(s) ==
    /\ session[s].pc = "loaded"
    /\ ~RowLocked(Target(s))
    /\ session' = [session EXCEPT ![s].pc = "flushed", ![s].row = Flushed(s)]
    /\ UNCHANGED <<rows, attempts, file, reader, history>>

\* Mutant: the new event is chained to the first.
PreviousIsFirst(table) ==
    CHOOSE e \in table : \A f \in table : e.payload.sequence <= f.payload.sequence
\* The event that the new one is chained to.
Previous(table) == Last(table)

ReadPrevious(s) ==
    /\ session[s].pc = "flushed"
    /\ LET events == Events(Target(s))
           none == events = {}
       IN  session' = [session EXCEPT
             ![s].pc = "linked",
             ![s].sequence = IF none THEN 1 ELSE Last(events).payload.sequence + 1,
             ![s].previous = IF none THEN NoHash ELSE Previous(events).hash]
    /\ UNCHANGED <<rows, attempts, file, reader, history>>

NewEvent(s) ==
    LET t == session[s]
        payload == [document |-> Target(s), sequence |-> t.sequence, actor |-> s,
                    status |-> Inspected[t.content].status,
                    content |-> t.content, uri |-> t.uri]
    IN  [payload |-> payload, previous |-> t.previous,
         hash |-> HashOf(t.previous, payload)]

\* uq_source_acquisition_attempt_sequence, uq_source_acquisition_attempt_hash
Collides(e) ==
    \E f \in attempts : \/ f.hash = e.hash
                        \/ /\ f.payload.document = e.payload.document
                           /\ f.payload.sequence = e.payload.sequence

\* INSERT of the event and COMMIT of both.  The request is answered, or the
\* answer to the commit is lost and it ends in an error.
Commit(s) ==
    /\ session[s].pc = "linked"
    /\ IF Collides(NewEvent(s))
         THEN /\ Goes(s, "conflict")
              /\ UNCHANGED <<rows, attempts>>
         ELSE /\ rows' = [rows EXCEPT ![Target(s)] = session[s].row]
              /\ attempts' = attempts \cup {NewEvent(s)}
              /\ Goes(s, "answered") \/ Goes(s, "failed")
    /\ UNCHANGED <<file, reader, history>>

\* An error or the death of the process: the transaction is rolled back, what
\* the vault has stays.
Fail(s) ==
    /\ session[s].pc \notin {"new"} \cup Over
    /\ Goes(s, "failed")
    /\ UNCHANGED <<rows, attempts, file, reader, history>>

-----------------------------------------------------------------------------
(* The custody report, two statements *)

ReadRows ==
    /\ reader.pc \in {"idle", "done"}
    /\ reader' = [reader EXCEPT !.pc = "rows_read", !.rows = rows, !.attempts = {}]
    /\ UNCHANGED <<rows, attempts, file, session, history>>

ReadAttempts ==
    /\ reader.pc = "rows_read"
    /\ reader' = [reader EXCEPT !.pc = "done", !.attempts = attempts]
    /\ UNCHANGED <<rows, attempts, file, session, history>>

\* Whether the events of a document, in the order of their sequence, are chained.
ChainVerified(events) ==
    /\ events # {}
    /\ \A e \in events :
         LET before == {f \in events : f.payload.sequence < e.payload.sequence}
         IN  /\ e.previous = IF before = {} THEN NoHash ELSE Last(before).hash
             /\ e.hash = HashOf(e.previous, e.payload)

-----------------------------------------------------------------------------
\* The storage medium alters a file or loses it.
Damage(x) ==
    /\ file[x] \in {"intact", "damaged"}
    /\ \E left \in {"damaged", "lost"} : file' = [file EXCEPT ![x] = left]
    /\ UNCHANGED <<rows, attempts, session, reader, history>>

SessionStep(s) ==
    \/ \E x \in Received : Begin(s, x)
    \/ LookUp(s) \/ Replace(s) \/ StorageFails(s)
    \/ Load(s) \/ Flush(s) \/ ReadPrevious(s) \/ Commit(s) \/ Fail(s)

Next ==
    \/ \E s \in Session : SessionStep(s)
    \/ ReadRows \/ ReadAttempts
    \/ \E x \in Content : Damage(x)

Spec == Init /\ [][Next]_vars

-----------------------------------------------------------------------------
(* The chain *)

\* The chain of a document, payload by payload, as its last event vouches for it.
Chain(d) == IF Events(d) = {} THEN <<>> ELSE Last(Events(d)).hash

\* Whatever overlaps, fails or loses its answer, the events of a document are
\* its chain: as many as the last one vouches for, each numbered by its place
\* and hashed over the ones before it (_append_acquisition_attempt).
ChainComplete ==
    \A d \in Doc :
        /\ {e.hash : e \in Events(d)} =
               {SubSeq(Chain(d), 1, n) : n \in 1..Len(Chain(d))}
        /\ \A n \in 1..Len(Chain(d)) : Chain(d)[n].sequence = n

\* Two reviewers who import at the same time never make each other fail: the
\* second has the number after the first although both read the row before
\* (the unique constraints are never met).
ImportsNeverCollide == \A s \in Session : session[s].pc # "conflict"

Log == INSTANCE CustodyLog WITH log <- [d \in Doc |-> Chain(d)]

\* Seen as a log of payloads, custody only ever grows at the end, by one attempt
\* at a time: nothing is rewritten, reordered or dropped.
ImplementsLog == Log!Spec

\* What an event says is stored can be verified from then on, whatever died between
\* the vault and the transaction; only the storage medium can lose it again.  And
\* no row, overlapped or not, names an address at which nothing was ever stored.
StoredIsThere ==
    /\ \A e \in attempts :
         LET uri == e.payload.uri
         IN  uri # NoContent =>
                \/ Verifies(uri, e.payload.content)
                \/ uri = e.payload.content /\ file[uri] \in {"damaged", "lost"}
    /\ \A d \in Doc : rows[d].uri # NoContent => file[rows[d].uri] # "absent"

-----------------------------------------------------------------------------
(* The report *)

\* A row that was upgraded has had an attempt of which there is no event.
Unchained(d) == IF d \in upgraded THEN 1 ELSE 0

\* A report never presents custody as broken or missing, and never counts more
\* attempts than it lists, although its two statements see different moments;
\* except that an upgraded row has no custody until its first import.
ReportHoldsTogether ==
    reader.pc = "done" =>
        \A d \in Doc : reader.rows[d] # NoRow =>
            LET events == EventsIn(reader.attempts, d)
            IN  /\ ChainVerified(events) \/ (d \in upgraded /\ events = {})
                /\ reader.rows[d].count <= Cardinality(events) + Unchained(d)

-----------------------------------------------------------------------------
(* The acquisition row *)

CountsAttempts(d) == rows[d].count = Len(Chain(d)) + Unchained(d)

\* attempt_count counts the attempts of a document whose attempts all have an
\* event, of reviewers who work at the same time too (test_evidence_delta.py).
AttemptsCounted == \A d \in Doc \ upgraded : CountsAttempts(d)

\* It does as long as no two transactions on the row overlap, from the unlocked
\* SELECT to the commit, whatever dies, fails or was there before the upgrade
\* (replace_source_acquisition, attempt_count += 1).
CounterIsChainLength == \A d \in Doc \ overlapped : CountsAttempts(d)

Describes(row, payload) ==
    /\ row.content = payload.content
    /\ row.uri = payload.uri
    /\ row.storage = "STORED" <=> payload.uri # NoContent
    /\ row.status = payload.status
    /\ row.verification = Inspected[payload.content].verification
    /\ row.method = IF IsFetch(payload.actor) THEN "PUBLIC_HTTP" ELSE "REVIEWER_IMPORT"

\* The row of a document whose attempts all have an event is the snapshot of one of
\* them, whole, whoever was at work at the same time (DESIGN.md, promotion).
RowIsOneAttempt ==
    \A d \in Doc \ upgraded :
        Chain(d) # <<>> => \E e \in Events(d) : Describes(rows[d], e.payload)

\* As long as no two transactions on the row overlap it is that of the last attempt,
\* the one promoted: its bytes, verdict and place in the vault belong together.
RowDescribesLastAttempt ==
    \A d \in Doc \ overlapped :
        Chain(d) # <<>> => Describes(rows[d], Chain(d)[Len(Chain(d))])

=============================================================================
