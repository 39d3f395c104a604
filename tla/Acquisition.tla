----------------------------- MODULE Acquisition -----------------------------
(***************************************************************************)
(* How a source is read before anything of it is recorded.  acquire_all    *)
(* fetches the sources of a template with a pool of threads; a reviewer    *)
(* has spans of an excerpt proposed, confirms some of them as a document   *)
(* and imports its source.  Both inspect the bytes in the same way and     *)
(* share one OCR adapter with its cache.                                   *)
(***************************************************************************)
EXTENDS SourceText

CONSTANTS
    Sources,    \* number of documents that acquire_all is called with
    Thread,     \* its threads (4)
    Importer,   \* the thread of the request that imports
    SourceUri,  \* SourceUri[d]: "NONE", "REJECTED" or "ALLOWED" (ALLOWED_PUBLIC_HOSTS)
    Quotes,     \* Quotes[d]: the source_text of the assertions of d
    Content,    \* byte strings; each is its own digest
    NoContent,  \* nothing was received
    Served,     \* Served[d]: what the host of d may answer with
    Form,       \* Form[x]: what the bytes x are
    Pages,      \* Pages[x]: their text, or what OCR reads, page by page
    Size,       \* Size[x]: their length, counted in chunks
    MaxBytes,   \* MAX_ARTIFACT_BYTES, in chunks
    Heading,    \* what Tesseract's result has above each page
    TimeLimit,  \* timeout_seconds of the OCR adapter
    Excerpt,    \* excerpts that are looked at
    ModelSpan   \* spans that a model may answer with, in the excerpt or not

Slot == 1..Sources
Received == Content \cup {NoContent}
FormOfContent == {"CHALLENGE", "PDF", "SCAN", "BROKEN_PDF", "HTML", "PLAIN", "BINARY"}

ASSUME ThreadAssumption == IsFiniteSet(Thread) /\ Importer \notin Thread
ASSUME SourcesAssumption ==
    /\ Sources \in Nat
    /\ SourceUri \in [Slot -> {"NONE", "REJECTED", "ALLOWED"}]
    /\ Quotes \in [Slot -> (SUBSET Text) \ {{}}]
    /\ Served \in [Slot -> SUBSET Content]
ASSUME ContentAssumption ==
    /\ NoContent \notin Content
    /\ Form \in [Content -> FormOfContent]
    /\ Pages \in [Content -> Seq(Text)]
    /\ Size \in [Content -> Nat]
    /\ \A x \in Content : Size[x] = 0 => Pages[x] = <<>>
ASSUME LimitAssumption == MaxBytes \in Nat \ {0} /\ TimeLimit \in Nat \ {0}
ASSUME ExcerptAssumption == Excerpt \subseteq Text /\ ModelSpan \subseteq Text /\ Heading \in Text

VARIABLES
    adapter,  \* the OCR runtime that the host has, "NONE" if it has none
    next,     \* the document that the next free thread takes
    thread,   \* what each thread of the pool, and the importer, is doing
    answers,  \* the results of acquire_all, in the order of its documents
    cache,    \* the adapter's _cache
    intake    \* the reviewer's document, from its excerpt to the import

vars == <<adapter, next, thread, answers, cache, intake>>

-----------------------------------------------------------------------------
(* Results *)

AcquisitionStatus == {"NO_SOURCE_URI", "REJECTED_URI", "TOO_LARGE", "FETCH_FAILED",
                      "ACCESS_CHALLENGE", "HTTP_ERROR", "FETCHED"}
Method == {"NONE", "BLOCKED_HTML", "BINARY_METADATA", "PDF_TEXT", "PDF_SCANNED_REQUIRES_OCR",
           "PDF_PARSE_FAILED", "HTML_TEXT", "PLAIN_TEXT", "MACOS_VISION_OCR", "TESSERACT_OCR"}
OcrMethod == {"PDF_SCANNED_REQUIRES_OCR", "MACOS_VISION_OCR", "TESSERACT_OCR"}

\* ArtifactAcquisition; error is error_class of an extraction that failed.  The text
\* stands for what is computed of it at once: its length and the verdict.
Result == [status : AcquisitionStatus, content : Received, method : Method,
           text : Text, error : BOOLEAN]
VerdictOf(spans, result) == Verdict(spans, result.text, result.method \in OcrMethod)

\* Bytes of length 0 have no fingerprint.
Fingerprint(x) == IF x # NoContent /\ Size[x] = 0 THEN NoContent ELSE x
Unread(status, x, method) ==
    [status |-> status, content |-> Fingerprint(x), method |-> method, text |-> <<>>, error |-> FALSE]
Pending == [status |-> "PENDING"]
NoReading == <<"nothing">>

IdleThread == [pc |-> "idle", document |-> 0, received |-> 0, content |-> NoContent,
               elapsed |-> 0, read |-> 0]
ThreadState ==
    [pc : {"idle", "streaming", "ocr", "vision", "rendering", "reading"},
     document : 0..Sources, received : 0..MaxBytes, content : Received,
     elapsed : 0..TimeLimit, read : Nat]

\* verified: the spans that the intake showed as verbatim quotes.
IntakeState ==
    [pc : {"none", "proposed", "confirmed", "importing", "imported"},
     mode : {"none", "assisted", "deterministic"}, excerpt : Text,
     proposals : SUBSET [span : Text, verified : BOOLEAN], result : Result \cup {Pending}]

\* The rest of the type: no reading takes longer than its limit, whatever each
\* of its subprocesses does; and only what was read completely is kept.
AcquisitionTypeOK ==
    /\ adapter \in {"NONE", "MACOS_VISION_OCR", "TESSERACT_OCR"}
    /\ next \in 1..Sources + 1
    /\ thread \in [Thread \cup {Importer} -> ThreadState]
    /\ answers \in [Slot -> Result \cup {Pending}]
    /\ cache \in [Content -> Text \cup {NoReading}]
    /\ intake \in IntakeState

Init ==
    /\ adapter \in {"NONE", "MACOS_VISION_OCR", "TESSERACT_OCR"}
    /\ next = 1
    /\ thread = [t \in Thread \cup {Importer} |-> IdleThread]
    /\ answers = [d \in Slot |-> Pending]
    /\ cache = [x \in Content |-> NoReading]
    /\ intake = [pc |-> "none", mode |-> "none", excerpt |-> <<>>, proposals |-> {},
                 result |-> Pending]

Goes(t, pc) == thread' = [thread EXCEPT ![t].pc = pc]

\* Mutant: results are collected as they come.
AnswersInTurn(t, result) ==
    /\ IF t = Importer
         THEN intake' = [intake EXCEPT !.pc = "imported", !.result = result] /\ UNCHANGED answers
         ELSE /\ answers' = [answers EXCEPT ![Min({d \in Slot : answers[d] = Pending})] = result]
              /\ UNCHANGED intake
    /\ thread' = [thread EXCEPT ![t] = IdleThread]

\* executor.map keeps the order of the documents, whichever thread is first.
Answers(t, result) ==
    /\ IF t = Importer
         THEN intake' = [intake EXCEPT !.pc = "imported", !.result = result] /\ UNCHANGED answers
         ELSE answers' = [answers EXCEPT ![thread[t].document] = result] /\ UNCHANGED intake
    /\ thread' = [thread EXCEPT ![t] = IdleThread]

-----------------------------------------------------------------------------
(* Inspection of bytes, _inspect_response *)

\* Text with the page breaks of pypdf.
Joined(pages) == FlattenSeq([i \in DOMAIN pages |-> Append(pages[i], Blank)])

Inspected(x, method, text, error) ==
    [status |-> "FETCHED", content |-> Fingerprint(x), method |-> method, text |-> text,
     error |-> error]

MethodOf(x) ==
    CASE Form[x] = "PDF"        -> "PDF_TEXT"
      [] Form[x] = "SCAN"       -> "PDF_SCANNED_REQUIRES_OCR"
      [] Form[x] = "BROKEN_PDF" -> "PDF_PARSE_FAILED"
      [] Form[x] = "HTML"       -> "HTML_TEXT"
      [] Form[x] = "PLAIN"      -> "PLAIN_TEXT"
      [] OTHER                  -> "BINARY_METADATA"
TextOf == [x \in Content |->
             IF Form[x] \in {"PDF", "HTML", "PLAIN"} THEN Joined(Pages[x]) ELSE <<>>]

NeedsOcr(x) == Form[x] = "SCAN" /\ adapter # "NONE"

\* The bytes have arrived, with a status below 400 or not.
Inspect(t, x, success) ==
    IF success /\ NeedsOcr(x)
      THEN /\ thread' = [thread EXCEPT ![t].pc = "ocr", ![t].content = x, ![t].received = 0]
           /\ UNCHANGED <<answers, intake>>
      ELSE Answers(t, IF Form[x] = "CHALLENGE" THEN Unread("ACCESS_CHALLENGE", x, "BLOCKED_HTML")
                      ELSE IF ~success THEN Unread("HTTP_ERROR", x, "NONE")
                      ELSE Inspected(x, MethodOf(x), TextOf[x], FALSE))

-----------------------------------------------------------------------------
(* Fetching, acquire_all and acquire *)

\* The pool gives the documents out in order.
Start(t) ==
    /\ thread[t].pc = "idle" /\ t \in Thread
    /\ next <= Sources
    /\ next' = next + 1
    /\ IF SourceUri[next] = "ALLOWED"
         THEN /\ thread' = [thread EXCEPT ![t].pc = "streaming", ![t].document = next]
              /\ UNCHANGED answers
         ELSE /\ answers' = [answers EXCEPT ![next] =
                    Unread(IF SourceUri[next] = "NONE" THEN "NO_SOURCE_URI" ELSE "REJECTED_URI",
                           NoContent, "NONE")]
              /\ UNCHANGED thread
    /\ UNCHANGED <<adapter, cache, intake>>

\* Mutant: a body is read for as long as there is more of it.
ChunkOfAnySize(t) ==
    /\ thread[t].pc = "streaming"
    /\ thread' = [thread EXCEPT ![t].received = IF @ = MaxBytes THEN @ - 1 ELSE @ + 1]
    /\ UNCHANGED <<adapter, next, answers, cache, intake>>

\* A chunk arrives before the timeout of a read, of which there is one for each.
Chunk(t) ==
    /\ thread[t].pc = "streaming"
    /\ IF thread[t].received < MaxBytes
         THEN /\ thread' = [thread EXCEPT ![t].received = thread[t].received + 1]
              /\ UNCHANGED <<answers, intake>>
         ELSE Answers(t, Unread("TOO_LARGE", NoContent, "NONE"))
    /\ UNCHANGED <<adapter, next, cache>>

\* The response ends, and what has arrived is inspected.
BodyEnds(t) ==
    /\ thread[t].pc = "streaming"
    /\ \E x \in Served[thread[t].document], success \in BOOLEAN :
         /\ Size[x] = thread[t].received
         /\ Inspect(t, x, success)
    /\ UNCHANGED <<adapter, next, cache>>

\* An HTTPError, caught by acquire, or any other exception, by acquire_safely.
FetchFails(t) ==
    /\ thread[t].pc = "streaming"
    /\ Answers(t, Unread("FETCH_FAILED", NoContent, "NONE"))
    /\ UNCHANGED <<adapter, next, cache>>

-----------------------------------------------------------------------------
(* The OCR adapters, extract_pdf *)

\* What a runtime makes of the first n pages of x.
OcrText ==
    [runtime \in {"MACOS_VISION_OCR", "TESSERACT_OCR"} |-> [x \in Content |->
       LET reading(i) == IF runtime = "TESSERACT_OCR" THEN Heading \o Pages[x][i] ELSE Pages[x][i]
       IN  [n \in 0..Len(Pages[x]) |-> Stripped(Joined([i \in 1..n |-> reading(i)]))]]]

\* A reading that has text is used; one without, or an exception, is not.
Reads(t, text) ==
    LET x == thread[t].content
    IN  Answers(t, Inspected(x, IF Stripped(text) = <<>> THEN MethodOf(x) ELSE adapter,
                             text, FALSE))

OcrLookup(t) ==
    /\ thread[t].pc = "ocr"
    /\ IF cache[thread[t].content] # NoReading
         THEN Reads(t, cache[thread[t].content])
         ELSE /\ Goes(t, IF adapter = "MACOS_VISION_OCR" THEN "vision" ELSE "rendering")
              /\ UNCHANGED <<answers, intake>>
    /\ UNCHANGED <<adapter, next, cache>>

\* Two threads that read the same bytes both put the result into the cache.
Completes(t, text) ==
    /\ Reads(t, text)
    /\ cache' = [cache EXCEPT ![thread[t].content] = text]
    /\ UNCHANGED <<adapter, next>>

\* MacOSVisionOCR: one process for all pages.
VisionReads(t) ==
    /\ thread[t].pc = "vision"
    /\ LET x == thread[t].content IN Completes(t, OcrText[adapter][x][Len(Pages[x])])

\* TesseractOCR: pdftoppm, then a process for each page, against one deadline.
Renders(t) ==
    /\ thread[t].pc = "rendering"
    /\ Pages[thread[t].content] # <<>>
    /\ \E duration \in 1..TimeLimit :
         thread' = [thread EXCEPT ![t].pc = "reading", ![t].elapsed = duration]
    /\ UNCHANGED <<adapter, next, answers, cache, intake>>

\* Mutant: each page has the whole limit.
RemainingPerPage(t) == TimeLimit
Remaining(t) == TimeLimit - thread[t].elapsed

ReadsPage(t) ==
    /\ thread[t].pc = "reading"
    /\ \E duration \in 1..Remaining(t) :
         LET x == thread[t].content
             read == thread[t].read + 1
         IN  IF read = Len(Pages[x])
               THEN Completes(t, OcrText[adapter][x][read])
               ELSE /\ thread' = [thread EXCEPT ![t].read = read,
                                                ![t].elapsed = thread[t].elapsed + duration]
                    /\ UNCHANGED <<adapter, next, answers, cache, intake>>

\* A process fails or is killed at its timeout, or there is no time left or no page:
\* the exception ends the reading and becomes a field of the result.
OcrFails(t) ==
    /\ thread[t].pc \in {"vision", "rendering", "reading"}
    /\ LET x == thread[t].content IN Answers(t, Inspected(x, MethodOf(x), <<>>, TRUE))
    /\ UNCHANGED <<adapter, next, cache>>

-----------------------------------------------------------------------------
(* The reviewer's document, from an excerpt *)

\* A bound: imports are considered once the pool is done.  To the adapter the
\* importing request is one more thread.
PoolDone == next > Sources /\ \A t \in Thread : thread[t].pc = "idle"

Proposes(mode, excerpt, spans) ==
    intake' = [intake EXCEPT !.pc = "proposed", !.mode = mode, !.excerpt = Stripped(excerpt),
                             !.proposals = {Finalized(s, Stripped(excerpt)) : s \in spans}]

\* The model has answered, and every item of the answer could be finalized.
ExtractAssisted ==
    /\ PoolDone /\ intake.pc = "none"
    /\ \E excerpt \in Excerpt, spans \in SUBSET ModelSpan : Proposes("assisted", excerpt, spans)
    /\ UNCHANGED <<adapter, next, thread, answers, cache>>

\* There is no model, or it has failed, or an item of its answer: nothing of it is
\* used.  Which sentences the table of keywords picks is left open.
ExtractDeterministic ==
    /\ PoolDone /\ intake.pc = "none"
    /\ \E excerpt \in Excerpt :
         \E spans \in SUBSET Sentences(Stripped(excerpt)) : Proposes("deterministic", excerpt, spans)
    /\ UNCHANGED <<adapter, next, thread, answers, cache>>

\* The reviewer posts some of the proposals; a document has one assertion at
\* least, and an assertion a source_text.
Confirm ==
    /\ intake.pc = "proposed"
    /\ \E chosen \in (SUBSET intake.proposals) \ {{}} :
         /\ \A p \in chosen : p.span # <<>>
         /\ intake' = [intake EXCEPT !.pc = "confirmed", !.proposals = chosen]
    /\ UNCHANGED <<adapter, next, thread, answers, cache>>

\* import_source_artifact up to its call of replace_source_acquisition.  What
\* is too large is refused before it is inspected (413).
Import ==
    /\ intake.pc = "confirmed" /\ thread[Importer].pc = "idle"
    /\ \E x \in Content : Size[x] <= MaxBytes /\ Inspect(Importer, x, TRUE)
    /\ UNCHANGED <<adapter, next, cache>>

-----------------------------------------------------------------------------
OcrStep(t) == OcrLookup(t) \/ VisionReads(t) \/ Renders(t) \/ ReadsPage(t) \/ OcrFails(t)

\* What a thread does next: a read of a response ends at the latest with the
\* timeout of the client, a process of the adapter with its own.
ThreadStep(t) == Start(t) \/ Chunk(t) \/ BodyEnds(t) \/ FetchFails(t) \/ OcrStep(t)

Next ==
    \/ \E t \in Thread \cup {Importer} : ThreadStep(t)
    \/ ExtractAssisted \/ ExtractDeterministic \/ Confirm \/ Import

Spec == Init /\ [][Next]_vars
FairSpec == Spec /\ \A t \in Thread \cup {Importer} : WF_vars(ThreadStep(t))

-----------------------------------------------------------------------------
(* What the results are worth *)

\* The whole text of the bytes x, as a result with this method has read it.
WholeText(x, method) ==
    IF method = "TESSERACT_OCR"
      THEN Stripped(Joined([i \in DOMAIN Pages[x] |-> Heading \o Pages[x][i]]))
      ELSE Stripped(Joined(Pages[x]))

\* A result is that of its own document, whichever thread was first and whatever
\* happened to the others; and a verdict is of everything that the bytes say:
\* never of some of the pages, a challenge, an error page or a reading that ended
\* early (acquire_all, _inspect_response, extract_pdf).
AnswersAreTheirOwn ==
    \A d \in Slot :
        answers[d] # Pending =>
            LET answer == answers[d]
                x == answer.content
            IN  /\ answer.status = "NO_SOURCE_URI" <=> SourceUri[d] = "NONE"
                /\ answer.status = "REJECTED_URI" <=> SourceUri[d] = "REJECTED"
                /\ x # NoContent => x \in Served[d]
                /\ VerdictOf(Quotes[d], answer) # "NOT_RUN" =>
                     /\ x # NoContent /\ Form[x] # "CHALLENGE" /\ ~answer.error
                     /\ Stripped(answer.text) = WholeText(x, answer.method)

\* The words of a text, whatever separates them.
Starts(text) == {i \in Letters(text) : i - 1 \notin Letters(text)}
WordFrom(text, i) == SubSeq(text, i, Max({j \in i..Len(text) : i..j \subseteq Letters(text)}))
Words(text) ==
    [n \in 1..Cardinality(Starts(text)) |-> WordFrom(text, Place(Starts(text), n))]

\* What was shown as a verbatim quote of the excerpt, and confirmed, is found in the
\* source that has the words of the excerpt, of which there are some, however they are
\* laid out there: the two checks compare text in different ways (_finalize,
\* _verify_assertions).
QuotedSpanIsFound ==
    LET x == intake.result.content
    IN  (/\ intake.pc = "imported" /\ x # NoContent
         /\ intake.result.method \in {"PDF_TEXT", "HTML_TEXT", "PLAIN_TEXT"}
         /\ Words(intake.excerpt) \in SubSeqs(Words(Joined(Pages[x]))) \ {<<>>}
         /\ \A p \in intake.proposals : p.verified)
            => VerdictOf({p.span : p \in intake.proposals}, intake.result) = "VERIFIED"

\* Acquisition failure is data: every document is answered in the end, also when a
\* host never stops sending, fails or refuses, or a process hangs (DESIGN.md).
EveryDocumentIsAnswered == \A d \in Slot : <>(answers[d] # Pending)
=============================================================================
