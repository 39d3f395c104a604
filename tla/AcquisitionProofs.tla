-------------------------- MODULE AcquisitionProofs --------------------------
(***************************************************************************)
(* What a reading of a source is worth, for any documents, hosts, bytes,   *)
(* threads and OCR runtime.  The invariant says whose document a thread    *)
(* works on, that what it reads with OCR is a scan which that document's   *)
(* host sent, and that the cache has complete readings only.  Texts are    *)
(* finite sequences; what is built from them place by place is reasoned    *)
(* about with the least number for which it would go wrong.  A text that   *)
(* is quoted stays one when it is normalized because the places that are   *)
(* kept of it go, in order and without a gap, to places kept of the other. *)
(***************************************************************************)
EXTENDS Acquisition, SequenceTheorems, FiniteSetTheorems, WellFoundedInduction, TLAPS

\* Some numbers have a least one.
LEMMA LeastNumber ==
    ASSUME NEW S \in SUBSET Nat, S # {}
    PROVE  \E n \in S : \A m \in S : n <= m
<1> DEFINE R == {p \in Nat \X Nat : p[1] < p[2]}
<1>1. IsWellFoundedOn(R, Nat)
  BY NatLessThanWellFounded DEF OpToRel
<1> HIDE DEF R
<1>2. PICK n \in S : \A m \in S : <<m, n>> \notin R
  BY <1>1, WFMin
<1>3. \A m \in S : ~ (m < n)
  BY <1>2 DEF R
<1> QED
  BY <1>3

\* Some places of a sequence have a first and a last one.
LEMMA FirstAndLast ==
    ASSUME NEW n \in Nat, NEW S \in SUBSET (1..n), S # {}
    PROVE  /\ Min(S) \in S /\ \A i \in S : Min(S) <= i
           /\ Max(S) \in S /\ \A i \in S : i <= Max(S)
<1>1. \E i \in S : \A j \in S : i <= j
  BY LeastNumber
<1>2. \E i \in S : \A j \in S : i >= j
  <2> DEFINE T == {n - i : i \in S}
  <2>0. T \in SUBSET Nat /\ T # {}
    <3>1. \A i \in S : n - i \in Nat
      OBVIOUS
    <3> QED
      BY <3>1
  <2>1. PICK m \in T : \A k \in T : m <= k
    <3> HIDE DEF T
    <3> QED
      BY <2>0, LeastNumber
  <2>2. PICK i \in S : m = n - i
    BY <2>1
  <2>3. ASSUME NEW j \in S PROVE i >= j
    <3>1. n - j \in T /\ n - j \in Nat /\ n - i \in Nat
      OBVIOUS
    <3> QED
      BY <2>1, <2>2, <3>1
  <2> QED
    BY <2>3
<1> QED
  BY <1>1, <1>2 DEF Min, Max

\* Texts laid end to end are a text.
LEMMA FlattenedIsSeq ==
    ASSUME NEW S, NEW seqs \in Seq(Seq(S))
    PROVE  FlattenSeq(seqs) \in Seq(S)
<1> DEFINE Step(f, i) == IF i = 1 THEN seqs[i] ELSE f[i - 1] \o seqs[i]
           N == Len(seqs)
           Flattens(f, n) == f = [i \in 1..n |-> Step(f, i)]
           flatten == CHOOSE f : f = [i \in 1..N |-> Step(f, i)]
<1>1. N \in Nat /\ \A i \in 1..N : seqs[i] \in Seq(S)
  OBVIOUS
<1>2. CASE N = 0
  BY <1>2 DEF FlattenSeq
<1>3. CASE N # 0
  <2>1. FlattenSeq(seqs) = flatten[N]
    BY <1>3 DEF FlattenSeq
  <2>2. \A n \in 0..N : \E f : Flattens(f, n)
    <3> DEFINE Bad == {n \in 0..N : ~ \E f : Flattens(f, n)}
    <3> SUFFICES ASSUME Bad # {} PROVE FALSE
      OBVIOUS
    <3>0. Bad \in SUBSET Nat
      <4>1. Bad \subseteq 0..N
        <5> HIDE DEF Flattens
        <5> QED
          OBVIOUS
      <4>2. 0..N \subseteq Nat
        BY <1>1
      <4> HIDE DEF Bad
      <4> QED
        BY <4>1, <4>2
    <3>1. PICK b \in Bad : \A n \in Bad : b <= n
      <4> HIDE DEF Bad
      <4> QED
        BY <3>0, LeastNumber
    <3>2. b # 0
      <4>1. Flattens([i \in 1..0 |-> 0], 0)
        OBVIOUS
      <4> QED
        BY <4>1
    <3>3. b - 1 \in 0..N /\ b - 1 \notin Bad
      <4>1. b \in 0..N
        OBVIOUS
      <4>2. b - 1 \in 0..N /\ ~ (b <= b - 1)
        BY <1>1, <3>2, <4>1
      <4> QED
        BY <3>1, <4>2
    <3>4. PICK f : Flattens(f, b - 1)
      BY <3>3
    <3> DEFINE g == [i \in 1..b |-> Step(f, i)]
    <3>5. \A i \in 1..b - 1 : f[i] = Step(f, i)
      BY <3>4
    <3>6. \A i \in 1..b : i # 1 => g[i - 1] = f[i - 1]
      BY <3>1, <3>5
    <3>7. Flattens(g, b)
      BY <3>6
    <3> QED
      BY <3>1, <3>7
  <2>3. Flattens(flatten, N)
    <3>1. PICK f : Flattens(f, N)
      BY <1>1, <2>2, N \in 0..N
    <3> QED
      BY <3>1
  <2> HIDE DEF flatten
  <2>4. \A i \in 1..N : flatten[i] \in Seq(S)
    <3> DEFINE Bad == {i \in 1..N : flatten[i] \notin Seq(S)}
    <3> SUFFICES ASSUME Bad # {} PROVE FALSE
      OBVIOUS
    <3>0. Bad \in SUBSET Nat
      BY <1>1
    <3>1. PICK b \in Bad : \A i \in Bad : b <= i
      <4> HIDE DEF Bad
      <4> QED
        BY <3>0, LeastNumber
    <3>2. b \in 1..N /\ flatten[b] \notin Seq(S)
      BY <3>1
    <3>3. flatten[b] = IF b = 1 THEN seqs[b] ELSE flatten[b - 1] \o seqs[b]
      BY <2>3, <3>2
    <3>4. b # 1 => flatten[b - 1] \in Seq(S)
      <4>1. b # 1 => b - 1 \in 1..N /\ ~ (b <= b - 1)
        BY <1>1, <3>2
      <4> QED
        BY <3>1, <4>1
    <3>5. seqs[b] \in Seq(S)
      BY <1>1, <3>2
    <3> QED
      BY <3>2, <3>3, <3>4, <3>5
  <2> QED
    BY <1>1, <1>3, <2>1, <2>4
<1> QED
  BY <1>2, <1>3

-----------------------------------------------------------------------------
(* Texts *)

\* Without letters there is nothing to strip to.
LEMMA NothingStripped == Stripped(<<>>) = <<>>
BY DEF Stripped, Visible

\* What is stripped is a text, and has nothing more to strip.
LEMMA StrippedOnce ==
    ASSUME NEW text \in Text
    PROVE  Stripped(text) \in Text /\ Stripped(Stripped(text)) = Stripped(text)
<1>1. CASE Visible(text) = {}
  BY <1>1, NothingStripped DEF Stripped, Text
<1>2. CASE Visible(text) # {}
  <2>1. Len(text) \in Nat /\ DOMAIN text = 1..Len(text)
    BY DEF Text
  <2>2. PICK m, n \in Visible(text) :
          /\ m = Min(Visible(text)) /\ n = Max(Visible(text)) /\ m <= n
    <3>1. Visible(text) \in SUBSET (1..Len(text))
      BY <2>1 DEF Visible
    <3> HIDE DEF Visible
    <3> QED
      BY <1>2, <2>1, <3>1, FirstAndLast
  <2>3. m \in 1..Len(text) /\ n \in 1..Len(text) /\ text[m] # Blank /\ text[n] # Blank
    BY <2>1 DEF Visible
  <2> DEFINE u == SubSeq(text, m, n)
  <2>4. Stripped(text) = u
    BY <1>2, <2>2 DEF Stripped
  <2>5. u \in Text /\ Len(u) = n - m + 1 /\ \A i \in 1..n - m + 1 : u[i] = text[m + i - 1]
    <3>1. \A i \in m..n : text[i] \in Char
      BY <2>1, <2>3 DEF Text
    <3> QED
      BY <2>2, <2>3, <3>1, SubSeqProperties DEF Text
  <2> HIDE DEF u
  <2>6. Len(u) \in Nat /\ DOMAIN u = 1..Len(u) /\ 1 \in 1..Len(u) /\ Len(u) \in 1..Len(u)
    BY <2>2, <2>3, <2>5 DEF Text
  <2>7. u[1] # Blank /\ u[Len(u)] # Blank
    <3>1. m + 1 - 1 = m /\ m + (n - m + 1) - 1 = n
      BY <2>3
    <3> QED
      BY <2>3, <2>5, <2>6, <3>1
  <2>8. /\ Visible(u) \in SUBSET (1..Len(u)) /\ Visible(u) # {}
        /\ 1 \in Visible(u) /\ Len(u) \in Visible(u)
    BY <2>6, <2>7 DEF Visible
  <2>9. Min(Visible(u)) = 1 /\ Max(Visible(u)) = Len(u)
    <3> DEFINE V == Visible(u)
    <3>1. /\ Min(V) \in V /\ \A i \in V : Min(V) <= i
          /\ Max(V) \in V /\ \A i \in V : i <= Max(V)
      BY <2>6, <2>8, FirstAndLast
    <3> HIDE DEF V
    <3>2. Min(V) \in 1..Len(u) /\ Max(V) \in 1..Len(u) /\ Min(V) <= 1 /\ Len(u) <= Max(V)
      BY <2>8, <3>1 DEF V
    <3>3. Min(V) = 1 /\ Max(V) = Len(u)
      BY <2>6, <3>2
    <3> QED
      BY <3>3 DEF V
  <2>10. Stripped(u) = u
    BY <2>5, <2>8, <2>9, SubSeqFull DEF Stripped, Text
  <2> QED
    BY <2>4, <2>5, <2>10
<1> QED
  BY <1>1, <1>2

\* Pages are joined to a text.
LEMMA JoinedIsText ==
    ASSUME NEW pages \in Seq(Text)
    PROVE  Joined(pages) \in Text
<1> DEFINE spaced == [i \in DOMAIN pages |-> Append(pages[i], Blank)]
<1>1. \A i \in DOMAIN pages : Append(pages[i], Blank) \in Text
  BY DEF Text, Char
<1>2. spaced \in Seq(Text)
  <2>1. Len(pages) \in Nat /\ DOMAIN pages = 1..Len(pages)
    OBVIOUS
  <2>2. spaced \in [1..Len(pages) -> Text]
    BY <1>1, <2>1
  <2> HIDE DEF spaced
  <2> QED
    BY <2>1, <2>2, SeqDef
<1> QED
  BY <1>2, FlattenedIsSeq DEF Joined, Text

\* Sentences are texts.
LEMMA SentencesAreTexts ==
    ASSUME NEW excerpt \in Text
    PROVE  Sentences(excerpt) \subseteq Text
<1> SUFFICES ASSUME NEW s \in Sentences(excerpt) PROVE s \in Text
  OBVIOUS
<1>1. PICK p \in Int \X Int :
        /\ 0 <= p[1] /\ p[1] < p[2] /\ p[2] <= Len(excerpt) + 1
        /\ s = Stripped(SubSeq(excerpt, p[1] + 1, p[2] - 1))
  <2>1. Len(excerpt) \in Nat
    BY DEF Text
  <2> QED
    BY <2>1 DEF Sentences
<1>2. \A i \in p[1] + 1..p[2] - 1 : excerpt[i] \in Char
  BY <1>1 DEF Text
<1>3. SubSeq(excerpt, p[1] + 1, p[2] - 1) \in Text
  BY <1>1, <1>2, SubSeqProperties DEF Text
<1> QED
  BY <1>1, <1>3, StrippedOnce

-----------------------------------------------------------------------------
(* Readings *)

Runtime == {"MACOS_VISION_OCR", "TESSERACT_OCR"}

\* What bytes say is a text, and no bytes say nothing.
LEMMA WrittenText ==
    ASSUME NEW x \in Content
    PROVE  /\ Joined(Pages[x]) \in Text /\ TextOf[x] \in Text
           /\ Size[x] = 0 => Joined(Pages[x]) = <<>>
<1>1. Pages[x] \in Seq(Text)
  BY ContentAssumption
<1>2. Joined(Pages[x]) \in Text
  BY <1>1, JoinedIsText
<1>3. Pages[x] = <<>> => Joined(Pages[x]) = <<>>
  <2> SUFFICES ASSUME Pages[x] = <<>> PROVE Joined(Pages[x]) = <<>>
    OBVIOUS
  <2>1. [i \in DOMAIN Pages[x] |-> Append(Pages[x][i], Blank)] = <<>>
    OBVIOUS
  <2> QED
    BY <2>1 DEF Joined, FlattenSeq
<1> QED
  BY <1>2, <1>3, ContentAssumption DEF TextOf, Text

\* The pages of x as a runtime gives them.
Shown(runtime, x) ==
    IF runtime = "TESSERACT_OCR" THEN [i \in DOMAIN Pages[x] |-> Heading \o Pages[x][i]]
                                 ELSE Pages[x]

\* A reading of some pages is a text; one of all pages is the whole text, stripped,
\* and there is nothing to read in no bytes.
LEMMA ReadingOf ==
    ASSUME NEW runtime \in Runtime, NEW x \in Content
    PROVE  /\ \A n \in 0..Len(Pages[x]) : OcrText[runtime][x][n] \in Text
           /\ OcrText[runtime][x][Len(Pages[x])] = Stripped(Joined(Shown(runtime, x)))
           /\ WholeText(x, runtime) = Stripped(Joined(Shown(runtime, x)))
           /\ Size[x] = 0 => OcrText[runtime][x][Len(Pages[x])] = <<>>
<1> DEFINE reading(i) ==
              IF runtime = "TESSERACT_OCR" THEN Heading \o Pages[x][i] ELSE Pages[x][i]
<1>1. Pages[x] \in Seq(Text) /\ Len(Pages[x]) \in Nat /\ DOMAIN Pages[x] = 1..Len(Pages[x])
  BY ContentAssumption
<1>2. \A i \in 1..Len(Pages[x]) : reading(i) \in Text
  BY <1>1, ExcerptAssumption DEF Text
<1>3. ASSUME NEW n \in 0..Len(Pages[x])
      PROVE  OcrText[runtime][x][n] = Stripped(Joined([i \in 1..n |-> reading(i)]))
  BY DEF OcrText, Runtime
<1>4. ASSUME NEW n \in 0..Len(Pages[x])
      PROVE  OcrText[runtime][x][n] \in Text
  <2>1. [i \in 1..n |-> reading(i)] \in [1..n -> Text]
    BY <1>1, <1>2
  <2> HIDE DEF reading
  <2>2. [i \in 1..n |-> reading(i)] \in Seq(Text)
    BY <1>1, <2>1, SeqDef
  <2> QED
    BY <1>3, <2>2, JoinedIsText, StrippedOnce
<1>5. [i \in 1..Len(Pages[x]) |-> reading(i)] = Shown(runtime, x)
  <2>1. CASE runtime = "TESSERACT_OCR"
    BY <1>1, <2>1 DEF Shown
  <2>2. CASE runtime # "TESSERACT_OCR"
    <3>1. Pages[x] = [i \in 1..Len(Pages[x]) |-> Pages[x][i]]
      BY <1>1
    <3> QED
      BY <2>2, <3>1 DEF Shown
  <2> QED
    BY <2>1, <2>2
<1>6. Len(Pages[x]) \in 0..Len(Pages[x])
  BY <1>1
<1>7. OcrText[runtime][x][Len(Pages[x])] = Stripped(Joined(Shown(runtime, x)))
  <2> HIDE DEF reading
  <2> QED
    BY <1>3, <1>5, <1>6
<1>8. WholeText(x, runtime) = Stripped(Joined(Shown(runtime, x)))
  BY DEF WholeText, Shown
<1>9. ASSUME Size[x] = 0 PROVE Joined(Shown(runtime, x)) = <<>>
  <2>1. Pages[x] = <<>>
    BY <1>9, ContentAssumption
  <2>2. Shown(runtime, x) = <<>>
    BY <2>1 DEF Shown
  <2>3. [i \in DOMAIN <<>> |-> Append(<<>>[i], Blank)] = <<>>
    OBVIOUS
  <2> QED
    BY <2>2, <2>3 DEF Joined, FlattenSeq
<1> QED
  BY <1>4, <1>7, <1>8, <1>9, NothingStripped

-----------------------------------------------------------------------------
(* Answers *)

\* What AnswersAreTheirOwn says of the answer of d.
Own(d, answer) ==
    LET x == answer.content
    IN  /\ answer.status = "NO_SOURCE_URI" <=> SourceUri[d] = "NONE"
        /\ answer.status = "REJECTED_URI" <=> SourceUri[d] = "REJECTED"
        /\ x # NoContent => x \in Served[d]
        /\ VerdictOf(Quotes[d], answer) # "NOT_RUN" =>
             /\ x # NoContent /\ Form[x] # "CHALLENGE" /\ ~answer.error
             /\ Stripped(answer.text) = WholeText(x, answer.method)

\* There is no verdict on no text.
LEMMA NoTextNoVerdict ==
    ASSUME NEW spans, NEW answer, VerdictOf(spans, answer) # "NOT_RUN"
    PROVE  Stripped(answer.text) # <<>>
BY DEF VerdictOf, Verdict

\* A result without text is one of any document whose host may have sent the bytes.
LEMMA UnreadIsOwn ==
    ASSUME NEW status \in AcquisitionStatus, NEW x \in Received, NEW method \in Method
    PROVE  /\ Unread(status, x, method) \in Result
           /\ \A d \in Slot :
                (/\ x # NoContent => x \in Served[d]
                 /\ status = "NO_SOURCE_URI" <=> SourceUri[d] = "NONE"
                 /\ status = "REJECTED_URI" <=> SourceUri[d] = "REJECTED")
                   => Own(d, Unread(status, x, method))
<1> DEFINE answer == Unread(status, x, method)
<1>1. /\ answer.status = status /\ answer.content = Fingerprint(x)
      /\ answer.method = method /\ answer.text = <<>> /\ answer.error = FALSE
  BY DEF Unread
<1>2. Fingerprint(x) \in Received /\ Fingerprint(x) \in {x, NoContent}
  BY DEF Fingerprint, Received
<1>3. answer \in Result
  BY <1>2 DEF Unread, Result, Text
<1>4. \A spans : VerdictOf(spans, answer) = "NOT_RUN"
  BY <1>1, NoTextNoVerdict, NothingStripped
<1> HIDE DEF answer
<1> QED
  BY <1>1, <1>2, <1>3, <1>4 DEF Own, answer

\* What was read of bytes is a result of any document whose host sent them, if it
\* is all of their text or nothing.
LEMMA InspectedIsOwn ==
    ASSUME NEW x \in Content, NEW method \in Method, NEW text \in Text, NEW error \in BOOLEAN,
           Stripped(text) # <<>> => /\ Form[x] # "CHALLENGE" /\ ~error /\ Size[x] # 0
                                    /\ Stripped(text) = WholeText(x, method)
    PROVE  /\ Inspected(x, method, text, error) \in Result
           /\ \A d \in Slot : (x \in Served[d] /\ SourceUri[d] = "ALLOWED")
                                 => Own(d, Inspected(x, method, text, error))
<1> DEFINE answer == Inspected(x, method, text, error)
<1>1. /\ answer.status = "FETCHED" /\ answer.content = Fingerprint(x)
      /\ answer.method = method /\ answer.text = text /\ answer.error = error
  BY DEF Inspected
<1>2. Fingerprint(x) \in Received /\ Fingerprint(x) \in {x, NoContent}
  BY DEF Fingerprint, Received
<1>3. answer \in Result
  BY <1>2 DEF Inspected, Result, AcquisitionStatus
<1>4. x # NoContent /\ (Size[x] # 0 => Fingerprint(x) = x)
  BY ContentAssumption DEF Fingerprint
<1>5. ASSUME NEW spans, VerdictOf(spans, answer) # "NOT_RUN"
      PROVE  /\ Fingerprint(x) = x /\ Form[x] # "CHALLENGE" /\ ~error
             /\ Stripped(text) = WholeText(x, method)
  BY <1>1, <1>4, <1>5, NoTextNoVerdict
<1> HIDE DEF answer
<1> QED
  BY <1>1, <1>2, <1>3, <1>4, <1>5 DEF Own, answer

\* What the bytes say by themselves, without OCR.
LEMMA PlainReading ==
    ASSUME NEW x \in Content
    PROVE  /\ MethodOf(x) \in Method
           /\ Form[x] # "CHALLENGE" =>
                /\ Inspected(x, MethodOf(x), TextOf[x], FALSE) \in Result
                /\ \A d \in Slot : (x \in Served[d] /\ SourceUri[d] = "ALLOWED")
                                 => Own(d, Inspected(x, MethodOf(x), TextOf[x], FALSE))
<1>1. MethodOf(x) \in Method /\ MethodOf(x) # "TESSERACT_OCR"
  BY DEF MethodOf, Method
<1>2. TextOf[x] \in Text
  BY WrittenText
<1>3. ASSUME Stripped(TextOf[x]) # <<>>
      PROVE  Size[x] # 0 /\ Stripped(TextOf[x]) = WholeText(x, MethodOf(x))
  <2>1. Form[x] \in {"PDF", "HTML", "PLAIN"} /\ TextOf[x] = Joined(Pages[x])
    BY <1>3, NothingStripped DEF TextOf
  <2> QED
    BY <1>1, <1>3, <2>1, WrittenText, NothingStripped DEF WholeText
<1> QED
  BY <1>1, <1>2, <1>3, InspectedIsOwn

\* A reading of all pages is used if it has text, and then is all of it.
LEMMA OcrReading ==
    ASSUME adapter \in Runtime, NEW x \in Content, Form[x] = "SCAN"
    PROVE  LET text == OcrText[adapter][x][Len(Pages[x])]
               method == IF Stripped(text) = <<>> THEN MethodOf(x) ELSE adapter
           IN  /\ Inspected(x, method, text, FALSE) \in Result
               /\ \A d \in Slot : (x \in Served[d] /\ SourceUri[d] = "ALLOWED")
                                     => Own(d, Inspected(x, method, text, FALSE))
<1> DEFINE text == OcrText[adapter][x][Len(Pages[x])]
           method == IF Stripped(text) = <<>> THEN MethodOf(x) ELSE adapter
<1>1. method \in Method
  BY PlainReading DEF Runtime, Method
<1>2. text \in Text
  <2>1. Len(Pages[x]) \in 0..Len(Pages[x])
    BY ContentAssumption
  <2> QED
    BY <2>1, ReadingOf
<1>3. Joined(Shown(adapter, x)) \in Text
  <2>1. Pages[x] \in Seq(Text)
    BY ContentAssumption
  <2>2. Shown(adapter, x) \in Seq(Text)
    <3>1. CASE adapter = "TESSERACT_OCR"
      <4>1. \A i \in 1..Len(Pages[x]) : Heading \o Pages[x][i] \in Text
        BY <2>1, ExcerptAssumption DEF Text
      <4>2. /\ Shown(adapter, x) \in [1..Len(Pages[x]) -> Text]
            /\ Len(Pages[x]) \in Nat
        BY <2>1, <3>1, <4>1 DEF Shown
      <4> QED
        BY <4>2, SeqDef
    <3> QED
      BY <2>1, <3>1 DEF Shown
  <2> QED
    BY <2>2, JoinedIsText
<1>4. Stripped(text) = WholeText(x, adapter)
  BY <1>3, ReadingOf, StrippedOnce
<1>5. Stripped(text) # <<>> => Size[x] # 0 /\ method = adapter
  BY ReadingOf, NothingStripped
<1> HIDE DEF text, method
<1>6. Inspected(x, method, text, FALSE) \in Result
      /\ \A d \in Slot : (x \in Served[d] /\ SourceUri[d] = "ALLOWED")
                            => Own(d, Inspected(x, method, text, FALSE))
  BY <1>1, <1>2, <1>4, <1>5, InspectedIsOwn
<1> QED
  BY <1>6 DEF text, method

\* A reading that failed has no text.
LEMMA FailedReading ==
    ASSUME NEW x \in Content
    PROVE  /\ Inspected(x, MethodOf(x), <<>>, TRUE) \in Result
           /\ \A d \in Slot : (x \in Served[d] /\ SourceUri[d] = "ALLOWED")
                                 => Own(d, Inspected(x, MethodOf(x), <<>>, TRUE))
<1>1. <<>> \in Text
  BY DEF Text
<1>2. MethodOf(x) \in Method
  BY PlainReading
<1> QED
  BY <1>1, <1>2, InspectedIsOwn, NothingStripped

-----------------------------------------------------------------------------
(* The invariant *)

Everyone == Thread \cup {Importer}
InOcr == {"ocr", "vision", "rendering", "reading"}

\* A thread of the pool works on a document that may be fetched, and who is reading
\* with OCR has a scan that its host sent, and a page of it left.
ThreadSound(t, s) ==
    /\ s.pc = "streaming" => t \in Thread
    /\ (s.pc # "idle" /\ t \in Thread) =>
         /\ s.document \in Slot
         /\ SourceUri[s.document] = "ALLOWED"
    /\ s.pc \in InOcr =>
         /\ adapter \in Runtime
         /\ s.content \in Content
         /\ Form[s.content] = "SCAN"
         /\ t \in Thread => s.content \in Served[s.document]
    /\ s.pc # "reading" => s.read = 0
    /\ s.pc = "reading" => s.read < Len(Pages[s.content])

ThreadsSound == \A t \in Everyone : ThreadSound(t, thread[t])

\* The cache has readings of all pages only, by the adapter that the host has.
CacheSound ==
    \A x \in Content : cache[x] # NoReading =>
        adapter \in Runtime /\ cache[x] = OcrText[adapter][x][Len(Pages[x])]

IntakeInv == AcquisitionTypeOK /\ ThreadsSound /\ CacheSound /\ AnswersAreTheirOwn

\* Every answer there is, is that of its document.
LEMMA AllOwn ==
    AnswersAreTheirOwn <=> \A d \in Slot : answers[d] # Pending => Own(d, answers[d])
BY DEF AnswersAreTheirOwn, Own

LEMMA InitSound == Init => IntakeInv
<1> SUFFICES ASSUME Init PROVE IntakeInv
  OBVIOUS
<1>1. IdleThread \in ThreadState
  BY LimitAssumption, SourcesAssumption DEF IdleThread, ThreadState, Received
<1>2. intake \in IntakeState
  BY DEF Init, IntakeState, Text
<1>3. AcquisitionTypeOK
  BY <1>1, <1>2, SourcesAssumption DEF Init, AcquisitionTypeOK
<1>4. ThreadsSound
  BY DEF Init, ThreadsSound, ThreadSound, IdleThread, Everyone, InOcr
<1> QED
  BY <1>3, <1>4 DEF Init, CacheSound, AnswersAreTheirOwn, IntakeInv

\* A thread that goes from one sound state to another leaves the others as they are.
LEMMA ThreadMoves ==
    ASSUME IntakeInv, NEW t \in Everyone, NEW s \in ThreadState, ThreadSound(t, s),
           thread' = [thread EXCEPT ![t] = s], UNCHANGED adapter
    PROVE  thread' \in [Everyone -> ThreadState] /\ ThreadsSound'
<1>1. thread \in [Everyone -> ThreadState]
  BY DEF IntakeInv, AcquisitionTypeOK, Everyone
<1>2. \A other \in Everyone : thread'[other] = IF other = t THEN s ELSE thread[other]
  BY <1>1
<1>3. ASSUME NEW other \in Everyone, NEW state, ThreadSound(other, state)
      PROVE  ThreadSound(other, state)'
  BY <1>3 DEF ThreadSound
<1>4. \A other \in Everyone : ThreadSound(other, thread'[other])
  BY <1>2 DEF IntakeInv, ThreadsSound
<1>5. \A other \in Everyone : ThreadSound(other, thread[other])'
  BY <1>4 DEF ThreadSound
<1> QED
  BY <1>1, <1>5 DEF ThreadsSound

\* The answer of a thread goes to its document, that of the import to the intake.
LEMMA AnswersSound ==
    ASSUME IntakeInv, NEW t \in Everyone, NEW result \in Result,
           t \in Thread => /\ thread[t].document \in Slot
                           /\ Own(thread[t].document, result),
           Answers(t, result), UNCHANGED <<adapter, next>>
    PROVE  /\ answers' \in [Slot -> Result \cup {Pending}]
           /\ intake' \in IntakeState
           /\ thread' \in [Everyone -> ThreadState]
           /\ ThreadsSound' /\ AnswersAreTheirOwn'
<1>1. IdleThread \in ThreadState /\ ThreadSound(t, IdleThread)
  BY LimitAssumption, SourcesAssumption
     DEF IdleThread, ThreadState, Received, ThreadSound, InOcr
<1>2. thread' = [thread EXCEPT ![t] = IdleThread]
  BY DEF Answers
<1>3. thread' \in [Everyone -> ThreadState] /\ ThreadsSound'
  BY <1>1, <1>2, ThreadMoves
<1>4. answers \in [Slot -> Result \cup {Pending}] /\ intake \in IntakeState
      /\ \A d \in Slot : answers[d] # Pending => Own(d, answers[d])
  BY AllOwn DEF IntakeInv, AcquisitionTypeOK
<1>5. CASE t = Importer
  <2>1. answers' = answers /\ intake' = [intake EXCEPT !.pc = "imported", !.result = result]
    BY <1>5 DEF Answers
  <2>2. intake' \in IntakeState
    BY <1>4, <2>1 DEF IntakeState
  <2>3. AnswersAreTheirOwn'
    BY <2>1 DEF IntakeInv, AnswersAreTheirOwn
  <2> QED
    BY <1>3, <1>4, <2>1, <2>2, <2>3
<1>6. CASE t # Importer
  <2>1. t \in Thread
    BY <1>6 DEF Everyone
  <2>2. PICK d \in Slot : d = thread[t].document
    BY <2>1
  <2>3. answers' = [answers EXCEPT ![d] = result] /\ intake' = intake
    BY <1>6, <2>2 DEF Answers
  <2>4. answers' \in [Slot -> Result \cup {Pending}]
    BY <1>4, <2>3
  <2>5. \A o \in Slot : answers'[o] = IF o = d THEN result ELSE answers[o]
    BY <1>4, <2>3
  <2>6. \A o \in Slot : answers'[o] # Pending => Own(o, answers'[o])
    BY <1>4, <2>1, <2>2, <2>5
  <2>7. AnswersAreTheirOwn'
    BY <2>6 DEF AnswersAreTheirOwn, Own
  <2> QED
    BY <1>3, <1>4, <2>3, <2>4, <2>7
<1> QED
  BY <1>5, <1>6

-----------------------------------------------------------------------------
(* Each step keeps it *)

\* What is assumed of a thread, from the invariant.
LEMMA ThreadTyped ==
    ASSUME IntakeInv, NEW t \in Everyone
    PROVE  thread \in [Everyone -> ThreadState] /\ thread[t] \in ThreadState
           /\ ThreadSound(t, thread[t])
BY DEF IntakeInv, AcquisitionTypeOK, Everyone, ThreadsSound

\* A step of one thread that gives no answer and caches nothing.
LEMMA ThreadGoesOn ==
    ASSUME IntakeInv, NEW t \in Everyone, NEW s \in ThreadState, ThreadSound(t, s),
           thread' = [thread EXCEPT ![t] = s], next' \in 1..Sources + 1,
           UNCHANGED <<adapter, answers, cache, intake>>
    PROVE  IntakeInv'
<1>1. thread' \in [Everyone -> ThreadState] /\ ThreadsSound'
  BY ThreadMoves
<1>2. AcquisitionTypeOK'
  BY <1>1 DEF IntakeInv, AcquisitionTypeOK, Everyone
<1>3. CacheSound' /\ AnswersAreTheirOwn'
  BY DEF IntakeInv, CacheSound, AnswersAreTheirOwn
<1> QED
  BY <1>1, <1>2, <1>3 DEF IntakeInv

\* A step that ends with an answer, and may have put a reading into the cache.
LEMMA ThreadAnswers ==
    ASSUME IntakeInv, NEW t \in Everyone, NEW result \in Result,
           t \in Thread => Own(thread[t].document, result), thread[t].pc # "idle" \/ t = Importer,
           Answers(t, result), UNCHANGED <<adapter, next>>,
           cache' \in [Content -> Text \cup {NoReading}], CacheSound'
    PROVE  IntakeInv'
<1>1. t \in Thread => thread[t].document \in Slot
  BY ThreadTyped, ThreadAssumption DEF ThreadSound
<1>2. /\ answers' \in [Slot -> Result \cup {Pending}] /\ intake' \in IntakeState
      /\ thread' \in [Everyone -> ThreadState] /\ ThreadsSound' /\ AnswersAreTheirOwn'
  BY <1>1, AnswersSound
<1>3. AcquisitionTypeOK'
  BY <1>2 DEF IntakeInv, AcquisitionTypeOK, Everyone
<1> QED
  BY <1>2, <1>3 DEF IntakeInv

\* The cache stays sound when nothing is read.
LEMMA CacheKept ==
    ASSUME IntakeInv, UNCHANGED <<adapter, cache>>
    PROVE  CacheSound' /\ cache' \in [Content -> Text \cup {NoReading}]
BY DEF IntakeInv, AcquisitionTypeOK, CacheSound

LEMMA StartSound == ASSUME IntakeInv, NEW t \in Everyone, Start(t) PROVE IntakeInv'
<1>1. /\ t \in Thread /\ next \in Slot /\ next' = next + 1 /\ next' \in 1..Sources + 1
      /\ UNCHANGED <<adapter, cache, intake>>
  BY SourcesAssumption DEF Start, IntakeInv, AcquisitionTypeOK, Slot
<1>2. CASE SourceUri[next] = "ALLOWED"
  <2> DEFINE s == [thread[t] EXCEPT !.pc = "streaming", !.document = next]
  <2>1. thread' = [thread EXCEPT ![t] = s] /\ answers' = answers
    BY <1>2, ThreadTyped DEF Start
  <2>2. s \in ThreadState
    <3>1. thread[t] \in ThreadState /\ next \in 0..Sources
      BY <1>1, ThreadTyped, SourcesAssumption DEF Slot
    <3> QED
      BY <3>1 DEF ThreadState
  <2>3. s.pc = "streaming" /\ s.document = next /\ s.read = thread[t].read
    BY ThreadTyped DEF ThreadState
  <2>4. thread[t].pc = "idle"
    BY DEF Start
  <2> HIDE DEF s
  <2>5. ThreadSound(t, s)
    BY <1>1, <1>2, <2>3, <2>4, ThreadTyped DEF ThreadSound, InOcr
  <2> QED
    BY <1>1, <2>1, <2>2, <2>5, ThreadGoesOn
<1>3. CASE SourceUri[next] # "ALLOWED"
  <2>1. PICK status \in {"NO_SOURCE_URI", "REJECTED_URI"} :
          /\ answers' = [answers EXCEPT ![next] = Unread(status, NoContent, "NONE")]
          /\ status = "NO_SOURCE_URI" <=> SourceUri[next] = "NONE"
          /\ status = "REJECTED_URI" <=> SourceUri[next] = "REJECTED"
    BY <1>1, <1>3, SourcesAssumption DEF Start
  <2>2. PICK result \in Result : /\ result = Unread(status, NoContent, "NONE")
                                 /\ Own(next, result)
    <3>1. status \in AcquisitionStatus /\ NoContent \in Received /\ "NONE" \in Method
      BY DEF AcquisitionStatus, Received, Method
    <3> QED
      BY <1>1, <2>1, <3>1, UnreadIsOwn
  <2>3. answers \in [Slot -> Result \cup {Pending}] /\ thread' = thread
    BY <1>3 DEF Start, IntakeInv, AcquisitionTypeOK
  <2>4. answers' \in [Slot -> Result \cup {Pending}]
    BY <2>1, <2>2, <2>3
  <2>5. \A d \in Slot : answers'[d] # Pending => Own(d, answers'[d])
    BY <1>1, <2>1, <2>2, <2>3, AllOwn DEF IntakeInv
  <2>6. AnswersAreTheirOwn'
    BY <2>5 DEF AnswersAreTheirOwn, Own
  <2>7. AcquisitionTypeOK'
    BY <1>1, <2>3, <2>4 DEF IntakeInv, AcquisitionTypeOK
  <2>8. ThreadsSound' /\ CacheSound'
    BY <1>1, <2>3 DEF IntakeInv, ThreadsSound, ThreadSound, CacheSound
  <2> QED
    BY <2>6, <2>7, <2>8 DEF IntakeInv
<1> QED
  BY <1>2, <1>3

\* Nothing was read: too much of it, or a failure, or a page that is not the source.
LEMMA UnreadSound ==
    ASSUME IntakeInv, NEW t \in Everyone, NEW x \in Received, NEW method \in Method,
           NEW status \in {"TOO_LARGE", "FETCH_FAILED", "ACCESS_CHALLENGE", "HTTP_ERROR"},
           thread[t].pc # "idle" \/ t = Importer,
           (t \in Thread /\ x # NoContent) => x \in Served[thread[t].document],
           Answers(t, Unread(status, x, method)), UNCHANGED <<adapter, next, cache>>
    PROVE  IntakeInv'
<1>1. status \in AcquisitionStatus
  BY DEF AcquisitionStatus
<1>2. PICK result \in Result : result = Unread(status, x, method)
  BY <1>1, UnreadIsOwn
<1>3. t \in Thread => Own(thread[t].document, result)
  <2> SUFFICES ASSUME t \in Thread PROVE Own(thread[t].document, result)
    OBVIOUS
  <2>1. PICK d \in Slot : d = thread[t].document /\ SourceUri[d] = "ALLOWED"
    BY ThreadTyped, ThreadAssumption DEF ThreadSound
  <2> QED
    BY <1>1, <1>2, <2>1, UnreadIsOwn
<1> QED
  BY <1>2, <1>3, CacheKept, ThreadAnswers

\* Bytes have arrived, and are those that the host of the document sent.
LEMMA InspectSound ==
    ASSUME IntakeInv, NEW t \in Everyone, NEW x \in Content, NEW success \in BOOLEAN,
           thread[t].pc = "streaming" \/ (t = Importer /\ thread[t].pc = "idle"),
           t \in Thread => x \in Served[thread[t].document],
           Inspect(t, x, success), UNCHANGED <<adapter, next, cache>>
    PROVE  IntakeInv'
<1>1. CASE success /\ NeedsOcr(x)
  <2> DEFINE s == [thread[t] EXCEPT !.pc = "ocr", !.content = x, !.received = 0]
  <2>1. thread' = [thread EXCEPT ![t] = s] /\ UNCHANGED <<answers, intake>>
    BY <1>1, ThreadTyped DEF Inspect
  <2>2. adapter \in Runtime /\ Form[x] = "SCAN"
    BY <1>1 DEF NeedsOcr, Runtime, IntakeInv, AcquisitionTypeOK
  <2>3. s \in ThreadState
    <3>1. thread[t] \in ThreadState /\ 0 \in 0..MaxBytes /\ x \in Received
      BY ThreadTyped, LimitAssumption DEF Received
    <3> QED
      BY <3>1 DEF ThreadState
  <2>4. s.pc = "ocr" /\ s.content = x /\ s.document = thread[t].document
        /\ s.read = thread[t].read
    BY ThreadTyped DEF ThreadState
  <2> HIDE DEF s
  <2>5. ThreadSound(t, s)
    BY <2>2, <2>4, ThreadTyped, ThreadAssumption DEF ThreadSound, InOcr
  <2>6. next' \in 1..Sources + 1
    BY DEF IntakeInv, AcquisitionTypeOK
  <2> QED
    BY <2>1, <2>3, <2>5, <2>6, ThreadGoesOn
<1>2. CASE ~(success /\ NeedsOcr(x))
  <2>1. thread[t].pc # "idle" \/ t = Importer
    OBVIOUS
  <2>2. x \in Received /\ "BLOCKED_HTML" \in Method /\ "NONE" \in Method
    BY DEF Received, Method
  <2>3. CASE Form[x] = "CHALLENGE"
    <3>1. Answers(t, Unread("ACCESS_CHALLENGE", x, "BLOCKED_HTML"))
      BY <1>2, <2>3 DEF Inspect
    <3> QED
      BY <2>1, <2>2, <3>1, UnreadSound
  <2>4. CASE Form[x] # "CHALLENGE" /\ ~success
    <3>1. Answers(t, Unread("HTTP_ERROR", x, "NONE"))
      BY <1>2, <2>4 DEF Inspect
    <3> QED
      BY <2>1, <2>2, <3>1, UnreadSound
  <2>5. CASE Form[x] # "CHALLENGE" /\ success
    <3>1. Answers(t, Inspected(x, MethodOf(x), TextOf[x], FALSE))
      BY <1>2, <2>5 DEF Inspect
    <3>2. PICK result \in Result : result = Inspected(x, MethodOf(x), TextOf[x], FALSE)
      BY <2>5, PlainReading
    <3>3. t \in Thread => Own(thread[t].document, result)
      <4>1. t \in Thread => /\ thread[t].document \in Slot
                            /\ SourceUri[thread[t].document] = "ALLOWED"
        BY <2>1, ThreadTyped, ThreadAssumption DEF ThreadSound
      <4> QED
        BY <2>5, <3>2, <4>1, PlainReading
    <3> QED
      BY <2>1, <3>1, <3>2, <3>3, CacheKept, ThreadAnswers
  <2> QED
    BY <2>3, <2>4, <2>5
<1> QED
  BY <1>1, <1>2

LEMMA ChunkSound == ASSUME IntakeInv, NEW t \in Everyone, Chunk(t) PROVE IntakeInv'
<1>1. thread[t].pc = "streaming" /\ UNCHANGED <<adapter, next, cache>>
  BY DEF Chunk
<1>2. CASE thread[t].received < MaxBytes
  <2> DEFINE s == [thread[t] EXCEPT !.received = thread[t].received + 1]
  <2>1. thread' = [thread EXCEPT ![t] = s] /\ UNCHANGED <<answers, intake>>
    BY <1>2, ThreadTyped DEF Chunk
  <2>2. s \in ThreadState
    <3>1. thread[t] \in ThreadState /\ thread[t].received + 1 \in 0..MaxBytes
      BY <1>2, ThreadTyped, LimitAssumption DEF ThreadState
    <3> QED
      BY <3>1 DEF ThreadState
  <2>3. s.pc = "streaming" /\ s.document = thread[t].document /\ s.read = thread[t].read
    BY <1>1, ThreadTyped DEF ThreadState
  <2> HIDE DEF s
  <2>4. ThreadSound(t, s)
    BY <1>1, <2>3, ThreadTyped DEF ThreadSound, InOcr
  <2>5. next' \in 1..Sources + 1
    BY <1>1 DEF IntakeInv, AcquisitionTypeOK
  <2> QED
    BY <1>1, <2>1, <2>2, <2>4, <2>5, ThreadGoesOn
<1>3. CASE ~(thread[t].received < MaxBytes)
  <2>1. Answers(t, Unread("TOO_LARGE", NoContent, "NONE"))
    BY <1>3 DEF Chunk
  <2>2. NoContent \in Received /\ "NONE" \in Method
    BY DEF Received, Method
  <2> QED
    BY <1>1, <2>1, <2>2, UnreadSound
<1> QED
  BY <1>2, <1>3

LEMMA BodyEndsSound == ASSUME IntakeInv, NEW t \in Everyone, BodyEnds(t) PROVE IntakeInv'
<1>1. thread[t].pc = "streaming" /\ UNCHANGED <<adapter, next, cache>>
  BY DEF BodyEnds
<1>2. t \in Thread /\ thread[t].document \in Slot
  BY <1>1, ThreadTyped DEF ThreadSound
<1>3. PICK x \in Served[thread[t].document], success \in BOOLEAN : Inspect(t, x, success)
  BY DEF BodyEnds
<1>4. x \in Content
  BY <1>2, SourcesAssumption
<1> QED
  BY <1>1, <1>3, <1>4, InspectSound

LEMMA FetchFailsSound == ASSUME IntakeInv, NEW t \in Everyone, FetchFails(t) PROVE IntakeInv'
<1>1. NoContent \in Received /\ "NONE" \in Method
  BY DEF Received, Method
<1> QED
  BY <1>1, UnreadSound DEF FetchFails

\* Who reads with OCR.
LEMMA OcrThread ==
    ASSUME IntakeInv, NEW t \in Everyone, thread[t].pc \in InOcr
    PROVE  /\ adapter \in Runtime /\ thread[t].content \in Content
           /\ Form[thread[t].content] = "SCAN" /\ thread[t].pc # "idle"
           /\ t \in Thread => /\ thread[t].document \in Slot
                              /\ SourceUri[thread[t].document] = "ALLOWED"
                              /\ thread[t].content \in Served[thread[t].document]
BY ThreadTyped, ThreadAssumption DEF ThreadSound, InOcr

\* A complete reading is an answer.
LEMMA ReadsSound ==
    ASSUME IntakeInv, NEW t \in Everyone, thread[t].pc \in InOcr,
           NEW x \in Content, x = thread[t].content,
           Reads(t, OcrText[adapter][x][Len(Pages[x])]), UNCHANGED <<adapter, next>>,
           cache' \in [Content -> Text \cup {NoReading}], CacheSound'
    PROVE  IntakeInv'
<1> DEFINE text == OcrText[adapter][x][Len(Pages[x])]
           method == IF Stripped(text) = <<>> THEN MethodOf(x) ELSE adapter
<1>1. Answers(t, Inspected(x, method, text, FALSE))
  BY DEF Reads
<1>2. adapter \in Runtime /\ Form[x] = "SCAN"
  BY OcrThread
<1>3. /\ Inspected(x, method, text, FALSE) \in Result
      /\ \A d \in Slot : (x \in Served[d] /\ SourceUri[d] = "ALLOWED")
                            => Own(d, Inspected(x, method, text, FALSE))
  BY <1>2, OcrReading
<1> HIDE DEF text, method
<1>4. PICK result \in Result : result = Inspected(x, method, text, FALSE)
  BY <1>3
<1>5. t \in Thread => Own(thread[t].document, result)
  BY <1>3, <1>4, OcrThread
<1>6. thread[t].pc # "idle"
  BY OcrThread
<1> QED
  BY <1>1, <1>4, <1>5, <1>6, ThreadAnswers

LEMMA OcrLookupSound == ASSUME IntakeInv, NEW t \in Everyone, OcrLookup(t) PROVE IntakeInv'
<1>1. thread[t].pc = "ocr" /\ thread[t].pc \in InOcr /\ UNCHANGED <<adapter, next, cache>>
  BY DEF OcrLookup, InOcr
<1>2. PICK x \in Content : x = thread[t].content
  BY <1>1, OcrThread
<1>3. CASE cache[x] # NoReading
  <2>1. cache[x] = OcrText[adapter][x][Len(Pages[x])]
    BY <1>3 DEF IntakeInv, CacheSound
  <2>2. Reads(t, OcrText[adapter][x][Len(Pages[x])])
    BY <1>2, <1>3, <2>1 DEF OcrLookup
  <2> QED
    BY <1>1, <1>2, <2>2, CacheKept, ReadsSound
<1>4. CASE cache[x] = NoReading
  <2>1. PICK pc \in {"vision", "rendering"} :
          thread' = [thread EXCEPT ![t].pc = pc] /\ UNCHANGED <<answers, intake>>
    BY <1>2, <1>4 DEF OcrLookup, Goes
  <2> DEFINE s == [thread[t] EXCEPT !.pc = pc]
  <2>2. thread' = [thread EXCEPT ![t] = s]
    BY <2>1, ThreadTyped
  <2>3. s \in ThreadState
    <3>1. thread[t] \in ThreadState
      BY ThreadTyped
    <3> QED
      BY <3>1 DEF ThreadState
  <2>4. s.pc = pc /\ s.document = thread[t].document /\ s.read = thread[t].read
        /\ s.content = thread[t].content
    BY ThreadTyped DEF ThreadState
  <2> HIDE DEF s
  <2>5. ThreadSound(t, s)
    BY <1>1, <2>4, ThreadTyped, OcrThread DEF ThreadSound, InOcr
  <2>6. next' \in 1..Sources + 1
    BY <1>1 DEF IntakeInv, AcquisitionTypeOK
  <2> QED
    BY <1>1, <2>1, <2>2, <2>3, <2>5, <2>6, ThreadGoesOn
<1> QED
  BY <1>3, <1>4

\* The reading that completes is kept, and is of all pages.
LEMMA CompletesSound ==
    ASSUME IntakeInv, NEW t \in Everyone, thread[t].pc \in InOcr,
           NEW x \in Content, x = thread[t].content, UNCHANGED adapter,
           Completes(t, OcrText[adapter][x][Len(Pages[x])])
    PROVE  IntakeInv'
<1> DEFINE text == OcrText[adapter][x][Len(Pages[x])]
<1>1. Reads(t, text) /\ cache' = [cache EXCEPT ![x] = text] /\ UNCHANGED <<adapter, next>>
  BY DEF Completes
<1>2. adapter \in Runtime
  BY OcrThread
<1>3. text \in Text
  <2>1. Len(Pages[x]) \in 0..Len(Pages[x])
    BY ContentAssumption
  <2> QED
    BY <1>2, <2>1, ReadingOf
<1>4. cache \in [Content -> Text \cup {NoReading}]
  BY DEF IntakeInv, AcquisitionTypeOK
<1>5. cache' \in [Content -> Text \cup {NoReading}]
  <2> HIDE DEF text
  <2> QED
    BY <1>1, <1>3, <1>4
<1>6. CacheSound'
  <2>1. \A y \in Content : cache'[y] = IF y = x THEN text ELSE cache[y]
    <3> HIDE DEF text
    <3> QED
      BY <1>1, <1>4
  <2>2. \A y \in Content : cache'[y] # NoReading =>
            adapter \in Runtime /\ cache'[y] = OcrText[adapter][y][Len(Pages[y])]
    BY <1>2, <2>1 DEF IntakeInv, CacheSound
  <2> QED
    BY <1>1, <2>2 DEF CacheSound
<1> QED
  BY <1>1, <1>5, <1>6, ReadsSound

LEMMA VisionReadsSound ==
    ASSUME IntakeInv, NEW t \in Everyone, VisionReads(t) PROVE IntakeInv'
<1>1. thread[t].pc \in InOcr
  BY DEF VisionReads, InOcr
<1>2. PICK x \in Content : x = thread[t].content
  BY <1>1, OcrThread
<1>3. Completes(t, OcrText[adapter][x][Len(Pages[x])]) /\ UNCHANGED adapter
  BY <1>2 DEF VisionReads, Completes
<1> QED
  BY <1>1, <1>2, <1>3, CompletesSound

LEMMA RendersSound == ASSUME IntakeInv, NEW t \in Everyone, Renders(t) PROVE IntakeInv'
<1>1. /\ thread[t].pc = "rendering" /\ thread[t].pc \in InOcr
      /\ Pages[thread[t].content] # <<>>
      /\ UNCHANGED <<adapter, next, answers, cache, intake>>
  BY DEF Renders, InOcr
<1>2. PICK duration \in 1..TimeLimit :
         thread' = [thread EXCEPT ![t].pc = "reading", ![t].elapsed = duration]
  BY DEF Renders
<1> DEFINE s == [thread[t] EXCEPT !.pc = "reading", !.elapsed = duration]
<1>3. thread' = [thread EXCEPT ![t] = s]
  BY <1>2, ThreadTyped
<1>4. s \in ThreadState
  <2>1. thread[t] \in ThreadState /\ duration \in 0..TimeLimit
    BY ThreadTyped, LimitAssumption
  <2> QED
    BY <2>1 DEF ThreadState
<1>5. s.pc = "reading" /\ s.document = thread[t].document /\ s.read = 0
      /\ s.content = thread[t].content
  BY <1>1, ThreadTyped DEF ThreadState, ThreadSound
<1> HIDE DEF s
<1>6. 0 < Len(Pages[thread[t].content])
  <2>1. Pages[thread[t].content] \in Seq(Text)
    BY <1>1, OcrThread, ContentAssumption
  <2> QED
    BY <1>1, <2>1
<1>7. ThreadSound(t, s)
  BY <1>1, <1>5, <1>6, OcrThread DEF ThreadSound, InOcr
<1>8. next' \in 1..Sources + 1
  BY <1>1 DEF IntakeInv, AcquisitionTypeOK
<1> QED
  BY <1>1, <1>3, <1>4, <1>7, <1>8, ThreadGoesOn

LEMMA ReadsPageSound == ASSUME IntakeInv, NEW t \in Everyone, ReadsPage(t) PROVE IntakeInv'
<1>1. thread[t].pc = "reading" /\ thread[t].pc \in InOcr
  BY DEF ReadsPage, InOcr
<1>2. PICK x \in Content : x = thread[t].content
  BY <1>1, OcrThread
<1>3. /\ thread[t] \in ThreadState /\ thread[t].read \in Nat /\ thread[t].elapsed \in 0..TimeLimit
      /\ thread[t].read < Len(Pages[x]) /\ Len(Pages[x]) \in Nat
  BY <1>1, <1>2, ThreadTyped, ContentAssumption DEF ThreadState, ThreadSound
<1>4. CASE thread[t].read + 1 = Len(Pages[x])
  <2>1. Completes(t, OcrText[adapter][x][Len(Pages[x])]) /\ UNCHANGED adapter
    BY <1>2, <1>4 DEF ReadsPage, Completes
  <2> QED
    BY <1>1, <1>2, <2>1, CompletesSound
<1>5. CASE thread[t].read + 1 # Len(Pages[x])
  <2>1. PICK duration \in 1..Remaining(t) :
          /\ thread' = [thread EXCEPT ![t].read = thread[t].read + 1,
                                      ![t].elapsed = thread[t].elapsed + duration]
          /\ UNCHANGED <<adapter, next, answers, cache, intake>>
    BY <1>2, <1>5 DEF ReadsPage
  <2> DEFINE s == [thread[t] EXCEPT !.read = thread[t].read + 1,
                                    !.elapsed = thread[t].elapsed + duration]
  <2>2. thread' = [thread EXCEPT ![t] = s]
    BY <2>1, ThreadTyped
  <2>3. s \in ThreadState
    <3>1. thread[t].elapsed + duration \in 0..TimeLimit /\ thread[t].read + 1 \in Nat
      BY <1>3, LimitAssumption DEF Remaining
    <3> QED
      BY <1>3, <3>1 DEF ThreadState
  <2>4. s.pc = "reading" /\ s.document = thread[t].document /\ s.read = thread[t].read + 1
        /\ s.content = x
    BY <1>1, <1>2, <1>3 DEF ThreadState
  <2> HIDE DEF s
  <2>5. s.read < Len(Pages[x])
    BY <1>3, <1>5, <2>4
  <2>6. ThreadSound(t, s)
    BY <1>1, <1>2, <2>4, <2>5, OcrThread DEF ThreadSound, InOcr
  <2>7. next' \in 1..Sources + 1
    BY <2>1 DEF IntakeInv, AcquisitionTypeOK
  <2> QED
    BY <2>1, <2>2, <2>3, <2>6, <2>7, ThreadGoesOn
<1> QED
  BY <1>4, <1>5

LEMMA OcrFailsSound == ASSUME IntakeInv, NEW t \in Everyone, OcrFails(t) PROVE IntakeInv'
<1>1. thread[t].pc \in InOcr /\ UNCHANGED <<adapter, next, cache>>
  BY DEF OcrFails, InOcr
<1>2. PICK x \in Content : x = thread[t].content
  BY <1>1, OcrThread
<1>3. PICK result \in Result : result = Inspected(x, MethodOf(x), <<>>, TRUE)
  BY FailedReading
<1>4. t \in Thread => Own(thread[t].document, result)
  BY <1>1, <1>2, <1>3, OcrThread, FailedReading
<1>5. Answers(t, result) /\ thread[t].pc # "idle"
  BY <1>1, <1>2, <1>3, OcrThread DEF OcrFails
<1> QED
  BY <1>1, <1>4, <1>5, CacheKept, ThreadAnswers

-----------------------------------------------------------------------------
(* The intake, and the theorems *)

\* A step of the reviewer that keeps to the types disturbs nothing else.
LEMMA ReviewerSound ==
    ASSUME IntakeInv, intake' \in IntakeState, UNCHANGED <<adapter, next, thread, answers, cache>>
    PROVE  IntakeInv'
<1>1. AcquisitionTypeOK' /\ ThreadsSound'
  BY DEF IntakeInv, AcquisitionTypeOK, ThreadsSound, ThreadSound
<1>2. CacheSound' /\ AnswersAreTheirOwn'
  BY DEF IntakeInv, CacheSound, AnswersAreTheirOwn
<1> QED
  BY <1>1, <1>2 DEF IntakeInv

LEMMA ProposesTyped ==
    ASSUME IntakeInv, NEW mode \in {"assisted", "deterministic"}, NEW excerpt \in Text,
           NEW spans \in SUBSET Text, Proposes(mode, excerpt, spans)
    PROVE  intake' \in IntakeState
<1> DEFINE proposals == {Finalized(s, Stripped(excerpt)) : s \in spans}
<1>1. Stripped(excerpt) \in Text
  BY StrippedOnce
<1>2. \A s \in Text : Finalized(s, Stripped(excerpt)) \in [span : Text, verified : BOOLEAN]
  BY StrippedOnce DEF Finalized
<1>3. proposals \in SUBSET [span : Text, verified : BOOLEAN]
  BY <1>2
<1>4. intake' = [intake EXCEPT !.pc = "proposed", !.mode = mode, !.excerpt = Stripped(excerpt),
                               !.proposals = proposals]
  BY DEF Proposes
<1> HIDE DEF proposals
<1>5. intake \in IntakeState
  BY DEF IntakeInv, AcquisitionTypeOK
<1> QED
  BY <1>1, <1>3, <1>4, <1>5 DEF IntakeState

LEMMA ExtractSound ==
    ASSUME IntakeInv, ExtractAssisted \/ ExtractDeterministic PROVE IntakeInv'
<1>1. PICK mode \in {"assisted", "deterministic"}, excerpt \in Text, spans \in SUBSET Text :
         Proposes(mode, excerpt, spans)
  <2>1. CASE ExtractAssisted
    BY <2>1, ExcerptAssumption DEF ExtractAssisted
  <2>2. CASE ExtractDeterministic
    <3>1. PICK excerpt \in Excerpt :
             \E spans \in SUBSET Sentences(Stripped(excerpt)) :
                Proposes("deterministic", excerpt, spans)
      BY <2>2 DEF ExtractDeterministic
    <3>2. excerpt \in Text /\ Stripped(excerpt) \in Text
      BY ExcerptAssumption, StrippedOnce
    <3>3. Sentences(Stripped(excerpt)) \subseteq Text
      BY <3>2, SentencesAreTexts
    <3> QED
      BY <3>1, <3>2, <3>3
  <2> QED
    BY <2>1, <2>2
<1>2. intake' \in IntakeState
  BY <1>1, ProposesTyped
<1> QED
  BY <1>2, ReviewerSound DEF ExtractAssisted, ExtractDeterministic

LEMMA ConfirmSound == ASSUME IntakeInv, Confirm PROVE IntakeInv'
<1>1. PICK chosen \in SUBSET intake.proposals :
         intake' = [intake EXCEPT !.pc = "confirmed", !.proposals = chosen]
  BY DEF Confirm
<1>2. intake \in IntakeState
  BY DEF IntakeInv, AcquisitionTypeOK
<1>3. chosen \in SUBSET [span : Text, verified : BOOLEAN]
  BY <1>2 DEF IntakeState
<1>4. intake' \in IntakeState
  BY <1>1, <1>2, <1>3 DEF IntakeState
<1> QED
  BY <1>4, ReviewerSound DEF Confirm

LEMMA ImportSound == ASSUME IntakeInv, Import PROVE IntakeInv'
<1>1. PICK x \in Content : Inspect(Importer, x, TRUE)
  BY DEF Import
<1>2. thread[Importer].pc = "idle" /\ UNCHANGED <<adapter, next, cache>>
  BY DEF Import
<1> QED
  BY <1>1, <1>2, InspectSound, ThreadAssumption DEF Everyone

\* Every step keeps the invariant.
LEMMA NextSound == IntakeInv /\ [Next]_vars => IntakeInv'
<1> SUFFICES ASSUME IntakeInv, [Next]_vars PROVE IntakeInv'
  OBVIOUS
<1>1. ASSUME NEW t \in Everyone, ThreadStep(t) PROVE IntakeInv'
  <2>1. ASSUME OcrStep(t) PROVE IntakeInv'
    BY <2>1, OcrLookupSound, VisionReadsSound, RendersSound, ReadsPageSound, OcrFailsSound
       DEF OcrStep
  <2> QED
    BY <1>1, <2>1, StartSound, ChunkSound, BodyEndsSound, FetchFailsSound DEF ThreadStep
<1>2. CASE ExtractAssisted \/ ExtractDeterministic
  BY <1>2, ExtractSound
<1>3. CASE Confirm
  BY <1>3, ConfirmSound
<1>4. CASE Import
  BY <1>4, ImportSound
<1>5. CASE UNCHANGED vars
  BY <1>5, ReviewerSound DEF vars, IntakeInv, AcquisitionTypeOK
<1> QED
  BY <1>1, <1>2, <1>3, <1>4, <1>5 DEF Next, Everyone

LEMMA IntakeInvHolds == Spec => []IntakeInv
BY InitSound, NextSound, PTL DEF Spec

\* Every reachable state is of its types, for any documents, hosts, byte strings and
\* threads: no body is longer and no reading takes longer than its limit (acquire,
\* TesseractOCR.extract_pdf), and the cache keeps nothing but texts.
THEOREM AcquisitionTypeCorrect == Spec => []AcquisitionTypeOK
<1>1. IntakeInv => AcquisitionTypeOK
  BY DEF IntakeInv
<1> QED
  BY <1>1, IntakeInvHolds, PTL

\* For any documents, hosts and threads, each answer of acquire_all is that of its
\* own document, and a verdict rests on all of the text of the bytes it names.
THEOREM AnswersBelong == Spec => []AnswersAreTheirOwn
<1>1. IntakeInv => AnswersAreTheirOwn
  BY DEF IntakeInv
<1> QED
  BY <1>1, IntakeInvHolds, PTL

-----------------------------------------------------------------------------
(* Places *)

\* How many of some places are not after i.
Rank(places, i) == Cardinality({j \in places : j <= i})

\* Numbers are the n-th of some places as they are counted.
LEMMA RankOfPlace ==
    ASSUME NEW n \in Nat, NEW S \in SUBSET (1..n)
    PROVE  /\ IsFiniteSet(S) /\ Cardinality(S) \in Nat
           /\ \A i \in S : Rank(S, i) \in 1..Cardinality(S) /\ Place(S, Rank(S, i)) = i
           /\ \A i, j \in S : i < j <=> Rank(S, i) < Rank(S, j)
           /\ \A k \in 1..Cardinality(S) : Place(S, k) \in S /\ Rank(S, Place(S, k)) = k
<1> DEFINE Upto(i) == {j \in S : j <= i}
           rank == [i \in S |-> Rank(S, i)]
           N == Cardinality(S)
<1>0. S \subseteq Int
  OBVIOUS
<1>1. IsFiniteSet(S) /\ N \in Nat
  <2>1. IsFiniteSet(1..n)
    BY FS_Interval
  <2>2. IsFiniteSet(S)
    BY <2>1, FS_Subset
  <2> QED
    BY <2>2, FS_CardinalityType
<1>2. ASSUME NEW i \in S
      PROVE  /\ IsFiniteSet(Upto(i)) /\ Rank(S, i) = Cardinality(Upto(i))
             /\ Rank(S, i) \in 1..N
  <2>1. IsFiniteSet(Upto(i)) /\ Cardinality(Upto(i)) <= N
    BY <1>1, FS_Subset
  <2>2. i \in Upto(i)
    BY <1>0
  <2>3. Cardinality(Upto(i)) \in Nat /\ Cardinality(Upto(i)) # 0
    BY <2>1, <2>2, FS_CardinalityType, FS_EmptySet
  <2> QED
    BY <1>1, <2>1, <2>3 DEF Rank
<1>9. \A i \in S : Rank(S, i) \in Int
  <2> HIDE DEF N, Upto
  <2> QED
    BY <1>1, <1>2
<1>3. ASSUME NEW i \in S, NEW j \in S, i < j
      PROVE  Rank(S, i) < Rank(S, j)
  <2>0. i \in Int /\ j \in Int
    BY <1>0
  <2>1. j \in Upto(j) /\ j \notin Upto(i)
    BY <1>3, <2>0
  <2>3. Upto(i) \in SUBSET Upto(j)
    <3> SUFFICES ASSUME NEW k \in Upto(i) PROVE k \in Upto(j)
      OBVIOUS
    <3>1. k \in S /\ k \in Int /\ k <= i
      BY <1>0
    <3> QED
      BY <1>3, <2>0, <3>1
  <2> HIDE DEF Upto
  <2>2. Cardinality(Upto(i)) <= Cardinality(Upto(j)) /\ Cardinality(Upto(i)) # Cardinality(Upto(j))
    BY <1>2, <2>1, <2>3, FS_Subset
  <2>4. Rank(S, i) \in Int /\ Rank(S, j) \in Int
    BY <1>1, <1>2
  <2> QED
    BY <1>2, <2>2, <2>4
<1>4. ASSUME NEW i \in S, NEW j \in S
      PROVE  i < j <=> Rank(S, i) < Rank(S, j)
  <2>1. i \in Int /\ j \in Int /\ Rank(S, i) \in Int /\ Rank(S, j) \in Int
    BY <1>0, <1>9
  <2>2. i < j => Rank(S, i) < Rank(S, j)
    BY <1>3
  <2>3. j < i => Rank(S, j) < Rank(S, i)
    BY <1>3
  <2> QED
    BY <2>1, <2>2, <2>3
<1>8. ASSUME NEW i \in S, NEW j \in S, Rank(S, i) = Rank(S, j)
      PROVE  i = j
  <2>1. i \in Int /\ j \in Int /\ Rank(S, i) \in Int /\ Rank(S, j) \in Int
    BY <1>0, <1>9
  <2> QED
    BY <1>4, <1>8, <2>1
<1>5. rank \in Surjection(S, 1..N)
  <2>1. rank \in [S -> 1..N]
    BY <1>2
  <2>2. \A i, j \in S : rank[i] = rank[j] => i = j
    BY <1>8
  <2> HIDE DEF rank, N
  <2>3. rank \in Injection(S, 1..N)
    BY <2>1, <2>2 DEF Injection, IsInjective
  <2>4. IsFiniteSet(1..N) /\ Cardinality(1..N) = N
    BY <1>1, FS_Interval
  <2> QED
    BY <2>3, <2>4, FS_Injection DEF N
<1>6. ASSUME NEW i \in S
      PROVE  Place(S, Rank(S, i)) = i
  <2>1. \A j \in S : Rank(S, j) = Rank(S, i) => j = i
    BY <1>8
  <2>2. Place(S, Rank(S, i)) = CHOOSE j \in S : Rank(S, j) = Rank(S, i)
    BY DEF Place, Rank
  <2> QED
    BY <2>1, <2>2
<1>7. ASSUME NEW k \in 1..N
      PROVE  Place(S, k) \in S /\ Rank(S, Place(S, k)) = k
  <2>1. PICK i \in S : rank[i] = k
    <3> HIDE DEF rank, N
    <3> QED
      BY <1>5 DEF Surjection
  <2> QED
    BY <1>6, <2>1
<1> QED
  BY <1>1, <1>2, <1>4, <1>6, <1>7

\* A map of places that keeps their order, onto a stretch of other places, moves
\* all of them on by the same number of places.
LEMMA StretchOfPlaces ==
    ASSUME NEW m \in Nat, NEW A \in SUBSET (1..m), NEW n \in Nat, NEW B \in SUBSET (1..n),
           NEW f \in [A -> B], A # {},
           \A i, j \in A : i < j => f[i] < f[j],
           \A i, j \in A : \A b \in B : f[i] <= b /\ b <= f[j] => \E k \in A : f[k] = b
    PROVE  \E c \in Nat : /\ c + Cardinality(A) <= Cardinality(B)
                          /\ \A i \in A : Rank(B, f[i]) = c + Rank(A, i)
<1> DEFINE first == Min(A)
           last == Max(A)
           before == {b \in B : b < f[first]}
           c == Cardinality(before)
<1>0. A \subseteq Int /\ B \subseteq Int
  OBVIOUS
<1>1. /\ first \in A /\ \A i \in A : first <= i
      /\ last \in A /\ \A i \in A : i <= last
  BY FirstAndLast
<1> HIDE DEF first, last
<1>2. IsFiniteSet(A) /\ IsFiniteSet(B) /\ IsFiniteSet(before) /\ c \in Nat
  BY RankOfPlace, FS_Subset, FS_CardinalityType
<1>3. ASSUME NEW i \in A
      PROVE  Rank(B, f[i]) = c + Rank(A, i)
  <2> DEFINE upto == {j \in A : j <= i}
             image == {b \in B : f[first] <= b /\ b <= f[i]}
             g == [j \in upto |-> f[j]]
  <2>1. IsFiniteSet(upto) /\ IsFiniteSet(image)
    BY <1>2, FS_Subset
  <2>2. g \in Surjection(upto, image)
    <3>1. \A j \in upto : f[j] \in image
      <4> SUFFICES ASSUME NEW j \in upto PROVE f[j] \in image
        OBVIOUS
      <4>1. j \in A /\ first <= j /\ j <= i /\ first \in A
        BY <1>1
      <4>2. f[first] \in Int /\ f[j] \in Int /\ f[i] \in Int
        BY <1>0, <4>1
      <4>3. f[first] <= f[j] /\ f[j] <= f[i]
        BY <1>0, <4>1, <4>2
      <4> QED
        BY <4>1, <4>3
    <3>2. \A b \in image : \E j \in upto : f[j] = b
      <4> SUFFICES ASSUME NEW b \in image PROVE \E j \in upto : f[j] = b
        OBVIOUS
      <4>1. PICK j \in A : f[j] = b
        BY <1>1
      <4>2. f[i] \in Int /\ f[j] \in Int /\ i \in Int /\ j \in Int /\ f[j] <= f[i]
        BY <1>0, <4>1
      <4>3. i < j => f[i] < f[j]
        BY <4>1
      <4>4. j <= i
        BY <4>2, <4>3
      <4> QED
        BY <4>1, <4>4
    <3> HIDE DEF upto, image
    <3> QED
      BY <3>1, <3>2 DEF Surjection
  <2>3. g \in Injection(upto, image)
    <3>1. \A j, k \in upto : g[j] = g[k] => j = k
      <4> SUFFICES ASSUME NEW j \in upto, NEW k \in upto, f[j] = f[k] PROVE j = k
        OBVIOUS
      <4>1. f[j] \in Int /\ f[k] \in Int /\ j \in Int /\ k \in Int
        BY <1>0
      <4> QED
        BY <4>1
    <3>2. g \in [upto -> image]
      BY <2>2 DEF Surjection
    <3> HIDE DEF g, upto, image
    <3> QED
      BY <3>1, <3>2 DEF Injection, IsInjective
  <2>4. Cardinality(upto) = Cardinality(image)
    <3> HIDE DEF g, upto, image
    <3> QED
      BY <2>1, <2>2, <2>3, FS_Injection
  <2>5. {b \in B : b <= f[i]} = before \cup image /\ before \cap image = {}
    <3>1. f[first] \in Int /\ f[i] \in Int /\ f[first] <= f[i]
      <4>1. first \in A /\ i \in A /\ first \in Int /\ i \in Int /\ first <= i
        BY <1>0, <1>1
      <4>2. first = i \/ first < i
        BY <4>1
      <4>3. f[first] \in Int /\ f[i] \in Int
        BY <1>0, <4>1
      <4>4. first < i => f[first] < f[i]
        BY <4>1
      <4> QED
        BY <4>2, <4>3, <4>4
    <3>2. ASSUME NEW b \in B
          PROVE  /\ b <= f[i] <=> b < f[first] \/ (f[first] <= b /\ b <= f[i])
                 /\ ~ (b < f[first] /\ f[first] <= b)
      <4>1. b \in Int
        BY <1>0
      <4> QED
        BY <3>1, <4>1
    <3> QED
      BY <3>2
  <2>6. Cardinality(before \cup image) = c + Cardinality(image)
    <3> HIDE DEF before, image
    <3>1. Cardinality(before \cup image)
            = Cardinality(before) + Cardinality(image) - Cardinality({})
      BY <1>2, <2>1, <2>5, FS_Union
    <3>2. Cardinality({}) = 0 /\ Cardinality(image) \in Nat
      BY <2>1, FS_EmptySet, FS_CardinalityType
    <3> QED
      BY <1>2, <3>1, <3>2
  <2> HIDE DEF before, image, upto
  <2> QED
    BY <2>4, <2>5, <2>6 DEF Rank, upto
<1>4. c + Cardinality(A) <= Cardinality(B)
  <2>1. Rank(A, last) = Cardinality(A)
    <3>1. {j \in A : j <= last} = A
      BY <1>1
    <3> QED
      BY <3>1 DEF Rank
  <2>2. Rank(B, f[last]) \in 1..Cardinality(B) /\ Cardinality(B) \in Nat
    BY <1>1, RankOfPlace
  <2> QED
    BY <1>1, <1>3, <2>1, <2>2
<1> QED
  BY <1>2, <1>3, <1>4

-----------------------------------------------------------------------------
(* Quotes *)

\* s is what t says after c places.
SaidFrom(s, t, c) == c + Len(s) <= Len(t) /\ \A k \in 1..Len(s) : s[k] = t[c + k]

\* A quote is what a text says from some place on.
LEMMA PlaceOfQuote ==
    ASSUME NEW S, NEW s \in Seq(S), NEW t \in Seq(S), s \in SubSeqs(t)
    PROVE  \E c \in Nat : SaidFrom(s, t, c)
<1>1. Len(s) \in Nat /\ Len(t) \in Nat /\ \A k \in 1..Len(t) : t[k] \in S
  OBVIOUS
<1>2. PICK i \in 0..Len(t), j \in 0..Len(t) : s = SubSeq(t, i + 1, j)
  BY DEF SubSeqs
<1>3. i \in Int /\ j \in Int /\ i + 1 \in Int /\ \A k \in (i + 1)..j : t[k] \in S
  BY <1>1
<1>4. /\ Len(s) = IF i + 1 <= j THEN j - (i + 1) + 1 ELSE 0
      /\ \A k \in 1..(j - (i + 1) + 1) : s[k] = t[(i + 1) + k - 1]
  BY <1>2, <1>3, SubSeqProperties
<1>5. CASE i + 1 <= j
  <2>1. i \in Nat /\ Len(s) = j - i
    BY <1>1, <1>4, <1>5
  <2>2. i + Len(s) <= Len(t)
    BY <1>1, <2>1
  <2>3. \A k \in 1..Len(s) : s[k] = t[i + k]
    <3> SUFFICES ASSUME NEW k \in 1..Len(s) PROVE s[k] = t[i + k]
      OBVIOUS
    <3>1. k \in 1..(j - (i + 1) + 1) /\ (i + 1) + k - 1 = i + k
      BY <1>3, <2>1
    <3> QED
      BY <1>4, <3>1
  <2> QED
    BY <2>1, <2>2, <2>3 DEF SaidFrom
<1>6. CASE ~ (i + 1 <= j)
  <2>1. Len(s) = 0
    BY <1>4, <1>6
  <2> QED
    BY <1>1, <2>1 DEF SaidFrom
<1> QED
  BY <1>5, <1>6

LEMMA QuoteOfPlace ==
    ASSUME NEW S, NEW s \in Seq(S), NEW t \in Seq(S),
           NEW c \in Nat, SaidFrom(s, t, c)
    PROVE  s \in SubSeqs(t)
<1>1. /\ Len(s) \in Nat /\ Len(t) \in Nat /\ \A k \in 1..Len(t) : t[k] \in S
      /\ c + Len(s) <= Len(t) /\ \A k \in 1..Len(s) : s[k] = t[c + k]
  BY DEF SaidFrom
<1> DEFINE j == c + Len(s)
           u == SubSeq(t, c + 1, j)
<1>2. c \in 0..Len(t) /\ j \in 0..Len(t) /\ c + 1 \in Int /\ j \in Int
  BY <1>1
<1>3. \A k \in (c + 1)..j : t[k] \in S
  BY <1>1
<1>4. j - (c + 1) + 1 = Len(s) /\ (c + 1 <= j <=> Len(s) # 0)
  BY <1>1
<1> HIDE DEF j
<1>5. /\ u \in Seq(S) /\ Len(u) = IF c + 1 <= j THEN j - (c + 1) + 1 ELSE 0
      /\ \A k \in 1..(j - (c + 1) + 1) : u[k] = t[(c + 1) + k - 1]
  BY <1>2, <1>3, SubSeqProperties
<1>6. Len(u) = Len(s)
  BY <1>1, <1>4, <1>5
<1>7. \A k \in 1..Len(s) : u[k] = s[k]
  <2> SUFFICES ASSUME NEW k \in 1..Len(s) PROVE u[k] = s[k]
    OBVIOUS
  <2>1. (c + 1) + k - 1 = c + k /\ k \in 1..(j - (c + 1) + 1)
    BY <1>4
  <2> QED
    BY <1>1, <1>5, <2>1
<1>8. s = u
  <2> HIDE DEF u
  <2> QED
    BY <1>5, <1>6, <1>7, SeqEqual
<1> QED
  BY <1>2, <1>8 DEF SubSeqs

\* A quote of a quote is a quote.
LEMMA QuoteOfQuote ==
    ASSUME NEW S, NEW r \in Seq(S), NEW s \in Seq(S), NEW t \in Seq(S),
           r \in SubSeqs(s), s \in SubSeqs(t)
    PROVE  r \in SubSeqs(t)
<1>1. PICK c \in Nat : SaidFrom(r, s, c)
  BY PlaceOfQuote
<1>2. PICK d \in Nat : SaidFrom(s, t, d)
  BY PlaceOfQuote
<1>3. Len(r) \in Nat /\ Len(s) \in Nat /\ Len(t) \in Nat
  OBVIOUS
<1>4. d + c \in Nat /\ (d + c) + Len(r) <= Len(t)
  BY <1>1, <1>2, <1>3 DEF SaidFrom
<1>5. \A k \in 1..Len(r) : r[k] = t[(d + c) + k]
  <2> SUFFICES ASSUME NEW k \in 1..Len(r) PROVE r[k] = t[(d + c) + k]
    OBVIOUS
  <2>1. c + k \in 1..Len(s) /\ d + (c + k) = (d + c) + k
    BY <1>1, <1>3 DEF SaidFrom
  <2> QED
    BY <1>1, <1>2, <2>1 DEF SaidFrom
<1>6. SaidFrom(r, t, d + c)
  BY <1>4, <1>5 DEF SaidFrom
<1> QED
  BY <1>4, <1>6, QuoteOfPlace

\* What is kept of a text are some of its places, of which each has a character.
LEMMA NormalizedText ==
    ASSUME NEW text \in Text
    PROVE  /\ Len(text) \in Nat /\ DOMAIN text = 1..Len(text)
           /\ Letters(text) \in SUBSET (1..Len(text)) /\ Kept(text) \in SUBSET (1..Len(text))
           /\ Cardinality(Kept(text)) \in Nat
           /\ Normalized(text) \in Text /\ Len(Normalized(text)) = Cardinality(Kept(text))
           /\ \A n \in 1..Cardinality(Kept(text)) :
                Normalized(text)[n] = CharOf(text, Place(Kept(text), n))
<1>1. Len(text) \in Nat /\ DOMAIN text = 1..Len(text)
  BY DEF Text
<1>2. Letters(text) \in SUBSET (1..Len(text)) /\ Kept(text) \in SUBSET (1..Len(text))
  BY <1>1 DEF Letters, Kept
<1>3. Cardinality(Kept(text)) \in Nat
  BY <1>1, <1>2, RankOfPlace
<1>4. \A i : CharOf(text, i) \in Char
  BY DEF CharOf, Letters, Char
<1>5. PICK N \in Nat : N = Cardinality(Kept(text))
  BY <1>3
<1>6. Normalized(text) = [n \in 1..N |-> CharOf(text, Place(Kept(text), n))]
  BY <1>5 DEF Normalized
<1>7. Normalized(text) \in [1..N -> Char]
  BY <1>4, <1>6
<1>8. Normalized(text) \in Text
  BY <1>7, SeqDef DEF Text
<1>9. Len(Normalized(text)) = N
  <2>1. DOMAIN Normalized(text) = 1..N
    BY <1>7
  <2> QED
    BY <1>8, <2>1 DEF Text
<1> QED
  BY <1>1, <1>2, <1>3, <1>5, <1>6, <1>8, <1>9

\* What is kept of one text in the order of a stretch of what is kept of another, with
\* the same characters, is a quote once both are normalized.
LEMMA QuoteOfPlaces ==
    ASSUME NEW s \in Text, NEW t \in Text, NEW f \in [Kept(s) -> Kept(t)],
           \A i, j \in Kept(s) : i < j => f[i] < f[j],
           \A i, j \in Kept(s) : \A b \in Kept(t) :
             f[i] <= b /\ b <= f[j] => \E k \in Kept(s) : f[k] = b,
           \A i \in Kept(s) : CharOf(t, f[i]) = CharOf(s, i)
    PROVE  Normalized(s) \in SubSeqs(Normalized(t))
<1>1. PICK m \in Nat, n \in Nat : m = Len(s) /\ n = Len(t)
  BY NormalizedText
<1>2. PICK A \in SUBSET (1..m) : A = Kept(s)
  BY <1>1, NormalizedText
<1>3. PICK B \in SUBSET (1..n) : B = Kept(t)
  BY <1>1, NormalizedText
<1>4. \E c \in Nat : /\ c + Cardinality(A) <= Cardinality(B)
                     /\ \A i \in A : Rank(B, f[i]) = c + Rank(A, i)
  <2>1. CASE A # {}
    <3>1. f \in [A -> B]
      BY <1>2, <1>3
    <3>2. \A i, j \in A : i < j => f[i] < f[j]
      BY <1>2
    <3>3. \A i, j \in A : \A b \in B : f[i] <= b /\ b <= f[j] => \E k \in A : f[k] = b
      BY <1>2, <1>3
    <3> QED
      BY <2>1, <3>1, <3>2, <3>3, StretchOfPlaces
  <2>2. CASE A = {}
    <3>1. Cardinality(A) = 0 /\ Cardinality(B) \in Nat
      BY <2>2, FS_EmptySet, RankOfPlace
    <3> QED
      BY <2>2, <3>1
  <2> QED
    BY <2>1, <2>2
<1>5. PICK c \in Nat : /\ c + Cardinality(A) <= Cardinality(B)
                       /\ \A i \in A : Rank(B, f[i]) = c + Rank(A, i)
  BY <1>4
<1>6. Cardinality(A) \in Nat /\ Cardinality(B) \in Nat
  BY RankOfPlace
<1>7. /\ Normalized(s) \in Seq(Char) /\ Len(Normalized(s)) = Cardinality(A)
      /\ Normalized(t) \in Seq(Char) /\ Len(Normalized(t)) = Cardinality(B)
  BY <1>2, <1>3, NormalizedText DEF Text
<1>8. ASSUME NEW k \in 1..Cardinality(A)
      PROVE  Normalized(s)[k] = Normalized(t)[c + k]
  <2>1. PICK i \in A : i = Place(A, k) /\ Rank(A, i) = k
    BY RankOfPlace
  <2>2. f[i] \in B /\ Rank(B, f[i]) = c + k
    BY <1>2, <1>3, <1>5, <2>1
  <2>3. Place(B, c + k) = f[i]
    BY <2>2, RankOfPlace
  <2>4. c + k \in 1..Cardinality(B)
    BY <1>5, <1>6
  <2>5. Normalized(s)[k] = CharOf(s, i)
    BY <1>2, <2>1, NormalizedText
  <2>6. Normalized(t)[c + k] = CharOf(t, f[i])
    BY <1>3, <2>3, <2>4, NormalizedText
  <2> QED
    BY <1>2, <2>1, <2>5, <2>6
<1>9. SaidFrom(Normalized(s), Normalized(t), c)
  BY <1>5, <1>7, <1>8 DEF SaidFrom
<1> QED
  BY <1>7, <1>9, QuoteOfPlace

\* A quote of a text is one also once both are normalized.
LEMMA NormalizedQuote ==
    ASSUME NEW s \in Text, NEW t \in Text, s \in SubSeqs(t)
    PROVE  Normalized(s) \in SubSeqs(Normalized(t))
<1>1. PICK c \in Nat : SaidFrom(s, t, c)
  BY PlaceOfQuote DEF Text
<1>2. PICK m \in Nat, n \in Nat : /\ m = Len(s) /\ n = Len(t)
                                  /\ DOMAIN s = 1..m /\ DOMAIN t = 1..n
  BY NormalizedText
<1>3. c + m <= n /\ \A k \in 1..m : s[k] = t[c + k]
  BY <1>1, <1>2 DEF SaidFrom
<1>4. \A k \in 1..m : c + k \in 1..n /\ (k \in Letters(s) <=> c + k \in Letters(t))
  BY <1>2, <1>3 DEF Letters
<1>5. /\ Letters(s) \in SUBSET (1..m) /\ Kept(s) \in SUBSET (1..m)
      /\ Letters(t) \in SUBSET (1..n) /\ Kept(t) \in SUBSET (1..n)
  BY <1>2, NormalizedText
<1> DEFINE f == [i \in Kept(s) |-> c + i]
<1>6. ASSUME NEW i \in Kept(s)
      PROVE  c + i \in Kept(t)
  <2>1. i \in 1..m
    BY <1>5
  <2>2. CASE i \in Letters(s)
    BY <1>4, <2>1, <2>2 DEF Kept
  <2>3. CASE i \notin Letters(s)
    <3>1. i - 1 \in Letters(s) /\ \E j \in Letters(s) : i < j
      BY <2>3 DEF Kept
    <3>2. PICK j \in Letters(s) : i < j
      BY <3>1
    <3>3. i - 1 \in 1..m /\ j \in 1..m
      BY <1>5, <3>1
    <3>4. c + (i - 1) \in Letters(t) /\ c + j \in Letters(t)
      BY <1>4, <3>1, <3>3
    <3>5. c + (i - 1) = (c + i) - 1 /\ c + i < c + j
      BY <2>1, <3>2, <3>3
    <3>6. c + i \in DOMAIN t
      BY <1>2, <1>4, <2>1
    <3> QED
      BY <3>4, <3>5, <3>6 DEF Kept
  <2> QED
    BY <2>2, <2>3
<1>7. f \in [Kept(s) -> Kept(t)]
  BY <1>6
<1>8. \A i, j \in Kept(s) : i < j => f[i] < f[j]
  BY <1>5
<1>9. ASSUME NEW i \in Kept(s), NEW j \in Kept(s), NEW b \in Kept(t), c + i <= b, b <= c + j
      PROVE  \E k \in Kept(s) : c + k = b
  <2>1. i \in 1..m /\ j \in 1..m /\ b \in 1..n
    BY <1>5
  <2> DEFINE k == b - c
  <2>2. k \in 1..m /\ c + k = b /\ i <= k /\ k <= j
    BY <1>9, <2>1
  <2> HIDE DEF k
  <2>3. k \in Kept(s)
    <3>1. CASE b \in Letters(t)
      BY <1>4, <2>2, <3>1 DEF Kept
    <3>2. CASE b \notin Letters(t) /\ k = i
      BY <3>2
    <3>3. CASE b \notin Letters(t) /\ k # i
      <4>1. b - 1 \in Letters(t)
        BY <3>3 DEF Kept
      <4>2. k - 1 \in 1..m /\ c + (k - 1) = b - 1
        BY <2>1, <2>2, <3>3
      <4>3. k - 1 \in Letters(s)
        BY <1>4, <4>1, <4>2
      <4>4. CASE k = j
        BY <4>4
      <4>5. CASE k # j
        <5>1. k < j
          BY <2>1, <2>2, <4>5
        <5>2. \E l \in Letters(s) : k < l
          <6>1. CASE j \in Letters(s)
            BY <5>1, <6>1
          <6>2. CASE j \notin Letters(s)
            <7>1. PICK l \in Letters(s) : j < l
              BY <6>2 DEF Kept
            <7>2. l \in 1..m
              BY <1>5
            <7> QED
              BY <2>1, <2>2, <5>1, <7>1, <7>2
          <6> QED
            BY <6>1, <6>2
        <5> QED
          BY <1>2, <2>2, <4>3, <5>2 DEF Kept
      <4> QED
        BY <4>4, <4>5
    <3> QED
      BY <3>1, <3>2, <3>3
  <2> QED
    BY <2>2, <2>3
<1>10. \A i \in Kept(s) : CharOf(t, c + i) = CharOf(s, i)
  <2> SUFFICES ASSUME NEW i \in Kept(s) PROVE CharOf(t, c + i) = CharOf(s, i)
    OBVIOUS
  <2>1. i \in 1..m
    BY <1>5
  <2> QED
    BY <1>3, <1>4, <2>1 DEF CharOf
<1>11. \A i, j \in Kept(s) : \A b \in Kept(t) :
         f[i] <= b /\ b <= f[j] => \E k \in Kept(s) : f[k] = b
  BY <1>9
<1>12. \A i \in Kept(s) : CharOf(t, f[i]) = CharOf(s, i)
  BY <1>10
<1> HIDE DEF f
<1> QED
  BY <1>7, <1>8, <1>11, <1>12, QuoteOfPlaces

-----------------------------------------------------------------------------
(* Words *)

\* More of some places are not after a later one.
LEMMA RankGrows ==
    ASSUME NEW n \in Nat, NEW S \in SUBSET (1..n), NEW i \in Int, NEW j \in Int, i <= j
    PROVE  /\ Rank(S, i) \in 0..Cardinality(S) /\ Rank(S, j) \in 0..Cardinality(S)
           /\ Rank(S, i) <= Rank(S, j)
<1> DEFINE before == {k \in S : k <= i}
           upto == {k \in S : k <= j}
<1>1. IsFiniteSet(S) /\ Cardinality(S) \in Nat
  BY RankOfPlace
<1>2. before \in SUBSET upto /\ upto \in SUBSET S
  <2> SUFFICES ASSUME NEW k \in before PROVE k \in upto
    OBVIOUS
  <2>1. k \in S /\ k \in Int /\ k <= i
    OBVIOUS
  <2> QED
    BY <2>1
<1>3. Rank(S, i) = Cardinality(before) /\ Rank(S, j) = Cardinality(upto)
  BY DEF Rank
<1> HIDE DEF before, upto
<1>4. IsFiniteSet(upto) /\ Cardinality(upto) <= Cardinality(S) /\ Cardinality(upto) \in Nat
  BY <1>1, <1>2, FS_Subset, FS_CardinalityType
<1>5. Cardinality(before) <= Cardinality(upto) /\ Cardinality(before) \in Nat
  BY <1>2, <1>4, FS_Subset, FS_CardinalityType
<1> QED
  BY <1>1, <1>3, <1>4, <1>5

\* A word goes on for as long as there are letters.
LEMMA WordIsLetters ==
    ASSUME NEW text \in Text, NEW h \in Letters(text)
    PROVE  /\ WordFrom(text, h) \in Text /\ Len(WordFrom(text, h)) \in Nat \ {0}
           /\ \A d \in Nat : /\ d < Len(WordFrom(text, h)) <=> h..(h + d) \subseteq Letters(text)
                             /\ d < Len(WordFrom(text, h)) => WordFrom(text, h)[d + 1] = text[h + d]
<1>1. PICK n \in Nat : n = Len(text) /\ DOMAIN text = 1..n /\ Letters(text) \in SUBSET (1..n)
  BY NormalizedText
<1>2. h \in 1..n
  BY <1>1
<1> DEFINE S == {j \in h..n : h..j \subseteq Letters(text)}
           last == Max(S)
<1>3. h \in S /\ S \in SUBSET (1..n)
  BY <1>2
<1>4. last \in S /\ \A j \in S : j <= last
  <2> HIDE DEF S
  <2> QED
    BY <1>3, FirstAndLast
<1>5. PICK m \in Int : m = last
  <2> HIDE DEF S, last
  <2> QED
    BY <1>3, <1>4
<1>6. h <= m /\ m <= n /\ h..m \subseteq Letters(text)
  BY <1>4, <1>5
<1>7. WordFrom(text, h) = SubSeq(text, h, m)
  BY <1>1, <1>5 DEF WordFrom
<1>8. \A j \in h..m : text[j] \in Char
  BY <1>1, <1>2, <1>6 DEF Text
<1>9. /\ SubSeq(text, h, m) \in Seq(Char) /\ Len(SubSeq(text, h, m)) = m - h + 1
      /\ \A k \in 1..(m - h + 1) : SubSeq(text, h, m)[k] = text[h + k - 1]
  <2>1. h \in Int
    BY <1>2
  <2> QED
    BY <1>6, <1>8, <2>1, SubSeqProperties
<1>10. ASSUME NEW d \in Nat
       PROVE  d < m - h + 1 <=> h..(h + d) \subseteq Letters(text)
  <2>1. ASSUME d < m - h + 1 PROVE h..(h + d) \subseteq Letters(text)
    BY <1>2, <1>6, <2>1
  <2>2. ASSUME h..(h + d) \subseteq Letters(text) PROVE d < m - h + 1
    <3>1. h + d \in Letters(text)
      BY <1>2, <2>2
    <3>2. h + d \in h..n
      BY <1>1, <1>2, <3>1
    <3>3. h + d \in S
      BY <2>2, <3>2
    <3>4. h + d <= m
      BY <1>4, <1>5, <3>3
    <3> QED
      BY <1>2, <3>4
  <2> QED
    BY <2>1, <2>2
<1>11. ASSUME NEW d \in Nat, d < m - h + 1
       PROVE  SubSeq(text, h, m)[d + 1] = text[h + d]
  <2>1. d + 1 \in 1..(m - h + 1) /\ h + (d + 1) - 1 = h + d
    BY <1>2, <1>11
  <2> QED
    BY <1>9, <2>1
<1>12. m - h + 1 \in Nat \ {0}
  BY <1>2, <1>6
<1> QED
  BY <1>7, <1>9, <1>10, <1>11, <1>12 DEF Text

\* The same word in two texts.
LEMMA SameWord ==
    ASSUME NEW e \in Text, NEW p \in Text, NEW h \in Letters(e), NEW g \in Letters(p),
           WordFrom(e, h) = WordFrom(p, g), NEW d \in Nat
    PROVE  /\ h..(h + d) \subseteq Letters(e) <=> g..(g + d) \subseteq Letters(p)
           /\ h..(h + d) \subseteq Letters(e) => e[h + d] = p[g + d]
BY WordIsLetters

\* A letter belongs to a word.
LEMMA WordOfLetter ==
    ASSUME NEW text \in Text, NEW i \in Letters(text)
    PROVE  \E h \in Starts(text) : h <= i /\ h..i \subseteq Letters(text)
<1>1. Letters(text) \in SUBSET (1..Len(text)) /\ Len(text) \in Nat
  BY NormalizedText
<1>2. i \in Nat /\ i..i \subseteq Letters(text)
  BY <1>1
<1> DEFINE S == {m \in Nat : m <= i /\ m..i \subseteq Letters(text)}
<1>3. S \in SUBSET Nat /\ i \in S
  BY <1>2
<1>4. PICK h \in S : \A m \in S : h <= m
  <2> HIDE DEF S
  <2>1. S # {}
    BY <1>3
  <2> QED
    BY <1>3, <2>1, LeastNumber
<1>5. h \in Nat /\ h <= i /\ h..i \subseteq Letters(text) /\ h \in Letters(text)
  BY <1>2, <1>4
<1>6. h - 1 \notin Letters(text)
  <2> SUFFICES ASSUME h - 1 \in Letters(text) PROVE FALSE
    OBVIOUS
  <2>1. h - 1 \in Nat /\ h - 1 <= i
    BY <1>1, <1>2, <1>5
  <2>2. (h - 1)..i \subseteq Letters(text)
    <3> SUFFICES ASSUME NEW k \in (h - 1)..i PROVE k \in Letters(text)
      OBVIOUS
    <3>1. k = h - 1 \/ k \in h..i
      BY <1>2, <1>5
    <3> QED
      BY <1>5, <3>1
  <2>3. h - 1 \in S
    BY <2>1, <2>2
  <2> QED
    BY <1>4, <1>5, <2>3
<1> QED
  BY <1>5, <1>6 DEF Starts

\* Up to the place after a word there are as many starts as up to its own.
LEMMA RankInWord ==
    ASSUME NEW text \in Text, NEW h \in Starts(text), NEW i \in Int, h <= i,
           h..(i - 1) \subseteq Letters(text)
    PROVE  Rank(Starts(text), i) = Rank(Starts(text), h)
<1>1. Letters(text) \subseteq Int /\ Starts(text) \subseteq Letters(text)
  BY NormalizedText DEF Starts
<1>2. \A j \in Starts(text) : j <= i <=> j <= h
  <2> SUFFICES ASSUME NEW j \in Starts(text) PROVE j <= i <=> j <= h
    OBVIOUS
  <2>1. j \in Int /\ h \in Int /\ j - 1 \notin Letters(text)
    BY <1>1 DEF Starts
  <2>2. ~ (j - 1 \in h..(i - 1))
    BY <2>1
  <2> QED
    BY <2>1, <2>2
<1>3. {j \in Starts(text) : j <= i} = {j \in Starts(text) : j <= h}
  BY <1>2
<1> QED
  BY <1>3 DEF Rank

\* Starts are places of the text.
LEMMA StartsArePlaces ==
    ASSUME NEW text \in Text
    PROVE  /\ Starts(text) \in SUBSET (1..Len(text)) /\ Starts(text) \in SUBSET Letters(text)
           /\ Cardinality(Starts(text)) \in Nat
<1>1. Starts(text) \in SUBSET Letters(text) /\ Starts(text) \in SUBSET (1..Len(text))
  BY NormalizedText DEF Starts
<1>2. Len(text) \in Nat
  BY NormalizedText
<1> QED
  BY <1>1, <1>2, RankOfPlace

\* The words of e are those of p after the first c.
Alike(e, p, c) ==
    /\ c + Cardinality(Starts(e)) <= Cardinality(Starts(p))
    /\ \A k \in 1..Cardinality(Starts(e)) :
         WordFrom(e, Place(Starts(e), k)) = WordFrom(p, Place(Starts(p), c + k))

\* Where the place i of e is in p: as far from the start of the same word.
Moved(e, p, c, i) ==
    Place(Starts(p), c + Rank(Starts(e), i)) + (i - Place(Starts(e), Rank(Starts(e), i)))

\* The k-th word of e is one of p.
LEMMA WordInBoth ==
    ASSUME NEW e \in Text, NEW p \in Text, NEW c \in Nat, Alike(e, p, c),
           NEW k \in 1..Cardinality(Starts(e))
    PROVE  \E h \in Starts(e), g \in Starts(p) :
             /\ h = Place(Starts(e), k) /\ Rank(Starts(e), h) = k
             /\ g = Place(Starts(p), c + k) /\ Rank(Starts(p), g) = c + k
             /\ WordFrom(e, h) = WordFrom(p, g)
<1>1. PICK m \in Nat, n \in Nat : m = Len(e) /\ n = Len(p)
  BY NormalizedText
<1>2. PICK A \in SUBSET (1..m) : A = Starts(e)
  BY <1>1, StartsArePlaces
<1>3. PICK B \in SUBSET (1..n) : B = Starts(p)
  BY <1>1, StartsArePlaces
<1>4. Place(A, k) \in A /\ Rank(A, Place(A, k)) = k
  BY <1>2, RankOfPlace
<1>5. Cardinality(A) \in Nat /\ Cardinality(B) \in Nat
  BY RankOfPlace
<1>6. c + k \in 1..Cardinality(B)
  BY <1>2, <1>3, <1>5 DEF Alike
<1>7. Place(B, c + k) \in B /\ Rank(B, Place(B, c + k)) = c + k
  BY <1>6, RankOfPlace
<1>8. WordFrom(e, Place(A, k)) = WordFrom(p, Place(B, c + k))
  BY <1>2, <1>3 DEF Alike
<1> QED
  BY <1>2, <1>3, <1>4, <1>7, <1>8

\* A letter of e is moved to the same one of p, into the same word, and the place
\* after it to the place after that.
LEMMA MovedLetter ==
    ASSUME NEW e \in Text, NEW p \in Text, NEW c \in Nat, Alike(e, p, c), NEW i \in Letters(e)
    PROVE  /\ Moved(e, p, c, i) \in Letters(p) /\ p[Moved(e, p, c, i)] = e[i]
           /\ Rank(Starts(e), i) \in 1..Cardinality(Starts(e))
           /\ Rank(Starts(p), Moved(e, p, c, i)) = c + Rank(Starts(e), i)
           /\ i - Moved(e, p, c, i)
                = Place(Starts(e), Rank(Starts(e), i)) - Place(Starts(p), c + Rank(Starts(e), i))
           /\ Moved(e, p, c, i + 1) = Moved(e, p, c, i) + 1
           /\ i + 1 \in Letters(e) <=> Moved(e, p, c, i) + 1 \in Letters(p)
<1>0. i \in Int /\ Letters(e) \subseteq Int /\ Letters(p) \subseteq Int
  BY NormalizedText
<1>1. PICK h \in Starts(e) : h <= i /\ h..i \subseteq Letters(e)
  BY WordOfLetter
<1>2. h \in Letters(e) /\ h \in Int
  BY <1>0, StartsArePlaces
<1>3. /\ Rank(Starts(e), i) = Rank(Starts(e), h)
      /\ Rank(Starts(e), i + 1) = Rank(Starts(e), h)
  <2>1. h..(i - 1) \subseteq Letters(e) /\ h..((i + 1) - 1) \subseteq Letters(e)
    BY <1>0, <1>1, <1>2
  <2>2. i + 1 \in Int /\ h <= i + 1
    BY <1>0, <1>1, <1>2
  <2> QED
    BY <1>0, <1>1, <2>1, <2>2, RankInWord
<1>4. PICK k \in 1..Cardinality(Starts(e)) : k = Rank(Starts(e), h) /\ Place(Starts(e), k) = h
  <2>1. Len(e) \in Nat /\ Starts(e) \in SUBSET (1..Len(e))
    BY NormalizedText, StartsArePlaces
  <2> QED
    BY <2>1, RankOfPlace
<1>5. PICK g \in Starts(p) : /\ g = Place(Starts(p), c + k) /\ Rank(Starts(p), g) = c + k
                             /\ WordFrom(e, h) = WordFrom(p, g)
  BY <1>4, WordInBoth
<1>6. g \in Letters(p) /\ g \in Int
  BY <1>0, StartsArePlaces
<1>7. PICK d \in Nat : d = i - h
  BY <1>0, <1>1, <1>2
<1>8. h + d = i /\ h + (d + 1) = i + 1 /\ g + (d + 1) = (g + d) + 1
  BY <1>0, <1>2, <1>6, <1>7
<1>9. Moved(e, p, c, i) = g + d /\ Moved(e, p, c, i + 1) = (g + d) + 1
  <2>1. Moved(e, p, c, i) = g + (i - h) /\ Moved(e, p, c, i + 1) = g + ((i + 1) - h)
    BY <1>3, <1>4, <1>5 DEF Moved
  <2> QED
    BY <1>0, <1>2, <1>6, <1>7, <2>1
<1>10. /\ g..(g + d) \subseteq Letters(p) /\ e[i] = p[g + d]
  BY <1>1, <1>2, <1>5, <1>6, <1>8, SameWord
<1>11. g + d \in Letters(p)
  BY <1>6, <1>10
<1>12. Rank(Starts(p), g + d) = c + k
  <2>1. g + d \in Int /\ g <= g + d /\ g..((g + d) - 1) \subseteq Letters(p)
    BY <1>6, <1>10
  <2> QED
    BY <1>5, <2>1, RankInWord
<1>13. i + 1 \in Letters(e) <=> (g + d) + 1 \in Letters(p)
  <2>1. h..(h + (d + 1)) \subseteq Letters(e) <=> g..(g + (d + 1)) \subseteq Letters(p)
    <3>1. PICK n \in Nat : n = d + 1
      OBVIOUS
    <3>2. h \in Letters(e) /\ g \in Letters(p) /\ WordFrom(e, h) = WordFrom(p, g)
      BY <1>2, <1>5, <1>6
    <3>3. h..(h + n) \subseteq Letters(e) <=> g..(g + n) \subseteq Letters(p)
      BY <3>2, SameWord
    <3> QED
      BY <3>1, <3>3
  <2>2. h..(i + 1) \subseteq Letters(e) <=> i + 1 \in Letters(e)
    BY <1>0, <1>1, <1>2
  <2>3. g..((g + d) + 1) \subseteq Letters(p) <=> (g + d) + 1 \in Letters(p)
    BY <1>6, <1>10
  <2> QED
    BY <1>8, <2>1, <2>2, <2>3
<1>14. Rank(Starts(e), i) = k
  BY <1>3, <1>4
<1>15. i - (g + d) = h - g
  BY <1>0, <1>2, <1>6, <1>7
<1> QED
  BY <1>4, <1>5, <1>9, <1>10, <1>11, <1>12, <1>13, <1>14, <1>15

\* Every letter of those words of p is a letter of e that was moved.
LEMMA MovedOnto ==
    ASSUME NEW e \in Text, NEW p \in Text, NEW c \in Nat, Alike(e, p, c), NEW b \in Letters(p),
           NEW k \in 1..Cardinality(Starts(e)), Rank(Starts(p), b) = c + k
    PROVE  \E i \in Letters(e) : Moved(e, p, c, i) = b
<1>0. b \in Int /\ Letters(e) \subseteq Int /\ Letters(p) \subseteq Int
  BY NormalizedText
<1>1. PICK start \in Starts(p) : start <= b /\ start..b \subseteq Letters(p)
  BY WordOfLetter
<1>2. start \in Letters(p) /\ start \in Int
  BY <1>0, StartsArePlaces
<1>3. Rank(Starts(p), start) = c + k
  <2>1. start..(b - 1) \subseteq Letters(p)
    BY <1>0, <1>1, <1>2
  <2> QED
    BY <1>0, <1>1, <2>1, RankInWord
<1>4. Place(Starts(p), c + k) = start
  <2>1. Len(p) \in Nat /\ Starts(p) \in SUBSET (1..Len(p))
    BY NormalizedText, StartsArePlaces
  <2> QED
    BY <1>3, <2>1, RankOfPlace
<1>5. PICK h \in Starts(e) : /\ h = Place(Starts(e), k) /\ Rank(Starts(e), h) = k
                             /\ WordFrom(e, h) = WordFrom(p, start)
  BY <1>4, WordInBoth
<1>6. h \in Letters(e) /\ h \in Int
  BY <1>0, StartsArePlaces
<1>7. PICK d \in Nat : d = b - start
  BY <1>0, <1>1, <1>2
<1>8. start + d = b
  BY <1>0, <1>2, <1>7
<1>9. h..(h + d) \subseteq Letters(e)
  BY <1>1, <1>2, <1>5, <1>6, <1>8, SameWord
<1>10. h + d \in Letters(e) /\ h + d \in Int /\ h <= h + d
       /\ h..((h + d) - 1) \subseteq Letters(e)
  BY <1>6, <1>9
<1>11. Rank(Starts(e), h + d) = k
  BY <1>5, <1>10, RankInWord
<1>12. Moved(e, p, c, h + d) = start + ((h + d) - h)
  BY <1>4, <1>5, <1>11 DEF Moved
<1>13. start + ((h + d) - h) = b
  BY <1>2, <1>6, <1>8
<1> QED
  BY <1>10, <1>12, <1>13

\* Letters keep their order.
LEMMA MovedInOrder ==
    ASSUME NEW e \in Text, NEW p \in Text, NEW c \in Nat, Alike(e, p, c),
           NEW i \in Letters(e), NEW j \in Letters(e), i < j
    PROVE  Moved(e, p, c, i) < Moved(e, p, c, j)
<1>1. PICK k \in Int, l \in Int : /\ k = Rank(Starts(e), i) /\ l = Rank(Starts(e), j)
                                  /\ k \in 1..Cardinality(Starts(e))
                                  /\ l \in 1..Cardinality(Starts(e))
  BY MovedLetter, StartsArePlaces
<1>2. PICK a \in Int, b \in Int : /\ a = Moved(e, p, c, i) /\ b = Moved(e, p, c, j)
                                  /\ a \in Letters(p) /\ b \in Letters(p)
  <2>1. Moved(e, p, c, i) \in Letters(p) /\ Moved(e, p, c, j) \in Letters(p)
    BY MovedLetter
  <2>2. Letters(p) \subseteq Int
    BY NormalizedText
  <2> QED
    BY <2>1, <2>2
<1>3. i \in Int /\ j \in Int
  BY NormalizedText
<1>4. k <= l
  <2>1. Len(e) \in Nat /\ Starts(e) \in SUBSET (1..Len(e))
    BY NormalizedText, StartsArePlaces
  <2>2. i <= j
    BY <1>3
  <2> QED
    BY <1>1, <1>3, <2>1, <2>2, RankGrows
<1>5. CASE k = l
  <2> DEFINE Shift(r) == Place(Starts(e), r) - Place(Starts(p), c + r)
  <2>1. /\ i - Moved(e, p, c, i) = Shift(Rank(Starts(e), i))
        /\ j - Moved(e, p, c, j) = Shift(Rank(Starts(e), j))
    BY MovedLetter
  <2> HIDE DEF Shift
  <2>2. i - a = j - b
    BY <1>1, <1>2, <1>5, <2>1
  <2> QED
    BY <1>2, <1>3, <2>2
<1>6. CASE k < l
  <2>1. Rank(Starts(p), a) = c + k /\ Rank(Starts(p), b) = c + l
    BY <1>1, <1>2, MovedLetter
  <2>2. Len(p) \in Nat /\ Starts(p) \in SUBSET (1..Len(p))
    BY NormalizedText, StartsArePlaces
  <2>3. b <= a => Rank(Starts(p), b) <= Rank(Starts(p), a)
    BY <1>2, <2>2, RankGrows
  <2> QED
    BY <1>1, <1>2, <1>6, <2>1, <2>3
<1> QED
  BY <1>1, <1>4, <1>5, <1>6

\* The place after a word is moved to the place after that word.
LEMMA MovedGap ==
    ASSUME NEW e \in Text, NEW p \in Text, NEW c \in Nat, Alike(e, p, c),
           NEW i \in Kept(e), i \notin Letters(e)
    PROVE  /\ i - 1 \in Letters(e) /\ Moved(e, p, c, i) = Moved(e, p, c, i - 1) + 1
           /\ Moved(e, p, c, i) \notin Letters(p)
           /\ \E j \in Letters(e) : i < j
<1>1. i - 1 \in Letters(e) /\ \E j \in Letters(e) : i < j
  BY DEF Kept
<1>2. i \in Int
  BY NormalizedText
<1>3. PICK l \in Letters(e) : l = i - 1
  BY <1>1
<1>4. l + 1 = i
  BY <1>2, <1>3
<1>5. /\ Moved(e, p, c, l + 1) = Moved(e, p, c, l) + 1
      /\ l + 1 \in Letters(e) <=> Moved(e, p, c, l) + 1 \in Letters(p)
  BY MovedLetter
<1>6. Moved(e, p, c, i) = Moved(e, p, c, l) + 1 /\ Moved(e, p, c, l) + 1 \notin Letters(p)
  BY <1>4, <1>5
<1> QED
  BY <1>1, <1>3, <1>6

\* All that is kept keeps its order.
LEMMA KeptInOrder ==
    ASSUME NEW e \in Text, NEW p \in Text, NEW c \in Nat, Alike(e, p, c),
           NEW i \in Kept(e), NEW j \in Kept(e), i < j
    PROVE  Moved(e, p, c, i) \in Int /\ Moved(e, p, c, j) \in Int
           /\ Moved(e, p, c, i) < Moved(e, p, c, j)
<1> DEFINE M(k) == Moved(e, p, c, k)
<1>1. \A k \in Letters(e) : M(k) \in Int /\ M(k) \in Letters(p)
  BY MovedLetter, NormalizedText
<1>2. \A k, l \in Letters(e) : k < l => M(k) < M(l)
  BY MovedInOrder
<1>3. \A k \in Kept(e) : k \notin Letters(e) =>
         k - 1 \in Letters(e) /\ M(k) = M(k - 1) + 1 /\ M(k) \notin Letters(p)
  BY MovedGap
<1>4. Kept(e) \subseteq Int /\ i \in Int /\ j \in Int
  BY NormalizedText
<1> HIDE DEF M
<1>5. CASE i \in Letters(e) /\ j \in Letters(e)
  BY <1>1, <1>2, <1>5 DEF M
<1>6. CASE i \in Letters(e) /\ j \notin Letters(e)
  <2>1. j - 1 \in Letters(e) /\ M(j) = M(j - 1) + 1
    BY <1>3, <1>6
  <2>2. M(j - 1) \in Int /\ M(i) \in Int
    BY <1>1, <1>6, <2>1
  <2>3. i = j - 1 \/ i < j - 1
    BY <1>4
  <2>4. M(i) <= M(j - 1)
    BY <1>2, <1>6, <2>1, <2>2, <2>3
  <2>5. M(i) \in Int /\ M(j) \in Int /\ M(i) < M(j)
    BY <2>1, <2>2, <2>4
  <2> QED
    BY <2>5 DEF M
<1>7. CASE i \notin Letters(e) /\ j \in Letters(e)
  <2>1. i - 1 \in Letters(e) /\ M(i) = M(i - 1) + 1 /\ M(i) \notin Letters(p)
    BY <1>3, <1>7
  <2>2. M(i - 1) \in Int /\ M(j) \in Int /\ M(j) \in Letters(p)
    BY <1>1, <1>7, <2>1
  <2>3. i - 1 < j
    BY <1>4
  <2>4. M(i - 1) < M(j)
    BY <1>2, <1>7, <2>1, <2>3
  <2>5. M(i) \in Int /\ M(j) \in Int /\ M(i) < M(j)
    BY <2>1, <2>2, <2>4
  <2> QED
    BY <2>5 DEF M
<1>8. CASE i \notin Letters(e) /\ j \notin Letters(e)
  <2>1. /\ i - 1 \in Letters(e) /\ M(i) = M(i - 1) + 1
        /\ j - 1 \in Letters(e) /\ M(j) = M(j - 1) + 1
    BY <1>3, <1>8
  <2>2. M(i - 1) \in Int /\ M(j - 1) \in Int
    BY <1>1, <2>1
  <2>3. i - 1 < j - 1
    BY <1>4
  <2>4. M(i - 1) < M(j - 1)
    BY <1>2, <2>1, <2>3
  <2>5. M(i) \in Int /\ M(j) \in Int /\ M(i) < M(j)
    BY <2>1, <2>2, <2>4
  <2> QED
    BY <2>5 DEF M
<1> QED
  BY <1>5, <1>6, <1>7, <1>8

\* What is kept is moved to what is kept, with its character.
LEMMA MovedKept ==
    ASSUME NEW e \in Text, NEW p \in Text, NEW c \in Nat, Alike(e, p, c), NEW i \in Kept(e)
    PROVE  /\ Moved(e, p, c, i) \in Kept(p)
           /\ CharOf(p, Moved(e, p, c, i)) = CharOf(e, i)
           /\ \E k \in 1..Cardinality(Starts(e)) : Rank(Starts(p), Moved(e, p, c, i)) = c + k
<1>1. CASE i \in Letters(e)
  <2>1. /\ Moved(e, p, c, i) \in Letters(p) /\ p[Moved(e, p, c, i)] = e[i]
        /\ Rank(Starts(e), i) \in 1..Cardinality(Starts(e))
        /\ Rank(Starts(p), Moved(e, p, c, i)) = c + Rank(Starts(e), i)
    BY <1>1, MovedLetter
  <2> QED
    BY <1>1, <2>1 DEF Kept, CharOf
<1>2. CASE i \notin Letters(e)
  <2>1. /\ i - 1 \in Letters(e) /\ Moved(e, p, c, i) = Moved(e, p, c, i - 1) + 1
        /\ Moved(e, p, c, i) \notin Letters(p)
        /\ \E j \in Letters(e) : i < j
    BY <1>2, MovedGap
  <2>2. PICK j \in Letters(e) : i < j
    BY <2>1
  <2>3. PICK a \in Letters(p), b \in Letters(p) :
           /\ a = Moved(e, p, c, i - 1) /\ b = Moved(e, p, c, j)
    BY <2>1, MovedLetter
  <2>4. PICK m \in Nat : m = Len(p) /\ DOMAIN p = 1..m /\ Letters(p) \in SUBSET (1..m)
    BY NormalizedText
  <2>5. a \in 1..m /\ b \in 1..m
    BY <2>4
  <2>6. PICK k \in 1..Cardinality(Starts(e)) : Rank(Starts(p), a) = c + k
    BY <2>1, <2>3, MovedLetter
  <2>7. a + 1 < b
    <3>1. j \in Kept(e)
      BY DEF Kept
    <3>2. Moved(e, p, c, i) < Moved(e, p, c, j)
      BY <2>2, <3>1, KeptInOrder
    <3> QED
      BY <2>1, <2>3, <3>2
  <2>8. a + 1 \in DOMAIN p /\ (a + 1) - 1 = a
    BY <2>4, <2>5, <2>7
  <2>9. a + 1 \in Kept(p)
    BY <2>7, <2>8 DEF Kept
  <2>10. Rank(Starts(p), a + 1) = Rank(Starts(p), a)
    <3>1. \A x \in Starts(p) : x <= a + 1 <=> x <= a
      <4> SUFFICES ASSUME NEW x \in Starts(p) PROVE x <= a + 1 <=> x <= a
        OBVIOUS
      <4>1. x \in Int /\ x # a + 1
        BY <2>1, <2>3, <2>4, StartsArePlaces
      <4> QED
        BY <2>5, <4>1
    <3>2. {x \in Starts(p) : x <= a + 1} = {x \in Starts(p) : x <= a}
      BY <3>1
    <3> QED
      BY <3>2 DEF Rank
  <2>11. CharOf(p, a + 1) = Blank /\ CharOf(e, i) = Blank
    BY <1>2, <2>1, <2>3 DEF CharOf
  <2> QED
    BY <2>1, <2>3, <2>6, <2>9, <2>10, <2>11
<1> QED
  BY <1>1, <1>2

\* Nothing that is kept of p is left out between two places that were moved.
LEMMA MovedStretch ==
    ASSUME NEW e \in Text, NEW p \in Text, NEW c \in Nat, Alike(e, p, c),
           NEW i \in Kept(e), NEW j \in Kept(e), NEW b \in Kept(p),
           Moved(e, p, c, i) <= b, b <= Moved(e, p, c, j)
    PROVE  \E k \in Kept(e) : Moved(e, p, c, k) = b
<1> DEFINE M(k) == Moved(e, p, c, k)
<1>1. PICK n \in Nat, m \in Nat :
         /\ n = Len(e) /\ DOMAIN e = 1..n /\ Letters(e) \in SUBSET (1..n) /\ Kept(e) \in SUBSET (1..n)
         /\ m = Len(p) /\ DOMAIN p = 1..m /\ Letters(p) \in SUBSET (1..m) /\ Kept(p) \in SUBSET (1..m)
  BY NormalizedText
<1>2. i \in 1..n /\ j \in 1..n /\ b \in 1..m /\ M(i) \in 1..m /\ M(j) \in 1..m
  <2>1. M(i) \in Kept(p) /\ M(j) \in Kept(p)
    BY MovedKept
  <2> QED
    BY <1>1, <2>1
<1>3. ASSUME NEW a \in Letters(p), M(i) <= a, a <= M(j)
      PROVE  \E k \in Letters(e) : M(k) = a
  <2>1. a \in 1..m
    BY <1>1
  <2>2. Starts(p) \in SUBSET (1..m)
    BY <1>1, StartsArePlaces
  <2>3. /\ Rank(Starts(p), M(i)) <= Rank(Starts(p), a) /\ Rank(Starts(p), a) \in Int
        /\ Rank(Starts(p), a) <= Rank(Starts(p), M(j))
    <3> HIDE DEF M
    <3>1. M(i) \in Int /\ M(j) \in Int /\ a \in Int
      BY <1>2, <2>1
    <3>2. Cardinality(Starts(p)) \in Nat
      BY StartsArePlaces
    <3>3. /\ Rank(Starts(p), M(i)) <= Rank(Starts(p), a)
          /\ Rank(Starts(p), a) \in 0..Cardinality(Starts(p))
      BY <1>3, <2>2, <3>1, RankGrows
    <3>4. Rank(Starts(p), a) <= Rank(Starts(p), M(j))
      BY <1>3, <2>2, <3>1, RankGrows
    <3> QED
      BY <3>2, <3>3, <3>4
  <2>4. PICK x \in 1..Cardinality(Starts(e)) : Rank(Starts(p), M(i)) = c + x
    BY MovedKept
  <2>5. PICK y \in 1..Cardinality(Starts(e)) : Rank(Starts(p), M(j)) = c + y
    BY MovedKept
  <2>6. PICK k \in Int : k = Rank(Starts(p), a) - c
    BY <2>3
  <2>7. k \in 1..Cardinality(Starts(e)) /\ Rank(Starts(p), a) = c + k
    <3>1. Cardinality(Starts(e)) \in Nat
      BY StartsArePlaces
    <3> HIDE DEF M
    <3> QED
      BY <2>3, <2>4, <2>5, <2>6, <3>1
  <2> QED
    BY <2>7, MovedOnto
<1>4. Letters(e) \subseteq Kept(e)
  BY DEF Kept
<1>5. CASE b \in Letters(p)
  BY <1>3, <1>4, <1>5
<1>6. CASE b \notin Letters(p) /\ (b = M(i) \/ b = M(j))
  BY <1>6
<1>7. CASE b \notin Letters(p) /\ b # M(i) /\ b # M(j)
  <2>1. b - 1 \in Letters(p)
    BY <1>7 DEF Kept
  <2>2. M(i) <= b - 1 /\ b - 1 <= M(j) /\ b < M(j)
    <3> HIDE DEF M
    <3>1. M(i) <= b /\ b <= M(j)
      BY DEF M
    <3> QED
      BY <1>2, <1>7, <3>1
  <2>3. PICK l \in Letters(e) : M(l) = b - 1
    BY <1>3, <2>1, <2>2
  <2>4. l \in 1..n
    BY <1>1
  <2>5. M(l + 1) = b /\ l + 1 \notin Letters(e)
    <3>1. M(l + 1) = M(l) + 1 /\ (l + 1 \in Letters(e) <=> M(l) + 1 \in Letters(p))
      BY MovedLetter
    <3>2. M(l) + 1 = b
      <4> HIDE DEF M
      <4> QED
        BY <1>2, <2>3
    <3> QED
      BY <1>7, <3>1, <3>2
  <2>6. l < j
    <3>1. CASE l = j
      <4> HIDE DEF M
      <4> QED
        BY <1>2, <2>2, <2>3, <3>1
    <3>2. CASE j < l
      <4>1. M(j) < M(l)
        BY <1>4, <3>2, KeptInOrder
      <4> HIDE DEF M
      <4> QED
        BY <1>2, <2>2, <2>3, <4>1
    <3> QED
      BY <1>2, <2>4, <3>1, <3>2
  <2>7. l + 1 \in Kept(e)
    <3>1. CASE l + 1 = j
      BY <3>1
    <3>2. CASE l + 1 # j
      <4>1. l + 1 < j /\ l + 1 \in DOMAIN e /\ (l + 1) - 1 = l
        BY <1>1, <1>2, <2>4, <2>6, <3>2
      <4>2. \E k \in Letters(e) : l + 1 < k
        <5>1. CASE j \in Letters(e)
          BY <4>1, <5>1
        <5>2. CASE j \notin Letters(e)
          <6>1. PICK k \in Letters(e) : j < k
            BY <5>2 DEF Kept
          <6>2. k \in 1..n
            BY <1>1
          <6> QED
            BY <1>2, <2>4, <4>1, <6>1, <6>2
        <5> QED
          BY <5>1, <5>2
      <4> QED
        BY <4>1, <4>2 DEF Kept
    <3> QED
      BY <3>1, <3>2
  <2> QED
    BY <2>5, <2>7
<1> QED
  BY <1>5, <1>6, <1>7

\* Texts with the same words somewhere: what one says, once normalized, the other says.
LEMMA QuoteOfWords ==
    ASSUME NEW e \in Text, NEW p \in Text, Words(e) \in SubSeqs(Words(p)) \ {<<>>}
    PROVE  /\ Normalized(e) \in SubSeqs(Normalized(p))
           /\ Letters(p) # {}
<1>1. ASSUME NEW text \in Text
      PROVE  /\ Words(text) \in Seq(Text) /\ Len(Words(text)) = Cardinality(Starts(text))
             /\ \A k \in 1..Cardinality(Starts(text)) :
                  Words(text)[k] = WordFrom(text, Place(Starts(text), k))
  <2>1. PICK n \in Nat : n = Len(text) /\ Starts(text) \in SUBSET (1..n)
                         /\ Starts(text) \in SUBSET Letters(text)
    BY NormalizedText, StartsArePlaces
  <2>2. PICK N \in Nat : N = Cardinality(Starts(text))
    BY StartsArePlaces
  <2>3. \A k \in 1..N : WordFrom(text, Place(Starts(text), k)) \in Text
    <3> SUFFICES ASSUME NEW k \in 1..N PROVE WordFrom(text, Place(Starts(text), k)) \in Text
      OBVIOUS
    <3>1. Place(Starts(text), k) \in Starts(text)
      BY <2>1, <2>2, RankOfPlace
    <3> QED
      BY <2>1, <3>1, WordIsLetters
  <2>4. Words(text) = [k \in 1..N |-> WordFrom(text, Place(Starts(text), k))]
    BY <2>2 DEF Words
  <2>5. Words(text) \in [1..N -> Text]
    BY <2>3, <2>4
  <2>6. Words(text) \in Seq(Text)
    BY <2>5, SeqDef
  <2>7. Len(Words(text)) = N
    <3>1. DOMAIN Words(text) = 1..N
      BY <2>5
    <3> QED
      BY <2>6, <3>1
  <2> QED
    BY <2>2, <2>4, <2>6, <2>7
<1>2. /\ Words(e) \in Seq(Text) /\ Len(Words(e)) = Cardinality(Starts(e))
      /\ Words(p) \in Seq(Text) /\ Len(Words(p)) = Cardinality(Starts(p))
  BY <1>1
<1>3. PICK c \in Nat : SaidFrom(Words(e), Words(p), c)
  BY <1>2, PlaceOfQuote
<1>4. Cardinality(Starts(e)) \in Nat /\ Cardinality(Starts(p)) \in Nat
  BY StartsArePlaces
<1>5. Alike(e, p, c)
  <2>1. c + Cardinality(Starts(e)) <= Cardinality(Starts(p))
    BY <1>2, <1>3 DEF SaidFrom
  <2>2. ASSUME NEW k \in 1..Cardinality(Starts(e))
        PROVE  WordFrom(e, Place(Starts(e), k)) = WordFrom(p, Place(Starts(p), c + k))
    <3>1. c + k \in 1..Cardinality(Starts(p))
      BY <1>4, <2>1
    <3>2. Words(e)[k] = WordFrom(e, Place(Starts(e), k))
      BY <1>1
    <3>3. Words(p)[c + k] = WordFrom(p, Place(Starts(p), c + k))
      BY <1>1, <3>1
    <3>4. Words(e)[k] = Words(p)[c + k]
      BY <1>2, <1>3 DEF SaidFrom
    <3> QED
      BY <3>2, <3>3, <3>4
  <2> QED
    BY <2>1, <2>2 DEF Alike
<1> DEFINE f == [i \in Kept(e) |-> Moved(e, p, c, i)]
<1>6. f \in [Kept(e) -> Kept(p)]
  BY <1>5, MovedKept
<1>7. \A i, j \in Kept(e) : i < j => f[i] < f[j]
  BY <1>5, KeptInOrder
<1>8. \A i, j \in Kept(e) : \A b \in Kept(p) :
         f[i] <= b /\ b <= f[j] => \E k \in Kept(e) : f[k] = b
  BY <1>5, MovedStretch
<1>9. \A i \in Kept(e) : CharOf(p, f[i]) = CharOf(e, i)
  BY <1>5, MovedKept
<1>10. Normalized(e) \in SubSeqs(Normalized(p))
  <2> HIDE DEF f
  <2> QED
    BY <1>6, <1>7, <1>8, <1>9, QuoteOfPlaces
<1>11. Letters(p) # {}
  <2>1. Cardinality(Starts(e)) # 0
    <3>1. Words(e) # <<>>
      OBVIOUS
    <3> QED
      BY <1>2, <3>1, EmptySeq
  <2>2. 1 \in 1..Cardinality(Starts(e))
    BY <1>4, <2>1
  <2>3. Starts(p) # {}
    BY <1>5, <2>2, WordInBoth
  <2> QED
    BY <2>3, StartsArePlaces
<1> QED
  BY <1>10, <1>11

\* A text that has a letter says something.
LEMMA LetterIsVisible ==
    ASSUME NEW text \in Text, Letters(text) # {}
    PROVE  Stripped(text) # <<>>
<1>1. PICK n \in Nat : n = Len(text) /\ DOMAIN text = 1..n
  BY NormalizedText
<1>2. Visible(text) # {} /\ Visible(text) \in SUBSET (1..n)
  BY <1>1, CharAssumption DEF Visible, Letters
<1>3. PICK a \in 1..n, b \in 1..n : a = Min(Visible(text)) /\ b = Max(Visible(text)) /\ a <= b
  BY <1>2, FirstAndLast
<1>4. Stripped(text) = SubSeq(text, a, b)
  BY <1>2, <1>3 DEF Stripped
<1>5. Len(SubSeq(text, a, b)) = b - a + 1
  <2>1. \A k \in a..b : text[k] \in Char
    BY <1>1 DEF Text
  <2> QED
    BY <1>3, <2>1, SubSeqProperties
<1>6. b - a + 1 # 0
  BY <1>3
<1>7. Len(Stripped(text)) # 0
  <2>1. Len(Stripped(text)) = b - a + 1
    BY <1>4, <1>5, Zenon
  <2> QED
    BY <1>6, <2>1, Zenon
<1>8. Len(<<>>) = 0
  OBVIOUS
<1> QED
  BY <1>7, <1>8, Zenon

-----------------------------------------------------------------------------
(* What was quoted *)

Written == {"PDF_TEXT", "HTML_TEXT", "PLAIN_TEXT"}

\* A result that was read without OCR has the text of the bytes that it names.
SaysItsPages(result) ==
    (result.method \in Written /\ result.content # NoContent)
       => result.content \in Content /\ result.text = Joined(Pages[result.content])

\* What is verified is in the excerpt, and the import has what the bytes say.
QuotesSound ==
    /\ \A p \in intake.proposals : p.verified => p.span \in SubSeqs(intake.excerpt)
    /\ intake.pc = "imported" => SaysItsPages(intake.result)

LEMMA UnreadSaysItsPages ==
    ASSUME NEW status, NEW x, NEW method, method \notin Written
    PROVE  SaysItsPages(Unread(status, x, method))
BY DEF SaysItsPages, Unread

\* What OCR has read, or failed to read, is not such a result; what was read without
\* it has the text, or no fingerprint.
LEMMA InspectedSaysItsPages ==
    ASSUME NEW x \in Content, NEW method, NEW text, NEW error,
           method \in Written => method = MethodOf(x) /\ text = TextOf[x]
    PROVE  SaysItsPages(Inspected(x, method, text, error))
<1> DEFINE result == Inspected(x, method, text, error)
<1>1. /\ result.method = method /\ result.text = text
      /\ result.content # NoContent => result.content = x
  BY DEF Inspected, Fingerprint
<1> HIDE DEF result
<1>2. MethodOf(x) \in Written => TextOf[x] = Joined(Pages[x])
  BY DEF MethodOf, TextOf, Written
<1>3. ASSUME method \in Written, result.content # NoContent
      PROVE  result.content \in Content /\ result.text = Joined(Pages[result.content])
  <2>1. text = TextOf[x] /\ TextOf[x] = Joined(Pages[x])
    BY <1>2, <1>3, Zenon
  <2>2. result.text = text /\ result.content = x
    BY <1>1, <1>3
  <2> QED
    BY <2>1, <2>2
<1>4. SaysItsPages(result)
  BY <1>1, <1>3 DEF SaysItsPages
<1> QED
  BY <1>4 DEF result

\* Only the importer's answer goes to the intake.
LEMMA AnswerQuotes ==
    ASSUME IntakeInv, QuotesSound, NEW t, NEW result, Answers(t, result),
           t = Importer => SaysItsPages(result)
    PROVE  QuotesSound'
<1>1. intake \in IntakeState
  BY DEF IntakeInv, AcquisitionTypeOK
<1>2. CASE t = Importer
  <2>1. intake' = [intake EXCEPT !.pc = "imported", !.result = result]
    BY <1>2 DEF Answers
  <2>2. /\ intake'.proposals = intake.proposals /\ intake'.excerpt = intake.excerpt
        /\ intake'.result = result
    BY <1>1, <2>1 DEF IntakeState
  <2>3. SaysItsPages(intake'.result)
    BY <1>2, <2>2
  <2>4. \A p \in intake'.proposals : p.verified => p.span \in SubSeqs(intake'.excerpt)
    BY <2>2 DEF QuotesSound
  <2> QED
    BY <2>3, <2>4 DEF QuotesSound, SaysItsPages
<1>3. CASE t # Importer
  <2>1. intake' = intake
    BY <1>3 DEF Answers
  <2> QED
    BY <2>1 DEF QuotesSound, SaysItsPages
<1> QED
  BY <1>2, <1>3

LEMMA IntakeUntouched ==
    ASSUME QuotesSound, UNCHANGED intake
    PROVE  QuotesSound'
BY DEF QuotesSound, SaysItsPages

LEMMA InspectQuotes ==
    ASSUME IntakeInv, QuotesSound, NEW t, NEW x \in Content, NEW success \in BOOLEAN,
           Inspect(t, x, success)
    PROVE  QuotesSound'
<1>1. CASE success /\ NeedsOcr(x)
  BY <1>1, IntakeUntouched DEF Inspect
<1>2. CASE ~(success /\ NeedsOcr(x))
  <2>1. PICK result : Answers(t, result) /\ SaysItsPages(result)
    <3>1. CASE Form[x] = "CHALLENGE"
      BY <1>2, <3>1, UnreadSaysItsPages DEF Inspect, Written
    <3>2. CASE Form[x] # "CHALLENGE" /\ ~success
      BY <1>2, <3>2, UnreadSaysItsPages DEF Inspect, Written
    <3>3. CASE Form[x] # "CHALLENGE" /\ success
      BY <1>2, <3>3, InspectedSaysItsPages DEF Inspect
    <3> QED
      BY <3>1, <3>2, <3>3
  <2> QED
    BY <2>1, AnswerQuotes
<1> QED
  BY <1>1, <1>2

\* A scan has no such text, and OCR has a name of its own.
LEMMA ReadsQuotes ==
    ASSUME IntakeInv, QuotesSound, NEW t \in Everyone, thread[t].pc \in InOcr,
           NEW text, Reads(t, text)
    PROVE  QuotesSound'
<1>1. PICK x \in Content : x = thread[t].content
  BY OcrThread
<1>2. Form[x] = "SCAN" /\ adapter \in Runtime
  BY <1>1, OcrThread
<1>3. MethodOf(x) \notin Written /\ adapter \notin Written
  BY <1>2 DEF MethodOf, Written, Runtime
<1>4. PICK method : method \notin Written /\ Answers(t, Inspected(x, method, text, FALSE))
  BY <1>1, <1>3 DEF Reads
<1>5. SaysItsPages(Inspected(x, method, text, FALSE))
  BY <1>4, InspectedSaysItsPages
<1> QED
  BY <1>4, <1>5, AnswerQuotes

LEMMA ThreadQuotes ==
    ASSUME IntakeInv, QuotesSound, NEW t \in Everyone, ThreadStep(t)
    PROVE  QuotesSound'
<1>1. CASE Start(t)
  BY <1>1, IntakeUntouched DEF Start
<1>2. CASE Chunk(t)
  BY <1>2, IntakeUntouched, AnswerQuotes, UnreadSaysItsPages DEF Chunk, Written
<1>3. CASE BodyEnds(t)
  <2>1. t \in Thread /\ thread[t].document \in Slot
    BY <1>3, ThreadTyped DEF ThreadSound, BodyEnds
  <2>2. PICK x \in Content, success \in BOOLEAN : Inspect(t, x, success)
    <3>1. PICK x \in Served[thread[t].document], success \in BOOLEAN : Inspect(t, x, success)
      BY <1>3 DEF BodyEnds
    <3>2. x \in Content
      BY <2>1, SourcesAssumption
    <3> QED
      BY <3>1, <3>2
  <2> QED
    BY <2>2, InspectQuotes
<1>4. CASE FetchFails(t)
  BY <1>4, AnswerQuotes, UnreadSaysItsPages DEF FetchFails, Written
<1>5. CASE OcrLookup(t)
  <2>1. thread[t].pc \in InOcr
    BY <1>5 DEF OcrLookup, InOcr
  <2> QED
    BY <1>5, <2>1, IntakeUntouched, ReadsQuotes DEF OcrLookup
<1>6. CASE VisionReads(t)
  <2>1. thread[t].pc \in InOcr
    BY <1>6 DEF VisionReads, InOcr
  <2>2. \E text : Reads(t, text)
    BY <1>6 DEF VisionReads, Completes
  <2> QED
    BY <2>1, <2>2, ReadsQuotes
<1>7. CASE Renders(t)
  BY <1>7, IntakeUntouched DEF Renders
<1>8. CASE ReadsPage(t)
  <2>1. thread[t].pc \in InOcr
    BY <1>8 DEF ReadsPage, InOcr
  <2>2. (\E text : Reads(t, text)) \/ UNCHANGED intake
    BY <1>8 DEF ReadsPage, Completes
  <2> QED
    BY <2>1, <2>2, ReadsQuotes, IntakeUntouched
<1>9. CASE OcrFails(t)
  <2>1. thread[t].pc \in InOcr
    BY <1>9 DEF OcrFails, InOcr
  <2>2. PICK x \in Content : x = thread[t].content
    BY <2>1, OcrThread
  <2>3. MethodOf(x) \notin Written
    BY <2>1, <2>2, OcrThread DEF MethodOf, Written
  <2>4. SaysItsPages(Inspected(x, MethodOf(x), <<>>, TRUE))
    BY <2>3, InspectedSaysItsPages
  <2>5. Answers(t, Inspected(x, MethodOf(x), <<>>, TRUE))
    BY <1>9, <2>2 DEF OcrFails
  <2> QED
    BY <2>4, <2>5, AnswerQuotes
<1> QED
  BY <1>1, <1>2, <1>3, <1>4, <1>5, <1>6, <1>7, <1>8, <1>9 DEF ThreadStep, OcrStep

LEMMA ExtractQuotes ==
    ASSUME IntakeInv, QuotesSound, ExtractAssisted \/ ExtractDeterministic
    PROVE  QuotesSound'
<1>1. PICK mode, excerpt, spans : Proposes(mode, excerpt, spans)
  BY DEF ExtractAssisted, ExtractDeterministic
<1>2. intake \in IntakeState
  BY DEF IntakeInv, AcquisitionTypeOK
<1> DEFINE proposals == {Finalized(s, Stripped(excerpt)) : s \in spans}
<1>3. intake' = [intake EXCEPT !.pc = "proposed", !.mode = mode, !.excerpt = Stripped(excerpt),
                               !.proposals = proposals]
  BY <1>1 DEF Proposes
<1>4. ASSUME NEW p \in proposals, p.verified
      PROVE  p.span \in SubSeqs(Stripped(excerpt))
  <2>1. PICK s \in spans : p = Finalized(s, Stripped(excerpt))
    OBVIOUS
  <2>2. p.span = Stripped(s) /\ p.verified = (Stripped(s) # <<>> /\ Quoted(Stripped(s), Stripped(excerpt)))
    BY <2>1 DEF Finalized
  <2> QED
    BY <1>4, <2>2 DEF Quoted
<1> HIDE DEF proposals
<1>5. /\ intake'.pc = "proposed" /\ intake'.proposals = proposals
      /\ intake'.excerpt = Stripped(excerpt)
  BY <1>2, <1>3 DEF IntakeState
<1> QED
  BY <1>4, <1>5 DEF QuotesSound

LEMMA ConfirmQuotes == ASSUME IntakeInv, QuotesSound, Confirm PROVE QuotesSound'
<1>1. PICK chosen \in SUBSET intake.proposals :
         intake' = [intake EXCEPT !.pc = "confirmed", !.proposals = chosen]
  BY DEF Confirm
<1>2. intake \in IntakeState
  BY DEF IntakeInv, AcquisitionTypeOK
<1>3. /\ intake'.pc = "confirmed" /\ intake'.proposals = chosen
      /\ intake'.excerpt = intake.excerpt
  BY <1>1, <1>2 DEF IntakeState
<1> QED
  BY <1>3 DEF QuotesSound

LEMMA NextQuotes == IntakeInv /\ QuotesSound /\ [Next]_vars => QuotesSound'
<1> SUFFICES ASSUME IntakeInv, QuotesSound, [Next]_vars PROVE QuotesSound'
  OBVIOUS
<1>1. ASSUME NEW t \in Everyone, ThreadStep(t) PROVE QuotesSound'
  BY <1>1, ThreadQuotes
<1>2. CASE ExtractAssisted \/ ExtractDeterministic
  BY <1>2, ExtractQuotes
<1>3. CASE Confirm
  BY <1>3, ConfirmQuotes
<1>4. CASE Import
  BY <1>4, InspectQuotes DEF Import
<1>5. CASE UNCHANGED vars
  BY <1>5, IntakeUntouched DEF vars
<1> QED
  BY <1>1, <1>2, <1>3, <1>4, <1>5 DEF Next, Everyone

\* The verdict on the quotes of an import, from what is known of its text.
LEMMA QuotesVerified == IntakeInv /\ QuotesSound => QuotedSpanIsFound
<1> SUFFICES ASSUME IntakeInv, QuotesSound,
                    NEW x, x = intake.result.content,
                    intake.pc = "imported", x # NoContent, intake.result.method \in Written,
                    Words(intake.excerpt) \in SubSeqs(Words(Joined(Pages[x]))) \ {<<>>},
                    \A p \in intake.proposals : p.verified
             PROVE  VerdictOf({p.span : p \in intake.proposals}, intake.result) = "VERIFIED"
  BY DEF QuotedSpanIsFound, Written
<1>1. intake \in IntakeState
  BY DEF IntakeInv, AcquisitionTypeOK
<1>2. intake.excerpt \in Text /\ intake.result \in Result \cup {Pending}
  BY <1>1 DEF IntakeState
<1>3. \A p \in intake.proposals : p.span \in Text /\ p.span \in SubSeqs(intake.excerpt)
  BY <1>1 DEF IntakeState, QuotesSound
<1>4. PICK text : text = intake.result.text /\ text = Joined(Pages[x])
  BY DEF QuotesSound, SaysItsPages
<1>5. text \in Text
  <2>1. x \in Content
    BY DEF QuotesSound, SaysItsPages
  <2> QED
    BY <1>4, <2>1, WrittenText
<1>6. Normalized(intake.excerpt) \in SubSeqs(Normalized(text)) /\ Letters(text) # {}
  BY <1>2, <1>4, <1>5, QuoteOfWords
<1> DEFINE spans == {p.span : p \in intake.proposals}
<1>7. ASSUME NEW s \in spans
      PROVE  Quoted(Normalized(s), Normalized(text))
  <2>1. s \in Text /\ s \in SubSeqs(intake.excerpt)
    BY <1>3
  <2>2. Normalized(s) \in SubSeqs(Normalized(intake.excerpt))
    BY <1>2, <2>1, NormalizedQuote
  <2>3. /\ Normalized(s) \in Seq(Char) /\ Normalized(intake.excerpt) \in Seq(Char)
        /\ Normalized(text) \in Seq(Char)
    BY <1>2, <1>5, <2>1, NormalizedText DEF Text
  <2> QED
    BY <1>6, <2>2, <2>3, QuoteOfQuote DEF Quoted
<1> HIDE DEF spans
<1>8. \A tolerant : Found(spans, text, tolerant) = spans
  BY <1>7 DEF Found
<1>9. Stripped(text) # <<>>
  BY <1>5, <1>6, LetterIsVisible
<1>10. VerdictOf(spans, intake.result) = "VERIFIED"
  <2>1. PICK tolerant : tolerant = (intake.result.method \in OcrMethod)
    OBVIOUS
  <2>2. VerdictOf(spans, intake.result) = Verdict(spans, text, tolerant)
    BY <1>4, <2>1 DEF VerdictOf
  <2>3. Found(spans, text, tolerant) = spans
    BY <1>8
  <2> HIDE DEF Found
  <2> QED
    BY <1>9, <2>2, <2>3 DEF Verdict
<1> QED
  BY <1>10 DEF spans

\* Whatever a reviewer was shown as a verbatim quote of an excerpt and confirmed, the
\* import finds in a source that has the words of the excerpt, for texts of any length
\* over any alphabet: _normalized_text makes no quote of a text one that is missing
\* from the same words in another layout (_finalize, _verify_assertions).
THEOREM QuotesAreFound == Spec => []QuotedSpanIsFound
<1>1. Init => QuotesSound
  BY DEF Init, QuotesSound
<1>2. IntakeInv /\ IntakeInv' /\ QuotesSound /\ [Next]_vars => QuotesSound'
  BY NextQuotes
<1>3. IntakeInv /\ QuotesSound => QuotedSpanIsFound
  BY QuotesVerified
<1> QED
  BY <1>1, <1>2, <1>3, IntakeInvHolds, PTL DEF Spec
=============================================================================
