------------------------------ MODULE SourceText ------------------------------
(***************************************************************************)
(* What the intake makes of text: the spans that are proposed from an      *)
(* excerpt (extraction.py) and the spans of a document that are found in   *)
(* the text of its source (public_artifacts.py).  A text is a sequence of  *)
(* characters of which only the three classes below are told apart.        *)
(***************************************************************************)
EXTENDS SequencesExt

CONSTANTS
    Letter,    \* what [a-z0-9] matches once the case is folded
    Mark,      \* any other visible character; before a blank it ends a sentence
    Blank,     \* white space
    FewestWords  \* the words that a span needs to be read with tolerance

Char == Letter \cup {Mark, Blank}
Text == Seq(Char)

ASSUME CharAssumption == Mark \notin Letter /\ Blank \notin Letter \cup {Mark}
ASSUME WordsAssumption == FewestWords \in Nat \ {0}

Quoted(span, text) == span \in SubSeqs(text)

Visible(text) == {i \in DOMAIN text : text[i] # Blank}
Stripped(text) ==
    IF Visible(text) = {} THEN <<>> ELSE SubSeq(text, Min(Visible(text)), Max(Visible(text)))

-----------------------------------------------------------------------------
(* Verification *)

\* Mutant: white space is trimmed and the rest is compared as it is.
TrimmedOnly(text) == Stripped(text)

\* The n-th of some places.
Place(places, n) == CHOOSE i \in places : Cardinality({j \in places : j <= i}) = n

\* What is left of a text: its letters and, for whatever is between two of them, one place.
Letters(text) == {i \in DOMAIN text : text[i] \in Letter}
Kept(text) ==
    Letters(text) \cup {i \in DOMAIN text : /\ i - 1 \in Letters(text)
                                           /\ \E j \in Letters(text) : i < j}
CharOf(text, i) == IF i \in Letters(text) THEN text[i] ELSE Blank

\* Whatever is not a letter becomes a blank, a run of blanks one, and none is at an end.
Normalized(text) == [n \in 1..Cardinality(Kept(text)) |-> CharOf(text, Place(Kept(text), n))]

WordStarts(text) == {i \in DOMAIN text : i = 1 \/ text[i - 1] = Blank}

\* As many words somewhere in the text are the same but for 18 of 100 letters.
\* Letters that a reading adds or drops are left out.
TolerantMatch(span, text) ==
    /\ Cardinality(WordStarts(span)) >= FewestWords
    /\ \E i \in WordStarts(text) :
         LET end == i + Len(span) - 1
             window == SubSeq(text, i, end)
         IN  /\ end <= Len(text)
             /\ end = Len(text) \/ text[end + 1] = Blank
             /\ Cardinality(WordStarts(window)) = Cardinality(WordStarts(span))
             /\ 100 * Cardinality({n \in DOMAIN span : span[n] # window[n]}) <= 18 * Len(span)

Found(spans, text, tolerant) ==
    {s \in spans : \/ Quoted(Normalized(s), Normalized(text))
                   \/ tolerant /\ TolerantMatch(Normalized(s), Normalized(text))}

\* _verify_assertions, for the distinct spans of a document.
Verdict(spans, text, tolerant) ==
    LET found == Found(spans, text, tolerant)
    IN  IF Stripped(text) = <<>> THEN "NOT_RUN"
        ELSE IF found = spans THEN "VERIFIED"
        ELSE IF found # {} THEN "PARTIAL" ELSE "UNVERIFIED"

-----------------------------------------------------------------------------
(* Extraction *)

\* The pieces between blanks that follow a mark; a line break is such a blank.
Sentences(excerpt) ==
    LET cuts == {0, Len(excerpt) + 1}
                  \cup {i \in 2..Len(excerpt) : excerpt[i] = Blank /\ excerpt[i - 1] = Mark}
        pieces == {p \in cuts \X cuts : p[1] < p[2] /\ ~\E c \in cuts : p[1] < c /\ c < p[2]}
    IN  {Stripped(SubSeq(excerpt, p[1] + 1, p[2] - 1)) : p \in pieces} \ {<<>>}

\* _finalize: a proposal is the span and whether the excerpt has it verbatim.
Finalized(span, excerpt) ==
    LET s == Stripped(span)
    IN  [span |-> s, verified |-> s # <<>> /\ Quoted(s, excerpt)]
=============================================================================
