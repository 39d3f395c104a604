------------------------------- MODULE Findings -------------------------------
(***************************************************************************)
(* The findings board: what derive_findings makes of a set of active       *)
(* events.  A finding is named by what it is about; wording is left out.   *)
(* Kinds and source types are sequences of the words between underscores.  *)
(***************************************************************************)
EXTENDS Naturals, Sequences, FiniteSets

EventClassSuffixes ==
    [DISPOSAL |-> "disposal", CONCEALMENT |-> "concealment", RECOVERY |-> "recovery",
     TRANSFER |-> "transfer", TRANSFERRED |-> "transfer", AGREEMENT |-> "agreement"]

ConflictingClassPairs == {{"disposal", "concealment"}}

\* The last word of a kind decides; a kind that is not listed has no class.
EventClass(kind) ==
    LET last == kind[Len(kind)]
    IN  IF last \in DOMAIN EventClassSuffixes THEN EventClassSuffixes[last] ELSE "none"

StartsWith(name, word) == Len(name) > 1 /\ name[1] = word

SourceTier(sourceType, kind) ==
    IF sourceType = <<"court", "outcome", "record">> /\ StartsWith(kind, "COURT")
      THEN "court"
    ELSE IF sourceType \in {<<"criminal", "complaint">>, <<"indictment", "announcement">>}
      THEN "allegation"
    ELSE IF sourceType = <<"agency", "case", "history">>
      THEN "agency"
    ELSE IF StartsWith(sourceType, "officer") \/ StartsWith(sourceType, "user")
      THEN "officer"
    ELSE IF StartsWith(kind, "COURT")
      THEN "court"
    ELSE IF StartsWith(kind, "COMPLAINT") \/ StartsWith(kind, "INDICTMENT")
      THEN "allegation"
    ELSE "agency"

-----------------------------------------------------------------------------
(* Events: [assertion, document, source_type, entity, day, kind] *)

Documents(events) == {e.document : e \in events}
Assertions(events) == {e.assertion : e \in events}
Tiers(events) == {SourceTier(e.source_type, e.kind) : e \in events}

\* _group_events: the entity-days, and the events of each.
EntityDays(events) == {[entity |-> e.entity, day |-> e.day] : e \in events}
Group(events, about) == {e \in events : e.entity = about.entity /\ e.day = about.day}

\* _events_by_class: events without a class are in no class.
Classes(group) == {EventClass(e.kind) : e \in group} \ {"none"}
OfClasses(group, classes) == {e \in group : EventClass(e.kind) \in classes}

-----------------------------------------------------------------------------
(* Findings *)

Finding(category, about, classes, events) ==
    [category |-> category, entity |-> about.entity, day |-> about.day,
     classes |-> classes, events |-> events]

\* Mutant: only the events of the class that comes first are cited.
ContradictionsCiteOneSide(about, group) ==
    {Finding("contradictions", about, pair, OfClasses(group, pair \ {"disposal"})) :
        pair \in {p \in ConflictingClassPairs : p \subseteq Classes(group)}}
Contradictions(about, group) ==
    {Finding("contradictions", about, pair, OfClasses(group, pair)) :
        pair \in {p \in ConflictingClassPairs : p \subseteq Classes(group)}}

\* Mutant: exactly two.
CorroboratedByTwo(events) == Cardinality(Documents(events)) = 2
\* Mutant: two assertions are enough, of whatever document.
CorroboratedByAssertions(events) == Cardinality(Assertions(events)) >= 2
\* len(documents) < 2: none.
Corroborated(events) == Cardinality(Documents(events)) >= 2

Corroborations(about, group) ==
    {Finding("corroborations", about, {class}, OfClasses(group, {class})) :
        class \in {c \in Classes(group) : Corroborated(OfClasses(group, {c}))}}

SingleSource(about, group) ==
    IF Cardinality(Documents(group)) = 1
      THEN {Finding("single_source", about, {}, group)} ELSE {}

DeriveFindings(events) ==
    UNION {LET group == Group(events, about)
           IN  Contradictions(about, group) \cup Corroborations(about, group)
                 \cup SingleSource(about, group)
             : about \in EntityDays(events)}

\* Mutant: a finding is identified by its entity and day alone.
EntityDayId(f) == [type |-> "FINDING", entity |-> f.entity, day |-> f.day, assertions |-> {}]
\* _finding_id; the truncated digest is taken for what it is a digest of.
FindingId(f) == [type |-> f.category, entity |-> f.entity, day |-> f.day,
                 assertions |-> Assertions(f.events)]

\* Support of a corroboration.
CrossTier(f) == Cardinality(Tiers(f.events)) > 1
Support(f) ==
    CASE f.category = "contradictions" -> "CONFLICTED"
      [] f.category = "corroborations" -> IF CrossTier(f) THEN "STRONG" ELSE "MODERATE"
      [] f.category = "single_source"  -> "LIMITED"

\* Mutant: the classes are left out.
FindingKeyOfDay(f) == [entity |-> f.entity, day |-> f.day]
\* finding_keys of the change brief: what makes two findings the same one at
\* two revisions.
FindingKey(f) == [entity |-> f.entity, day |-> f.day, classes |-> f.classes]
FindingKeys(events, category) ==
    {FindingKey(f) : f \in {g \in DeriveFindings(events) : g.category = category}}
=============================================================================
