-------------------------- MODULE CaseAnalysisProofs --------------------------
(***************************************************************************)
(* What the findings board promises, for any documents, source types and   *)
(* claims.                                                                 *)
(***************************************************************************)
EXTENDS CaseAnalysis, FiniteSetTheorems, TLAPS

-----------------------------------------------------------------------------
(* Lemmas about the rules *)

\* Any source and kind have one of the four legal-status tiers.
LEMMA TierType ==
    ASSUME NEW sourceType, NEW kind
    PROVE  SourceTier(sourceType, kind) \in {"court", "allegation", "agency", "officer"}
BY DEF SourceTier

\* A finite set with two elements has two different ones.
LEMMA TwoElements ==
    ASSUME NEW S, IsFiniteSet(S), Cardinality(S) > 1
    PROVE  \E x, y \in S : x # y
<1>1. Cardinality(S) # 0 /\ Cardinality(S) # 1
  BY FS_CardinalityType
<1>2. PICK x \in S : TRUE
  BY <1>1, FS_EmptySet
<1>3. S # {x}
  BY <1>1, FS_Singleton
<1> QED
  BY <1>2, <1>3

\* Some tiers are finitely many.
LEMMA TiersFinite ==
    ASSUME NEW events
    PROVE  IsFiniteSet(Tiers(events))
<1> DEFINE All == {"court", "allegation", "agency", "officer"}
<1>1. IsFiniteSet({"court"} \cup {"allegation"} \cup {"agency"} \cup {"officer"})
  <2>1. IsFiniteSet({"court"})
    BY FS_Singleton
  <2>2. IsFiniteSet({"court"} \cup {"allegation"})
    BY <2>1, FS_AddElement
  <2>3. IsFiniteSet({"court"} \cup {"allegation"} \cup {"agency"})
    BY <2>2, FS_AddElement
  <2> QED
    BY <2>3, FS_AddElement
<1>2. All = {"court"} \cup {"allegation"} \cup {"agency"} \cup {"officer"}
  OBVIOUS
<1>3. Tiers(events) \in SUBSET All
  BY TierType DEF Tiers
<1> QED
  BY <1>1, <1>2, <1>3, FS_Subset

\* If events come from two records and are in two tiers, then some two of them
\* differ in both (_corroboration_finding counts records and tiers apart).
LEMMA RecordsAndTiers ==
    ASSUME NEW events, IsFiniteSet(Documents(events)),
           Corroborated(events), Cardinality(Tiers(events)) > 1
    PROVE  \E e, o \in events :
              /\ e.document # o.document
              /\ SourceTier(e.source_type, e.kind) # SourceTier(o.source_type, o.kind)
<1> DEFINE tier(e) == SourceTier(e.source_type, e.kind)
<1>1. Cardinality(Documents(events)) > 1
  BY FS_CardinalityType DEF Corroborated
<1>2. PICK a, b \in events : a.document # b.document
  BY <1>1, TwoElements DEF Documents
<1>3. PICK t, u \in Tiers(events) : t # u
  BY TiersFinite, TwoElements
<1>4. PICK c \in events : tier(c) # tier(a)
  BY <1>3 DEF Tiers
<1>5. CASE tier(a) # tier(b)
  BY <1>2, <1>5
<1>6. CASE tier(a) = tier(b) /\ c.document # a.document
  BY <1>4, <1>6
<1>7. CASE tier(a) = tier(b) /\ c.document = a.document
  BY <1>2, <1>4, <1>7
<1> QED
  BY <1>5, <1>6, <1>7

\* Each rule makes findings of its own category.
LEMMA RuleCategories ==
    ASSUME NEW about, NEW group
    PROVE  /\ \A f \in Contradictions(about, group) : f.category = "contradictions"
           /\ \A f \in Corroborations(about, group) : f.category = "corroborations"
           /\ \A f \in SingleSource(about, group) : f.category = "single_source"
<1>1. \A f \in Contradictions(about, group) : f.category = "contradictions"
  BY DEF Contradictions, Finding
<1>2. ASSUME NEW f \in Corroborations(about, group)
      PROVE  f.category = "corroborations"
  <2>1. PICK class : f = Finding("corroborations", about, {class}, OfClasses(group, {class}))
    BY <1>2 DEF Corroborations
  <2> QED
    BY <2>1 DEF Finding
<1>3. \A f \in SingleSource(about, group) : f.category = "single_source"
  BY DEF SingleSource, Finding
<1> QED
  BY <1>1, <1>2, <1>3

\* A finding is made by one of the three rules, from one entity-day.
LEMMA BoardShape ==
    ASSUME NEW events, NEW f \in DeriveFindings(events)
    PROVE  \E about \in EntityDays(events) :
              \/ f \in Contradictions(about, Group(events, about))
              \/ f \in Corroborations(about, Group(events, about))
              \/ f \in SingleSource(about, Group(events, about))
BY DEF DeriveFindings

\* A finding of category corroborations has two records of one class.
LEMMA CorroborationShape ==
    ASSUME NEW events, NEW f \in DeriveFindings(events), f.category = "corroborations"
    PROVE  \E about \in EntityDays(events) : \E class \in Classes(Group(events, about)) :
              /\ f = Finding("corroborations", about, {class},
                             OfClasses(Group(events, about), {class}))
              /\ Corroborated(OfClasses(Group(events, about), {class}))
<1>1. PICK about \in EntityDays(events) :
              \/ f \in Contradictions(about, Group(events, about))
              \/ f \in Corroborations(about, Group(events, about))
              \/ f \in SingleSource(about, Group(events, about))
  BY BoardShape
<1>2. f \in Corroborations(about, Group(events, about))
  BY <1>1, RuleCategories
<1> QED
  BY <1>2 DEF Corroborations

\* A finding of category single_source has all of its entity-day.
LEMMA SingleSourceShape ==
    ASSUME NEW events, NEW f \in DeriveFindings(events), f.category = "single_source"
    PROVE  \E about \in EntityDays(events) :
              /\ f = Finding("single_source", about, {}, Group(events, about))
              /\ Cardinality(Documents(Group(events, about))) = 1
<1>1. PICK about \in EntityDays(events) :
              \/ f \in Contradictions(about, Group(events, about))
              \/ f \in Corroborations(about, Group(events, about))
              \/ f \in SingleSource(about, Group(events, about))
  BY BoardShape
<1>2. f \in SingleSource(about, Group(events, about))
  BY <1>1, RuleCategories
<1> QED
  BY <1>2 DEF SingleSource

\* A finding of category contradictions has both sides of a conflicting pair.
LEMMA ContradictionShape ==
    ASSUME NEW events, NEW f \in DeriveFindings(events), f.category = "contradictions"
    PROVE  \E about \in EntityDays(events) : \E pair \in ConflictingClassPairs :
              /\ pair \subseteq Classes(Group(events, about))
              /\ f = Finding("contradictions", about, pair,
                             OfClasses(Group(events, about), pair))
<1>1. PICK about \in EntityDays(events) :
              \/ f \in Contradictions(about, Group(events, about))
              \/ f \in Corroborations(about, Group(events, about))
              \/ f \in SingleSource(about, Group(events, about))
  BY BoardShape
<1>2. f \in Contradictions(about, Group(events, about))
  BY <1>1, RuleCategories
<1> QED
  BY <1>2 DEF Contradictions

\* The records of a part of the events are finitely many if those of all are,
\* and no more.
LEMMA FewerDocuments ==
    ASSUME NEW all, NEW part \in SUBSET all, IsFiniteSet(Documents(all))
    PROVE  /\ IsFiniteSet(Documents(part))
           /\ Cardinality(Documents(part)) \in Nat
           /\ Cardinality(Documents(all)) \in Nat
           /\ Cardinality(Documents(part)) <= Cardinality(Documents(all))
<1>1. Documents(part) \in SUBSET Documents(all)
  BY DEF Documents
<1> QED
  BY <1>1, FS_Subset, FS_CardinalityType

\* More events keep every contradiction and every corroboration.
LEMMA MoreEvidence ==
    ASSUME NEW before, NEW after, before \subseteq after,
           IsFiniteSet(Documents(after)),
           NEW category \in {"contradictions", "corroborations"}
    PROVE  FindingKeys(before, category) \subseteq FindingKeys(after, category)
<1> SUFFICES ASSUME NEW f \in DeriveFindings(before), f.category = category
             PROVE  \E g \in DeriveFindings(after) :
                       g.category = category /\ FindingKey(g) = FindingKey(f)
  BY DEF FindingKeys
<1>1. EntityDays(before) \subseteq EntityDays(after)
  BY DEF EntityDays
<1>2. \A about : Group(before, about) \subseteq Group(after, about)
  BY DEF Group
<1>3. CASE category = "contradictions"
  <2>1. PICK about \in EntityDays(before), pair \in ConflictingClassPairs :
              /\ pair \subseteq Classes(Group(before, about))
              /\ f = Finding("contradictions", about, pair,
                             OfClasses(Group(before, about), pair))
    BY <1>3, ContradictionShape
  <2> DEFINE g == Finding("contradictions", about, pair,
                          OfClasses(Group(after, about), pair))
  <2>2. Classes(Group(before, about)) \subseteq Classes(Group(after, about))
    BY <1>2 DEF Classes
  <2>3. g \in Contradictions(about, Group(after, about))
    BY <2>1, <2>2 DEF Contradictions
  <2>4. g \in DeriveFindings(after)
    BY <1>1, <2>1, <2>3 DEF DeriveFindings
  <2>5. g.category = category /\ FindingKey(g) = FindingKey(f)
    BY <1>3, <2>1 DEF Finding, FindingKey
  <2> QED
    BY <2>4, <2>5
<1>4. CASE category = "corroborations"
  <2>0. PICK about \in EntityDays(before) :
          \E class \in Classes(Group(before, about)) :
              /\ f = Finding("corroborations", about, {class},
                             OfClasses(Group(before, about), {class}))
              /\ Corroborated(OfClasses(Group(before, about), {class}))
    BY <1>4, CorroborationShape
  <2>1. PICK class \in Classes(Group(before, about)) :
              /\ f = Finding("corroborations", about, {class},
                             OfClasses(Group(before, about), {class}))
              /\ Corroborated(OfClasses(Group(before, about), {class}))
    BY <2>0
  <2> DEFINE part == OfClasses(Group(before, about), {class})
             all == OfClasses(Group(after, about), {class})
             g == Finding("corroborations", about, {class}, all)
  <2>2. class \in Classes(Group(after, about))
    BY <1>2, <2>1 DEF Classes
  <2>3. part \subseteq all /\ all \subseteq after
    BY <1>2 DEF OfClasses, Group
  <2>4. Corroborated(all)
    <3>1. IsFiniteSet(Documents(all))
      BY <2>3, FewerDocuments
    <3> QED
      BY <2>1, <2>3, <3>1, FewerDocuments DEF Corroborated
  <2>5. g \in Corroborations(about, Group(after, about))
    BY <2>2, <2>4 DEF Corroborations
  <2>6. g \in DeriveFindings(after)
    BY <1>1, <2>1, <2>5 DEF DeriveFindings
  <2>7. g.category = category /\ FindingKey(g) = FindingKey(f)
    BY <1>4, <2>1 DEF Finding, FindingKey
  <2> QED
    BY <2>6, <2>7
<1> QED
  BY <1>3, <1>4

-----------------------------------------------------------------------------
(* The case *)

\* A finding cites active events of its entity-day, at least one.
LEMMA FindingCites ==
    ASSUME NEW events, NEW f \in DeriveFindings(events)
    PROVE  /\ f.events \subseteq events
           /\ \E e \in events : e.entity = f.entity /\ e.day = f.day
<1>1. PICK about \in EntityDays(events) :
              \/ f \in Contradictions(about, Group(events, about))
              \/ f \in Corroborations(about, Group(events, about))
              \/ f \in SingleSource(about, Group(events, about))
  BY BoardShape
<1> DEFINE group == Group(events, about)
<1>2. PICK category, classes, cited :
              /\ f = Finding(category, about, classes, cited)
              /\ cited \subseteq group
  <2>1. CASE f \in Contradictions(about, group)
    BY <2>1 DEF Contradictions, OfClasses
  <2>2. CASE f \in Corroborations(about, group)
    <3>1. PICK class : f = Finding("corroborations", about, {class}, OfClasses(group, {class}))
      BY <2>2 DEF Corroborations
    <3> QED
      BY <3>1 DEF OfClasses
  <2>3. CASE f \in SingleSource(about, group)
    BY <2>3 DEF SingleSource
  <2> QED
    BY <1>1, <2>1, <2>2, <2>3
<1>3. f.events = cited /\ f.entity = about.entity /\ f.day = about.day
  BY <1>2 DEF Finding
<1>4. cited \subseteq events
  BY <1>2 DEF Group
<1>5. \E e \in events : e.entity = about.entity /\ e.day = about.day
  BY DEF EntityDays
<1> QED
  BY <1>3, <1>4, <1>5

\* An active event is known by its assertion.
LEMMA AssertionIdentifies ==
    ASSUME NEW e \in ActiveEvents, NEW o \in ActiveEvents, e.assertion = o.assertion
    PROVE  e = o
<1> DEFINE Event(d, c) ==
              [assertion |-> <<d, c>>, document |-> d, source_type |-> SourceTypeOf[d],
               entity |-> c.entity, day |-> c.day, kind |-> c.kind]
<1>1. PICK d, c : e = Event(d, c)
  BY DEF ActiveEvents
<1>2. PICK d2, c2 : o = Event(d2, c2)
  BY DEF ActiveEvents
<1>3. <<d, c>> = <<d2, c2>>
  BY <1>1, <1>2
<1> QED
  BY <1>1, <1>2, <1>3

\* Active events with the same assertions are the same.
LEMMA AssertionsIdentify ==
    ASSUME NEW E \in SUBSET ActiveEvents, NEW F \in SUBSET ActiveEvents,
           Assertions(E) = Assertions(F)
    PROVE  E = F
<1>1. ASSUME NEW X \in SUBSET ActiveEvents, NEW Y \in SUBSET ActiveEvents,
             Assertions(X) = Assertions(Y), NEW e \in X
      PROVE  e \in Y
  <2>1. PICK o \in Y : o.assertion = e.assertion
    BY <1>1 DEF Assertions
  <2> QED
    BY <1>1, <2>1, AssertionIdentifies
<1> QED
  BY <1>1

\* Two findings of one category and entity-day that cite the same events are one.
LEMMA EventsIdentify ==
    ASSUME NEW events, NEW f \in DeriveFindings(events), NEW g \in DeriveFindings(events),
           f.category = g.category, f.entity = g.entity, f.day = g.day, f.events = g.events
    PROVE  f = g
<1>1. f.category \in Categories
  BY BoardShape, RuleCategories DEF Categories
<1>2. CASE f.category = "contradictions"
  <2>1. \A h \in DeriveFindings(events) : h.category = "contradictions" =>
           h = Finding("contradictions", h, {"disposal", "concealment"}, h.events)
    BY ContradictionShape DEF ConflictingClassPairs, Finding
  <2>2. f = Finding("contradictions", f, {"disposal", "concealment"}, f.events)
    BY <1>2, <2>1
  <2>3. g = Finding("contradictions", g, {"disposal", "concealment"}, g.events)
    BY <1>2, <2>1
  <2> QED
    BY <2>2, <2>3 DEF Finding
<1>3. CASE f.category = "single_source"
  <2>1. \A h \in DeriveFindings(events) : h.category = "single_source" =>
           h = Finding("single_source", h, {}, h.events)
    BY SingleSourceShape DEF Finding
  <2>2. f = Finding("single_source", f, {}, f.events)
    BY <1>3, <2>1
  <2>3. g = Finding("single_source", g, {}, g.events)
    BY <1>3, <2>1
  <2> QED
    BY <2>2, <2>3 DEF Finding
<1>4. CASE f.category = "corroborations"
  <2>1. ASSUME NEW h \in DeriveFindings(events), h.category = "corroborations"
        PROVE  \E about, class :
                  /\ h = Finding("corroborations", about, {class}, h.events)
                  /\ \E e \in h.events : EventClass(e.kind) = class
                  /\ \A e \in h.events : EventClass(e.kind) = class
    <3>1. PICK about \in EntityDays(events) : \E class \in Classes(Group(events, about)) :
              /\ h = Finding("corroborations", about, {class},
                             OfClasses(Group(events, about), {class}))
              /\ Corroborated(OfClasses(Group(events, about), {class}))
      BY <2>1, CorroborationShape
    <3>2. PICK class \in Classes(Group(events, about)) :
              h = Finding("corroborations", about, {class},
                          OfClasses(Group(events, about), {class}))
      BY <3>1
    <3>3. h.events = OfClasses(Group(events, about), {class})
      BY <3>2 DEF Finding
    <3>4. /\ \E e \in h.events : EventClass(e.kind) = class
          /\ \A e \in h.events : EventClass(e.kind) = class
      BY <3>3 DEF OfClasses, Classes
    <3> QED
      BY <3>2, <3>3, <3>4
  <2>2. PICK about, class :
                  /\ f = Finding("corroborations", about, {class}, f.events)
                  /\ \E e \in f.events : EventClass(e.kind) = class
                  /\ \A e \in f.events : EventClass(e.kind) = class
    BY <1>4, <2>1
  <2>3. PICK about2, class2 :
                  /\ g = Finding("corroborations", about2, {class2}, g.events)
                  /\ \E e \in g.events : EventClass(e.kind) = class2
                  /\ \A e \in g.events : EventClass(e.kind) = class2
    BY <1>4, <2>1
  <2>4. class = class2
    BY <2>2, <2>3
  <2>5. about.entity = about2.entity /\ about.day = about2.day
    BY <2>2, <2>3 DEF Finding
  <2> QED
    BY <2>2, <2>3, <2>4, <2>5 DEF Finding
<1> QED
  BY <1>1, <1>2, <1>3, <1>4 DEF Categories

\* Two findings do not share a node.
LEMMA NodesIdentify ==
    ASSUME NEW f \in Board, NEW g \in Board, FindingNode(f) = FindingNode(g)
    PROVE  f = g
<1>1. FindingId(f) = FindingId(g)
  BY DEF FindingNode, Node
<1>2. /\ f.category = g.category
      /\ f.entity = g.entity
      /\ f.day = g.day
      /\ Assertions(f.events) = Assertions(g.events)
  BY <1>1 DEF FindingId
<1>3. f.events \in SUBSET ActiveEvents /\ g.events \in SUBSET ActiveEvents
  BY FindingCites DEF Board
<1>4. f.events = g.events
  BY <1>2, <1>3, AssertionsIdentify
<1> QED
  BY <1>2, <1>4, EventsIdentify DEF Board

\* The active events come from finitely many records.
LEMMA ActiveDocumentsFinite == IsFiniteSet(Documents(ActiveEvents))
<1>1. Documents(ActiveEvents) \in SUBSET Doc
  BY DEF Documents, ActiveEvents
<1> QED
  BY <1>1, DocAssumption, FS_Subset

\* Documents and tombstones keep their types, no document asserts more than its
\* bound, and only what was received is retracted (retract_document).
THEOREM AnalysisTypeCorrect == Spec => []TypeOK
<1>1. Init => TypeOK
  BY FS_EmptySet, MaxClaimsAssumption DEF Init, TypeOK, Ingested
<1>2. TypeOK /\ [Next]_vars => TypeOK'
  <2> SUFFICES ASSUME TypeOK, [Next]_vars PROVE TypeOK'
    OBVIOUS
  <2>1. ASSUME NEW d \in Doc, NEW asserted \in Contents, Ingest(d, asserted)
        PROVE  TypeOK'
    <3>1. asserted \in SUBSET Statement /\ IsFiniteSet(asserted) /\ Cardinality(asserted) <= MaxClaims
      BY MaxClaimsAssumption DEF Contents
    <3>2. claims' \in [Doc -> SUBSET Statement]
      BY <2>1, <3>1 DEF Ingest, TypeOK
    <3>3. \A x \in Doc : IsFiniteSet(claims'[x]) /\ Cardinality(claims'[x]) <= MaxClaims
      BY <2>1, <3>1 DEF Ingest, TypeOK
    <3>4. retracted' \subseteq Ingested'
      BY <2>1 DEF Ingest, TypeOK, Ingested
    <3> QED
      BY <3>2, <3>3, <3>4 DEF TypeOK
  <2>2. ASSUME NEW d \in Doc, Retract(d)
        PROVE  TypeOK'
    BY <2>2 DEF Retract, TypeOK, Ingested
  <2>3. CASE UNCHANGED vars
    BY <2>3 DEF vars, TypeOK, Ingested
  <2> QED
    BY <2>1, <2>2, <2>3 DEF Next
<1> QED
  BY <1>1, <1>2, PTL DEF Spec

\* STRONG support always rests on two different records in different tiers,
\* although _corroboration_finding counts records and tiers independently.
THEOREM StrongSupportIsIndependent == Spec => []StrongIsIndependent
<1>1. StrongIsIndependent
  <2> SUFFICES ASSUME NEW f \in Board, Support(f) = "STRONG"
               PROVE  \E e, o \in f.events :
                         /\ e.document # o.document
                         /\ SourceTier(e.source_type, e.kind)
                              # SourceTier(o.source_type, o.kind)
    BY DEF StrongIsIndependent
  <2>1. f.category \in Categories
    BY BoardShape, RuleCategories DEF Board, Categories
  <2>2. f.category = "corroborations" /\ CrossTier(f)
    BY <2>1 DEF Support, Categories
  <2>3. PICK about, class :
              /\ f = Finding("corroborations", about, {class},
                             OfClasses(Group(ActiveEvents, about), {class}))
              /\ Corroborated(OfClasses(Group(ActiveEvents, about), {class}))
    BY <2>2, CorroborationShape DEF Board
  <2>4. f.events = OfClasses(Group(ActiveEvents, about), {class})
    BY <2>3 DEF Finding
  <2>5. f.events \in SUBSET ActiveEvents
    BY <2>4 DEF OfClasses, Group
  <2>6. IsFiniteSet(Documents(f.events))
    BY <2>5, ActiveDocumentsFinite, FewerDocuments
  <2>7. Corroborated(f.events) /\ Cardinality(Tiers(f.events)) > 1
    BY <2>2, <2>3, <2>4 DEF CrossTier
  <2> QED
    BY <2>6, <2>7, RecordsAndTiers
<1> QED
  BY <1>1, PTL

\* The board never calls one source the only support of an entity-day and
\* another event of that day corroborated (_single_source_finding counts the
\* records of the day, _corroboration_finding those of a class).
THEOREM GapsNeverCorroborated == Spec => []GapsAreUncorroborated
<1>1. GapsAreUncorroborated
  <2> SUFFICES ASSUME NEW f \in Board, NEW g \in Board,
                      f.category = "single_source", g.category = "corroborations",
                      f.entity = g.entity, f.day = g.day
               PROVE  FALSE
    BY DEF GapsAreUncorroborated
  <2>1. PICK about \in EntityDays(ActiveEvents) :
              /\ f = Finding("single_source", about, {}, Group(ActiveEvents, about))
              /\ Cardinality(Documents(Group(ActiveEvents, about))) = 1
    BY SingleSourceShape DEF Board
  <2>2. PICK same \in EntityDays(ActiveEvents) :
          \E class \in Classes(Group(ActiveEvents, same)) :
              /\ g = Finding("corroborations", same, {class},
                             OfClasses(Group(ActiveEvents, same), {class}))
              /\ Corroborated(OfClasses(Group(ActiveEvents, same), {class}))
    BY CorroborationShape DEF Board
  <2>3. PICK class :
              /\ g = Finding("corroborations", same, {class},
                             OfClasses(Group(ActiveEvents, same), {class}))
              /\ Corroborated(OfClasses(Group(ActiveEvents, same), {class}))
    BY <2>2
  <2>4. about.entity = same.entity /\ about.day = same.day
    BY <2>1, <2>3 DEF Finding
  <2> DEFINE all == Group(ActiveEvents, about)
             part == OfClasses(Group(ActiveEvents, same), {class})
  <2>5. part \subseteq all /\ all \subseteq ActiveEvents
    BY <2>4 DEF OfClasses, Group
  <2>6. IsFiniteSet(Documents(all))
    BY <2>5, ActiveDocumentsFinite, FewerDocuments
  <2>7. Cardinality(Documents(part)) \in Nat /\ Cardinality(Documents(part)) <= 1
    BY <2>1, <2>5, <2>6, FewerDocuments
  <2> QED
    BY <2>3, <2>7 DEF Corroborated
<1> QED
  BY <1>1, PTL

\* New evidence clears no contradiction and no corroboration and a retraction
\* opens none, whatever the documents say (the delta of case_changes).
THEOREM EvidenceAccumulates == Spec => EvidenceIsMonotone
<1> DEFINE Monotone ==
              \A category \in {"contradictions", "corroborations"} :
                 LET before == FindingKeys(ActiveEvents, category)
                     after == FindingKeys(ActiveEvents', category)
                 IN  IF retracted' = retracted THEN before \subseteq after
                                               ELSE after \subseteq before
<1>1. TypeOK /\ [Next]_vars => [Monotone]_vars
  <2> SUFFICES ASSUME TypeOK, Next PROVE Monotone
    OBVIOUS
  <2>1. ASSUME NEW d \in Doc, NEW asserted \in Contents, Ingest(d, asserted)
        PROVE  Monotone
    <3>1. retracted' = retracted
      BY <2>1 DEF Ingest
    <3>2. \A x \in Doc : claims[x] \subseteq claims'[x]
      BY <2>1 DEF Ingest, TypeOK
    <3>3. ActiveEvents \subseteq ActiveEvents'
      BY <3>1, <3>2 DEF ActiveEvents
    <3>4. IsFiniteSet(Documents(ActiveEvents'))
      <4>1. Documents(ActiveEvents') \in SUBSET Doc
        BY DEF Documents, ActiveEvents
      <4> QED
        BY <4>1, DocAssumption, FS_Subset
    <3> QED
      BY <3>1, <3>3, <3>4, MoreEvidence
  <2>2. ASSUME NEW d \in Doc, Retract(d)
        PROVE  Monotone
    <3>1. retracted' # retracted /\ retracted \subseteq retracted' /\ claims' = claims
      BY <2>2 DEF Retract
    <3>2. ActiveEvents' \subseteq ActiveEvents
      BY <3>1 DEF ActiveEvents
    <3> QED
      BY <3>1, <3>2, ActiveDocumentsFinite, MoreEvidence
  <2> QED
    BY <2>1, <2>2 DEF Next
<1> QED
  BY <1>1, AnalysisTypeCorrect, PTL DEF Spec, EvidenceIsMonotone

\* The graph never has a dangling edge, and its finding nodes tell all findings
\* apart although _finding_id leaves the classes of a finding out.
THEOREM GraphWellFormed == Spec => []GraphIsWellFormed
<1>1. ASSUME NEW edge \in Edges(ActiveEvents)
      PROVE  {edge.source, edge.target} \subseteq Nodes(ActiveEvents)
  <2>1. \A e \in ActiveEvents : {DocumentNode(e), AssertionNode(e), EntityNode(e)}
                                    \subseteq Nodes(ActiveEvents)
    BY DEF Nodes
  <2>2. \A f \in DeriveFindings(ActiveEvents) :
           /\ FindingNode(f) \in Nodes(ActiveEvents)
           /\ EntityNode(f) \in Nodes(ActiveEvents)
           /\ \A e \in f.events : AssertionNode(e) \in Nodes(ActiveEvents)
    <3> SUFFICES ASSUME NEW f \in DeriveFindings(ActiveEvents)
                 PROVE  /\ FindingNode(f) \in Nodes(ActiveEvents)
                        /\ EntityNode(f) \in Nodes(ActiveEvents)
                        /\ \A e \in f.events : AssertionNode(e) \in Nodes(ActiveEvents)
      OBVIOUS
    <3>1. FindingNode(f) \in Nodes(ActiveEvents)
      BY DEF Nodes
    <3>2. PICK e \in ActiveEvents : e.entity = f.entity
      BY FindingCites
    <3>3. EntityNode(f) \in Nodes(ActiveEvents)
      BY <2>1, <3>2 DEF EntityNode
    <3>4. \A o \in f.events : AssertionNode(o) \in Nodes(ActiveEvents)
      BY <2>1, FindingCites
    <3> QED
      BY <3>1, <3>3, <3>4
  <2>3. CASE edge \in SummaryEdges(ActiveEvents)
    BY <2>1, <2>2, <2>3 DEF SummaryEdges, Produced, Edge
  <2>4. CASE \E e \in ActiveEvents :
               \/ edge = Edge(DocumentNode(e), AssertionNode(e), "CONTAINS", "detail")
               \/ edge = Edge(AssertionNode(e), EntityNode(e), "DESCRIBES", "detail")
    BY <2>1, <2>4 DEF Edge
  <2>5. CASE \E f \in DeriveFindings(ActiveEvents) : \E e \in f.events :
               edge = Edge(AssertionNode(e), FindingNode(f),
                           FindingRelationships[f.category], "detail")
    BY <2>2, <2>5 DEF Edge
  <2> QED
    BY <2>3, <2>4, <2>5 DEF Edges, DetailEdges
<1>2. GraphIsWellFormed
  BY <1>1, NodesIdentify DEF GraphIsWellFormed
<1> QED
  BY <1>2, PTL

-----------------------------------------------------------------------------
(* What changes on the board *)

\* There are six classes of events, "none" among them.
AllClasses == {"disposal", "concealment", "recovery", "transfer", "agreement", "none"}

LEMMA ClassesFinite == IsFiniteSet(SUBSET AllClasses)
<1>1. IsFiniteSet({"disposal"})
  BY FS_Singleton
<1>2. IsFiniteSet({"disposal"} \cup {"concealment"})
  BY <1>1, FS_AddElement
<1>3. IsFiniteSet({"disposal"} \cup {"concealment"} \cup {"recovery"})
  BY <1>2, FS_AddElement
<1>4. IsFiniteSet({"disposal"} \cup {"concealment"} \cup {"recovery"} \cup {"transfer"})
  BY <1>3, FS_AddElement
<1>5. IsFiniteSet({"disposal"} \cup {"concealment"} \cup {"recovery"} \cup {"transfer"}
                    \cup {"agreement"})
  BY <1>4, FS_AddElement
<1>6. IsFiniteSet({"disposal"} \cup {"concealment"} \cup {"recovery"} \cup {"transfer"}
                    \cup {"agreement"} \cup {"none"})
  BY <1>5, FS_AddElement
<1>7. AllClasses = {"disposal"} \cup {"concealment"} \cup {"recovery"} \cup {"transfer"}
                    \cup {"agreement"} \cup {"none"}
  BY DEF AllClasses
<1> QED
  BY <1>6, <1>7, FS_SUBSET

LEMMA ClassType == \A kind : EventClass(kind) \in AllClasses
BY DEF EventClass, EventClassSuffixes, AllClasses

\* A finding is what the rules make of its entity-day and classes, of which there
\* are an event and a set of classes.
LEMMA FindingOfKey ==
    ASSUME NEW events, NEW f \in DeriveFindings(events)
    PROVE  /\ \E e \in events : e.entity = f.entity /\ e.day = f.day
           /\ f.classes \in SUBSET AllClasses
           /\ f = Finding(f.category, f, f.classes,
                          IF f.category = "single_source" THEN Group(events, f)
                            ELSE OfClasses(Group(events, f), f.classes))
<1>1. \E e \in events : e.entity = f.entity /\ e.day = f.day
  BY FindingCites
<1>2. f.category \in Categories
  BY BoardShape, RuleCategories DEF Categories
<1>3. \A about : about.entity = f.entity /\ about.day = f.day
                    => Group(events, about) = Group(events, f)
  BY DEF Group
<1>4. CASE f.category = "contradictions"
  <2>1. PICK about, pair :
              /\ pair \in ConflictingClassPairs
              /\ f = Finding("contradictions", about, pair,
                             OfClasses(Group(events, about), pair))
    BY <1>4, ContradictionShape
  <2>2. f.entity = about.entity /\ f.day = about.day /\ f.classes = pair
    BY <2>1 DEF Finding
  <2>3. pair \in SUBSET AllClasses
    BY <2>1 DEF ConflictingClassPairs, AllClasses
  <2> QED
    BY <1>1, <1>3, <1>4, <2>1, <2>2, <2>3 DEF Finding
<1>5. CASE f.category = "corroborations"
  <2>1. PICK about \in EntityDays(events) : \E class \in Classes(Group(events, about)) :
              /\ f = Finding("corroborations", about, {class},
                             OfClasses(Group(events, about), {class}))
              /\ Corroborated(OfClasses(Group(events, about), {class}))
    BY <1>5, CorroborationShape
  <2>2. PICK class \in Classes(Group(events, about)) :
              f = Finding("corroborations", about, {class},
                          OfClasses(Group(events, about), {class}))
    BY <2>1
  <2>3. f.entity = about.entity /\ f.day = about.day /\ f.classes = {class}
    BY <2>2 DEF Finding
  <2>4. class \in AllClasses
    BY ClassType DEF Classes
  <2> QED
    BY <1>1, <1>3, <1>5, <2>2, <2>3, <2>4 DEF Finding
<1>6. CASE f.category = "single_source"
  <2>1. PICK about : f = Finding("single_source", about, {}, Group(events, about))
    BY <1>6, SingleSourceShape
  <2>2. f.entity = about.entity /\ f.day = about.day /\ f.classes = {}
    BY <2>1 DEF Finding
  <2> QED
    BY <1>1, <1>3, <1>6, <2>1, <2>2 DEF Finding
<1> QED
  BY <1>2, <1>4, <1>5, <1>6 DEF Categories

Of(events, category) == {f \in DeriveFindings(events) : f.category = category}

\* Finitely many events have finitely many findings, as many as there are keys.
LEMMA KeysAreFindings ==
    ASSUME NEW events, IsFiniteSet(events), NEW category
    PROVE  /\ IsFiniteSet(FindingKeys(events, category))
           /\ Cardinality(Of(events, category)) = Cardinality(FindingKeys(events, category))
<1> DEFINE Key(p) == [entity |-> p[1].entity, day |-> p[1].day, classes |-> p[2]]
           Known == {Key(p) : p \in events \X SUBSET AllClasses}
           Keys == FindingKeys(events, category)
<1>1. IsFiniteSet(events \X SUBSET AllClasses)
  BY ClassesFinite, FS_Product
<1>2. IsFiniteSet(Known)
  <2> DEFINE key == [p \in events \X SUBSET AllClasses |-> Key(p)]
  <2>1. key \in Surjection(events \X SUBSET AllClasses, Known)
    BY DEF Surjection
  <2> HIDE DEF key, Known
  <2> QED
    BY <1>1, <2>1, FS_Surjection
<1>3. Keys \in SUBSET Known
  <2> SUFFICES ASSUME NEW f \in DeriveFindings(events) PROVE FindingKey(f) \in Known
    BY DEF FindingKeys
  <2>1. PICK e \in events : e.entity = f.entity /\ e.day = f.day
    BY FindingOfKey
  <2>2. f.classes \in SUBSET AllClasses
    BY FindingOfKey
  <2>3. <<e, f.classes>> \in events \X SUBSET AllClasses
    BY <2>2
  <2>4. FindingKey(f) = Key(<<e, f.classes>>)
    BY <2>1 DEF FindingKey
  <2> HIDE DEF Key
  <2> QED
    BY <2>3, <2>4
<1>4. IsFiniteSet(Keys)
  <2> HIDE DEF Known, Keys
  <2> QED
    BY <1>2, <1>3, FS_Subset
<1> DEFINE key == [f \in Of(events, category) |-> FindingKey(f)]
<1>5. Keys = {FindingKey(f) : f \in Of(events, category)}
  BY DEF FindingKeys, Of
<1>6. key \in Surjection(Of(events, category), Keys)
  <2> HIDE DEF Keys
  <2> QED
    BY <1>5 DEF Surjection
<1>7. ASSUME NEW f \in Of(events, category), NEW g \in Of(events, category),
             FindingKey(f) = FindingKey(g)
      PROVE  f = g
  <2>1. f.entity = g.entity /\ f.day = g.day /\ f.classes = g.classes
    BY <1>7 DEF FindingKey
  <2>2. /\ f = Finding(category, f, f.classes,
                       IF category = "single_source" THEN Group(events, f)
                            ELSE OfClasses(Group(events, f), f.classes))
        /\ g = Finding(category, g, g.classes,
                       IF category = "single_source" THEN Group(events, g)
                            ELSE OfClasses(Group(events, g), g.classes))
    BY FindingOfKey DEF Of
  <2>3. Group(events, f) = Group(events, g)
    BY <2>1 DEF Group
  <2> QED
    BY <2>1, <2>2, <2>3 DEF Finding
<1>8. key \in Injection(Of(events, category), Keys)
  <2> HIDE DEF Keys
  <2>1. key \in [Of(events, category) -> Keys]
    BY <1>5
  <2>2. ASSUME NEW f \in Of(events, category), NEW g \in Of(events, category),
               key[f] = key[g]
        PROVE  f = g
    BY <1>7, <2>2
  <2> HIDE DEF key
  <2> QED
    BY <2>1, <2>2 DEF Injection, IsInjective
<1> HIDE DEF key, Keys
<1>9. Cardinality(Of(events, category)) = Cardinality(Keys)
  BY <1>4, <1>6, <1>8, FS_Injection
<1> QED
  BY <1>4, <1>9 DEF Keys

\* What is added to one set less what is taken from it is the change in its size.
LEMMA OpenedLessCleared ==
    ASSUME NEW A, NEW B, IsFiniteSet(A), IsFiniteSet(B)
    PROVE  Cardinality(A) + Cardinality(B \ A) = Cardinality(B) + Cardinality(A \ B)
<1>1. /\ Cardinality(B \ A) = Cardinality(B) - Cardinality(B \cap A)
      /\ Cardinality(A \ B) = Cardinality(A) - Cardinality(A \cap B)
  BY FS_Difference
<1>2. A \cap B = B \cap A
  OBVIOUS
<1>3. /\ Cardinality(A) \in Nat /\ Cardinality(B) \in Nat
      /\ IsFiniteSet(A \cap B) /\ Cardinality(A \cap B) \in Nat
  BY FS_CardinalityType, FS_Intersection
<1> QED
  BY <1>1, <1>2, <1>3

\* What a function makes of finitely many values is finitely many.
LEMMA ImageFinite ==
    ASSUME NEW S, IsFiniteSet(S), NEW f
    PROVE  IsFiniteSet({f[x] : x \in S})
<1> DEFINE g == [x \in S |-> f[x]]
           T == {f[x] : x \in S}
<1>1. g \in Surjection(S, T)
  BY DEF Surjection
<1> HIDE DEF g
<1> QED
  BY <1>1, FS_Surjection

\* Finitely many documents that assert finitely many things each make finitely
\* many active events.
LEMMA ActiveEventsFinite == TypeOK => IsFiniteSet(ActiveEvents)
<1> SUFFICES ASSUME TypeOK PROVE IsFiniteSet(ActiveEvents)
  OBVIOUS
<1> DEFINE Event(d, c) ==
              [assertion |-> <<d, c>>, document |-> d, source_type |-> SourceTypeOf[d],
               entity |-> c.entity, day |-> c.day, kind |-> c.kind]
           Of1(d) == {Event(d, c) : c \in claims[d]}
           all == [d \in Doc |-> Of1(d)]
           Events == {all[d] : d \in Doc \ retracted}
<1>1. ActiveEvents = UNION Events
  BY DEF ActiveEvents
<1>2. ASSUME NEW d \in Doc
      PROVE  IsFiniteSet(all[d])
  <2> DEFINE event == [c \in claims[d] |-> Event(d, c)]
  <2>1. IsFiniteSet(claims[d])
    BY DEF TypeOK
  <2>2. Of1(d) = {event[c] : c \in claims[d]}
    OBVIOUS
  <2> HIDE DEF event, Event
  <2>3. IsFiniteSet(Of1(d))
    BY <2>1, <2>2, ImageFinite
  <2> QED
    BY <2>3
<1> HIDE DEF all
<1>3. IsFiniteSet(Doc \ retracted)
  BY DocAssumption, FS_Subset
<1>4. IsFiniteSet(Events)
  BY <1>3, ImageFinite
<1>5. \A T \in Events : IsFiniteSet(T)
  BY <1>2
<1> HIDE DEF Events
<1> QED
  BY <1>1, <1>4, <1>5, FS_UNION

\* What the change brief opens less what it clears is what the board grows by:
\* keys without the events tell the findings of a category apart (finding_keys).
THEOREM DeltaIsCounted == Spec => DeltaMatchesBoard
<1> DEFINE Finite == IsFiniteSet(ActiveEvents)
           Counted ==
              \A category \in Categories :
                 LET before == FindingKeys(ActiveEvents, category)
                     after == FindingKeys(ActiveEvents', category)
                     Size(events) == Cardinality({f \in DeriveFindings(events) :
                                                     f.category = category})
                 IN  Size(ActiveEvents) + Cardinality(after \ before)
                       = Size(ActiveEvents') + Cardinality(before \ after)
<1>1. Finite /\ Finite' => Counted
  <2> SUFFICES ASSUME IsFiniteSet(ActiveEvents), IsFiniteSet(ActiveEvents'),
                      NEW category \in Categories
               PROVE  Cardinality(Of(ActiveEvents, category))
                         + Cardinality(FindingKeys(ActiveEvents', category)
                                          \ FindingKeys(ActiveEvents, category))
                       = Cardinality(Of(ActiveEvents', category))
                           + Cardinality(FindingKeys(ActiveEvents, category)
                                            \ FindingKeys(ActiveEvents', category))
    BY DEF Of
  <2>1. /\ IsFiniteSet(FindingKeys(ActiveEvents, category))
        /\ Cardinality(Of(ActiveEvents, category))
              = Cardinality(FindingKeys(ActiveEvents, category))
    BY KeysAreFindings
  <2>2. /\ IsFiniteSet(FindingKeys(ActiveEvents', category))
        /\ Cardinality(Of(ActiveEvents', category))
              = Cardinality(FindingKeys(ActiveEvents', category))
    BY KeysAreFindings
  <2> QED
    BY <2>1, <2>2, OpenedLessCleared
<1>2. TypeOK => Finite
  BY ActiveEventsFinite
<1> HIDE DEF Finite
<1>3. Finite /\ Finite' => [Counted]_vars
  BY <1>1
<1> QED
  BY <1>2, <1>3, AnalysisTypeCorrect, PTL DEF DeltaMatchesBoard

-----------------------------------------------------------------------------
(* What a source influences *)

\* A finding cites events of its own entity.
LEMMA CitesItsEntity ==
    ASSUME NEW events, NEW f \in DeriveFindings(events), NEW e \in f.events
    PROVE  e \in events /\ e.entity = f.entity
<1>1. f.events = IF f.category = "single_source" THEN Group(events, f)
                   ELSE OfClasses(Group(events, f), f.classes)
  BY FindingOfKey DEF Finding
<1> QED
  BY <1>1 DEF Group, OfClasses

\* Without a document the board keeps exactly the findings that do not cite it.
LEMMA UncitedSourceIsIdle ==
    ASSUME NEW events, NEW d, NEW f \in DeriveFindings(events)
    PROVE  f \in DeriveFindings({e \in events : e.document # d})
             <=> \A e \in f.events : e.document # d
<1> DEFINE without == {e \in events : e.document # d}
<1>1. ASSUME f \in DeriveFindings(without), NEW e \in f.events
      PROVE  e.document # d
  <2>1. e \in without
    BY <1>1, CitesItsEntity
  <2> QED
    BY <2>1
<1>2. ASSUME \A e \in f.events : e.document # d
      PROVE  f \in DeriveFindings(without)
  <2> HIDE DEF without
  <2>0. without \subseteq events /\ \A e \in events : e.document # d => e \in without
    BY DEF without
  <2>1. ASSUME NEW about \in EntityDays(events),
               NEW e \in without, e.entity = about.entity, e.day = about.day
        PROVE  about \in EntityDays(without)
    BY <2>1 DEF EntityDays
  <2>2. f.category \in Categories
    BY BoardShape, RuleCategories DEF Categories
  <2>3. CASE f.category = "contradictions"
    <3>1. PICK about \in EntityDays(events), pair \in ConflictingClassPairs :
              /\ pair \subseteq Classes(Group(events, about))
              /\ f = Finding("contradictions", about, pair,
                             OfClasses(Group(events, about), pair))
      BY <2>3, ContradictionShape
    <3>2. f.events = OfClasses(Group(events, about), pair)
      BY <3>1 DEF Finding
    <3>3. OfClasses(Group(events, about), pair) = OfClasses(Group(without, about), pair)
      BY <1>2, <2>0, <3>2 DEF OfClasses, Group
    <3>4. \A c \in pair : \E e \in Group(events, about) : EventClass(e.kind) = c /\ c # "none"
      BY <3>1 DEF Classes
    <3>5. \A c \in pair : \E e \in Group(without, about) : EventClass(e.kind) = c /\ c # "none"
      BY <3>3, <3>4 DEF OfClasses
    <3>6. pair \subseteq Classes(Group(without, about))
      BY <3>5 DEF Classes
    <3>7. "disposal" \in pair
      BY <3>1 DEF ConflictingClassPairs
    <3>8. about \in EntityDays(without)
      BY <2>1, <3>5, <3>7 DEF Group
    <3>9. f \in Contradictions(about, Group(without, about))
      BY <3>1, <3>3, <3>6 DEF Contradictions
    <3> QED
      BY <3>8, <3>9 DEF DeriveFindings
  <2>4. CASE f.category = "corroborations"
    <3>0. PICK about \in EntityDays(events) : \E class \in Classes(Group(events, about)) :
              /\ f = Finding("corroborations", about, {class},
                             OfClasses(Group(events, about), {class}))
              /\ Corroborated(OfClasses(Group(events, about), {class}))
      BY <2>4, CorroborationShape
    <3>1. PICK class \in Classes(Group(events, about)) :
              /\ f = Finding("corroborations", about, {class},
                             OfClasses(Group(events, about), {class}))
              /\ Corroborated(OfClasses(Group(events, about), {class}))
      BY <3>0
    <3>2. f.events = OfClasses(Group(events, about), {class})
      BY <3>1 DEF Finding
    <3>3. OfClasses(Group(events, about), {class}) = OfClasses(Group(without, about), {class})
      BY <1>2, <2>0, <3>2 DEF OfClasses, Group
    <3>4. PICK e \in Group(events, about) : EventClass(e.kind) = class /\ class # "none"
      BY <3>1 DEF Classes
    <3>5. e \in Group(without, about)
      BY <3>3, <3>4 DEF OfClasses
    <3>6. class \in Classes(Group(without, about))
      BY <3>4, <3>5 DEF Classes
    <3>7. about \in EntityDays(without)
      BY <2>1, <3>5 DEF Group
    <3>8. f \in Corroborations(about, Group(without, about))
      BY <3>1, <3>3, <3>6 DEF Corroborations
    <3> QED
      BY <3>7, <3>8 DEF DeriveFindings
  <2>5. CASE f.category = "single_source"
    <3>1. PICK about \in EntityDays(events) :
              /\ f = Finding("single_source", about, {}, Group(events, about))
              /\ Cardinality(Documents(Group(events, about))) = 1
      BY <2>5, SingleSourceShape
    <3>2. f.events = Group(events, about)
      BY <3>1 DEF Finding
    <3>3. Group(events, about) = Group(without, about)
      BY <1>2, <2>0, <3>2 DEF Group
    <3>4. PICK e \in events : about = [entity |-> e.entity, day |-> e.day]
      BY DEF EntityDays
    <3>5. e \in Group(events, about)
      BY <3>4 DEF Group
    <3>6. about \in EntityDays(without)
      BY <2>1, <3>3, <3>5 DEF Group
    <3>7. f \in SingleSource(about, Group(without, about))
      BY <3>1, <3>3 DEF SingleSource
    <3> QED
      BY <3>6, <3>7 DEF DeriveFindings
  <2> QED
    BY <2>2, <2>3, <2>4, <2>5 DEF Categories
<1> QED
  BY <1>1, <1>2

\* A source leads through its assertions to the findings that cite one of them.
LEMMA EdgesOfAnAssertion ==
    ASSUME NEW d, NEW f \in Board
    PROVE  (\E a \in OfType("assertion") :
               /\ Step({"CONTAINS"}, Node("document", d), a)
               /\ Step(ToFinding, a, FindingNode(f)))
             <=> \E e \in f.events : e.document = d
<1>0. \A c \in Categories : FindingRelationships[c] \in ToFinding
  BY DEF ToFinding
<1>1. ASSUME NEW e \in f.events, e.document = d
      PROVE  \E a \in OfType("assertion") :
                /\ Step({"CONTAINS"}, Node("document", d), a)
                /\ Step(ToFinding, a, FindingNode(f))
  <2>1. e \in ActiveEvents
    BY CitesItsEntity DEF Board
  <2>2. AssertionNode(e) \in OfType("assertion")
    BY <2>1 DEF OfType, Nodes, AssertionNode, Node
  <2>3. Edge(DocumentNode(e), AssertionNode(e), "CONTAINS", "detail") \in Edges(ActiveEvents)
    BY <2>1 DEF Edges, DetailEdges
  <2>4. Step({"CONTAINS"}, Node("document", d), AssertionNode(e))
    BY <1>1, <2>3 DEF Step, Edge, DocumentNode
  <2>5. f.category \in Categories
    BY BoardShape, RuleCategories DEF Board, Categories
  <2>6. Edge(AssertionNode(e), FindingNode(f), FindingRelationships[f.category], "detail")
           \in Edges(ActiveEvents)
    BY DEF Edges, DetailEdges, Board
  <2>7. Step(ToFinding, AssertionNode(e), FindingNode(f))
    BY <1>0, <2>5, <2>6 DEF Step, Edge
  <2> QED
    BY <2>2, <2>4, <2>7
<1>2. ASSUME NEW a, Step({"CONTAINS"}, Node("document", d), a),
             Step(ToFinding, a, FindingNode(f))
      PROVE  \E e \in f.events : e.document = d
  <2>0. ToFinding = {"CONFLICTS_WITHIN", "SUPPORTS", "REVEALS_GAP"}
    BY DEF ToFinding, Categories, FindingRelationships
  <2>1. \A g \in DeriveFindings(ActiveEvents) : FindingRelationships[g.category] # "CONTAINS"
    BY BoardShape, RuleCategories DEF FindingRelationships
  <2>2. PICK e \in ActiveEvents : /\ Node("document", d) = DocumentNode(e)
                                  /\ a = AssertionNode(e)
    <3>1. PICK edge \in Edges(ActiveEvents) :
              /\ edge.source = Node("document", d) /\ edge.target = a
              /\ edge.relationship = "CONTAINS"
      BY <1>2 DEF Step
    <3>2. edge \in {Edge(DocumentNode(e), AssertionNode(e), "CONTAINS", "detail")
                       : e \in ActiveEvents}
      BY <2>1, <3>1 DEF Edges, DetailEdges, SummaryEdges, Produced, Edge
    <3> QED
      BY <3>1, <3>2 DEF Edge
  <2>3. PICK g \in DeriveFindings(ActiveEvents) : \E o \in g.events :
              a = AssertionNode(o) /\ FindingNode(f) = FindingNode(g)
    <3>1. PICK edge \in Edges(ActiveEvents) :
              /\ edge.source = a /\ edge.target = FindingNode(f)
              /\ edge.relationship \in ToFinding
      BY <1>2 DEF Step
    <3>2. \E g \in DeriveFindings(ActiveEvents) : \E o \in g.events :
             edge = Edge(AssertionNode(o), FindingNode(g),
                         FindingRelationships[g.category], "detail")
      BY <2>0, <3>1 DEF Edges, DetailEdges, SummaryEdges, Produced, Edge
    <3> QED
      BY <3>1, <3>2 DEF Edge
  <2>4. g = f
    BY <2>3, NodesIdentify DEF Board
  <2>5. PICK o \in f.events : a = AssertionNode(o)
    BY <2>3, <2>4
  <2>6. o \in ActiveEvents
    BY CitesItsEntity DEF Board
  <2>7. o.assertion = e.assertion
    BY <2>2, <2>5 DEF AssertionNode, Node
  <2>8. o = e
    BY <2>6, <2>7, AssertionIdentifies
  <2>9. e.document = d
    BY <2>2 DEF DocumentNode, Node
  <2> QED
    BY <2>8, <2>9
<1> QED
  BY <1>1, <1>2

\* From a source the graph leads through its assertions to exactly the findings
\* that change when it is retracted, and through its entities to these at least
\* (build_evidence_graph).
THEOREM InfluenceIsShown == Spec => []SourcesReachTheirFindings
<1>1. SourcesReachTheirFindings
  <2> SUFFICES ASSUME NEW d \in Ingested \ retracted
               PROVE  LET without == {e \in ActiveEvents : e.document # d}
                          source == Node("document", d)
                          reached == {f \in Board : \E a \in OfType("assertion") :
                                         /\ Step({"CONTAINS"}, source, a)
                                         /\ Step(ToFinding, a, FindingNode(f))}
                          inSummary == {f \in Board : \E e \in OfType("entity") :
                                           /\ Step({"MAPS_TO"}, source, e)
                                           /\ Step({"PRODUCES_FINDING"}, e, FindingNode(f))}
                      IN  /\ reached = Board \ DeriveFindings(without)
                          /\ reached \subseteq inSummary
    BY DEF SourcesReachTheirFindings
  <2> DEFINE without == {e \in ActiveEvents : e.document # d}
             source == Node("document", d)
             reached == {f \in Board : \E a \in OfType("assertion") :
                            /\ Step({"CONTAINS"}, source, a)
                            /\ Step(ToFinding, a, FindingNode(f))}
             inSummary == {f \in Board : \E e \in OfType("entity") :
                              /\ Step({"MAPS_TO"}, source, e)
                              /\ Step({"PRODUCES_FINDING"}, e, FindingNode(f))}
  <2>1. \A f \in Board : f \in reached <=> \E e \in f.events : e.document = d
    BY EdgesOfAnAssertion
  <2>2. \A f \in Board : f \in DeriveFindings(without) <=> \A e \in f.events : e.document # d
    BY UncitedSourceIsIdle DEF Board
  <2>3. ASSUME NEW f \in Board, NEW e \in f.events, e.document = d
        PROVE  f \in inSummary
    <3>1. e \in ActiveEvents /\ EntityNode(e) = EntityNode(f)
      BY CitesItsEntity DEF Board, EntityNode
    <3>2. EntityNode(e) \in OfType("entity")
      BY <3>1 DEF OfType, Nodes, EntityNode, Node
    <3>3. Edge(DocumentNode(e), EntityNode(e), "MAPS_TO", "summary") \in Edges(ActiveEvents)
      BY <3>1 DEF Edges, SummaryEdges
    <3>4. Step({"MAPS_TO"}, source, EntityNode(e))
      BY <2>3, <3>3 DEF Step, Edge, DocumentNode
    <3>5. Edge(EntityNode(f), FindingNode(f), "PRODUCES_FINDING", "summary")
             \in Edges(ActiveEvents)
      BY DEF Edges, SummaryEdges, Produced, Board
    <3>6. Step({"PRODUCES_FINDING"}, EntityNode(e), FindingNode(f))
      BY <3>1, <3>5 DEF Step, Edge
    <3> QED
      BY <3>2, <3>4, <3>6
  <2>4. reached \subseteq Board
    OBVIOUS
  <2> HIDE DEF reached, inSummary, without
  <2>5. reached = Board \ DeriveFindings(without)
    BY <2>1, <2>2, <2>4
  <2>6. reached \subseteq inSummary
    BY <2>1, <2>3, <2>4
  <2> QED
    BY <2>5, <2>6 DEF reached, inSummary, without
<1> QED
  BY <1>1, PTL
=============================================================================
