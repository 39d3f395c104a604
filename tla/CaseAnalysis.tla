----------------------------- MODULE CaseAnalysis -----------------------------
(***************************************************************************)
(* The findings board and the evidence graph of a case, as documents are   *)
(* received and retracted.  Both are derived anew from the active events.  *)
(***************************************************************************)
EXTENDS EvidenceGraph

CONSTANTS
    Doc,           \* documents that may be received
    SourceTypeOf,  \* SourceTypeOf[d]: the source type of document d
    Statement,     \* [entity, day, kind]: what an assertion can say
    MaxClaims      \* bound: assertions of a document

ASSUME MaxClaimsAssumption == MaxClaims \in Nat \ {0}
ASSUME DocAssumption == IsFiniteSet(Doc)

VARIABLES
    claims,     \* what each document asserts, {} before it is received
    retracted   \* documents with a tombstone

vars == <<claims, retracted>>

Ingested == {d \in Doc : claims[d] # {}}

TypeOK ==
    /\ claims \in [Doc -> SUBSET Statement]
    /\ \A d \in Doc : IsFiniteSet(claims[d]) /\ Cardinality(claims[d]) <= MaxClaims
    /\ retracted \subseteq Ingested

Init ==
    /\ claims = [d \in Doc |-> {}]
    /\ retracted = {}

Ingest(d, asserted) ==
    /\ claims[d] = {}
    /\ claims' = [claims EXCEPT ![d] = asserted]
    /\ UNCHANGED retracted

Retract(d) ==
    /\ d \in Ingested \ retracted
    /\ retracted' = retracted \cup {d}
    /\ UNCHANGED claims

Contents == {s \in SUBSET Statement : IsFiniteSet(s) /\ Cardinality(s) \in 1..MaxClaims}

Next == \E d \in Doc : Retract(d) \/ \E asserted \in Contents : Ingest(d, asserted)

Spec == Init /\ [][Next]_vars

\* _active_events: assertions joined with their documents, without tombstones.
ActiveEvents ==
    UNION {{[assertion |-> <<d, c>>, document |-> d, source_type |-> SourceTypeOf[d],
             entity |-> c.entity, day |-> c.day, kind |-> c.kind] : c \in claims[d]}
              : d \in Doc \ retracted}

Board == DeriveFindings(ActiveEvents)
Categories == {"contradictions", "corroborations", "single_source"}

-----------------------------------------------------------------------------
(* The board *)

\* STRONG support rests on two different records in different tiers, although
\* the events of one record can be in several ("Distinct records across multiple
\* legal-status tiers", _corroboration_finding).
StrongIsIndependent ==
    \A f \in Board : Support(f) = "STRONG" =>
        \E e, o \in f.events :
            /\ e.document # o.document
            /\ SourceTier(e.source_type, e.kind) # SourceTier(o.source_type, o.kind)

\* A source of an entity-day is never called its only one while one of its
\* events is called corroborated, whatever else the sources say.
GapsAreUncorroborated ==
    \A f, g \in Board : (f.category = "single_source" /\ g.category = "corroborations")
                            => <<f.entity, f.day>> # <<g.entity, g.day>>

\* New evidence never makes a contradiction or a corroboration disappear, and a
\* retraction never makes one appear (case_changes presents both as opened and
\* cleared by the change).
EvidenceIsMonotone ==
    [][\A category \in {"contradictions", "corroborations"} :
          LET before == FindingKeys(ActiveEvents, category)
              after == FindingKeys(ActiveEvents', category)
          IN  IF retracted' = retracted THEN before \subseteq after
                                        ELSE after \subseteq before]_vars

\* Opened less cleared of a change, counted by keys, is the change in the number
\* of findings on the board.
DeltaMatchesBoard ==
    [][\A category \in Categories :
          LET before == FindingKeys(ActiveEvents, category)
              after == FindingKeys(ActiveEvents', category)
              Size(events) == Cardinality({f \in DeriveFindings(events) :
                                              f.category = category})
          IN  Size(ActiveEvents) + Cardinality(after \ before)
                = Size(ActiveEvents') + Cardinality(before \ after)]_vars

-----------------------------------------------------------------------------
(* The graph *)

\* No edge dangles and no two findings share a node.
GraphIsWellFormed ==
    /\ \A edge \in Edges(ActiveEvents) : {edge.source, edge.target} \subseteq Nodes(ActiveEvents)
    /\ \A f, g \in Board : FindingNode(f) = FindingNode(g) => f = g

Step(relationships, from, to) ==
    \E edge \in Edges(ActiveEvents) : /\ edge.source = from
                                      /\ edge.target = to
                                      /\ edge.relationship \in relationships
OfType(type) == {n \in Nodes(ActiveEvents) : n.type = type}
ToFinding == {FindingRelationships[c] : c \in Categories}

\* From a source one sees every finding that it influences, and in the detail no
\* other: the findings that change when it is retracted (README: "start with a
\* source and see every finding it influences").
SourcesReachTheirFindings ==
    \A d \in Ingested \ retracted :
        LET without == {e \in ActiveEvents : e.document # d}
            source == Node("document", d)
            reached == {f \in Board : \E a \in OfType("assertion") :
                           /\ Step({"CONTAINS"}, source, a)
                           /\ Step(ToFinding, a, FindingNode(f))}
            inSummary == {f \in Board : \E e \in OfType("entity") :
                             /\ Step({"MAPS_TO"}, source, e)
                             /\ Step({"PRODUCES_FINDING"}, e, FindingNode(f))}
        IN  /\ reached = Board \ DeriveFindings(without)
            /\ reached \subseteq inSummary

-----------------------------------------------------------------------------
(* What the documents say of the board *)

\* README: "Two active sources assert mutually exclusive event classes".
ContradictionHasTwoSources ==
    \A f \in Board : f.category = "contradictions" => Cardinality(Documents(f.events)) >= 2
=============================================================================
