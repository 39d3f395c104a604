---------------------------- MODULE EvidenceGraph ----------------------------
(***************************************************************************)
(* build_evidence_graph: nodes and edges for the active events and their   *)
(* findings, in detail and as a summary that leaves the assertions out.    *)
(* A node is its identity; labels and data are left out.                   *)
(***************************************************************************)
EXTENDS Findings

Node(type, id) == [type |-> type, id |-> id]
DocumentNode(e) == Node("document", e.document)
EntityNode(about) == Node("entity", about.entity)
AssertionNode(e) == Node("assertion", e.assertion)
FindingNode(f) == Node("finding", FindingId(f))

Edge(source, target, relationship, scope) ==
    [source |-> source, target |-> target, relationship |-> relationship, scope |-> scope]

FindingRelationships ==
    [contradictions |-> "CONFLICTS_WITHIN", corroborations |-> "SUPPORTS",
     single_source |-> "REVEALS_GAP"]

Nodes(events) ==
    {DocumentNode(e) : e \in events} \cup {EntityNode(e) : e \in events}
      \cup {AssertionNode(e) : e \in events}
      \cup {FindingNode(f) : f \in DeriveFindings(events)}

DetailEdges(events) ==
    {Edge(DocumentNode(e), AssertionNode(e), "CONTAINS", "detail") : e \in events}
      \cup {Edge(AssertionNode(e), EntityNode(e), "DESCRIBES", "detail") : e \in events}
      \cup UNION {{Edge(AssertionNode(e), FindingNode(f),
                        FindingRelationships[f.category], "detail") : e \in f.events}
                     : f \in DeriveFindings(events)}

Produced(events) ==
    {Edge(EntityNode(f), FindingNode(f), "PRODUCES_FINDING", "summary") :
        f \in DeriveFindings(events)}

SummaryEdges(events) ==
    {Edge(DocumentNode(e), EntityNode(e), "MAPS_TO", "summary") : e \in events}
      \cup Produced(events)

Edges(events) == DetailEdges(events) \cup SummaryEdges(events)
=============================================================================
