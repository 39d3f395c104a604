SPECIFICATION Spec
CONSTANTS
    verdict = verdict
    complaint = complaint
    tip = tip
    Doc = {verdict, complaint, tip}
    SourceTypeOf <- MCSourceTypeOf
    Statement <- MCStatement
    MaxClaims = 2
CHECK_DEADLOCK FALSE
INVARIANTS
    StrongIsIndependent
    GapsAreUncorroborated
    GraphIsWellFormed
    SourcesReachTheirFindings
PROPERTIES
    EvidenceIsMonotone
    DeltaMatchesBoard
