SPECIFICATION Spec
CONSTANTS
    verdict = verdict
    complaint = complaint
    tip = tip
    Doc = {verdict, tip}
    SourceTypeOf <- MCSourceTypeOf
    Statement <- MCStatement
    MaxClaims = 2
CHECK_DEADLOCK FALSE
INVARIANTS
    ContradictionHasTwoSources
