SPECIFICATION Spec
CONSTANTS
    doc = doc
    challenge = challenge
    ruling = ruling
    NoContent = NoContent
    Doc = {doc}
    Import = {i1, i2}
    DocumentOf <- MCOneDocument
    Content = {challenge, ruling}
    Inspected <- MCInspected
    VaultEnabled = TRUE
SYMMETRY Reviewers
INVARIANTS
    CustodyTypeOK
    ChainComplete
    ImportsNeverCollide
    StoredIsThere
    ReportHoldsTogether
    CounterIsChainLength
    RowDescribesLastAttempt
PROPERTIES
    ImplementsLog
