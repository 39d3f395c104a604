SPECIFICATION HandoffSpec
CONSTANTS
    d1 = d1
    d2 = d2
    NoDoc = NoDoc
    Key = {1, 2}
    Doc = {d1, d2}
    KeysOf <- MCKeysOf
    KeysReadBack <- MCKeysOf
    Client = {c1, c2}
    Worker = {w1}
    MaxAttempts = 1
    MaxRevision = 3
    CreatedAt <- ClocksDisagree
    Officer = {o1}
    NoOfficer = NoOfficer
SYMMETRY Interchangeable
INVARIANTS
    DrainedUnlessFailed
    LedgerTellsOneStory
    InvalidationExact
    NoLockCycle
PROPERTIES
    ImplementsView
    AttributedToAssigned
