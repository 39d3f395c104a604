SPECIFICATION Spec
CONSTANTS
    d1 = d1
    d2 = d2
    NoDoc = NoDoc
    Key = {1, 2}
    Doc = {d1, d2}
    KeysOf <- MCOneKey
    KeysReadBack <- MCNextDay
    Client = {c1}
    Worker = {w1}
    MaxAttempts = 1
    MaxRevision = 2
    CreatedAt <- ClocksAgree
INVARIANTS
    FreshIsExact
