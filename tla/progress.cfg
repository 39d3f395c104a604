SPECIFICATION FairSpec
CONSTANTS
    d1 = d1
    d2 = d2
    NoDoc = NoDoc
    Key = {1}
    Doc = {d1, d2}
    KeysOf <- MCOneKey
    KeysReadBack <- MCOneKey
    Client = {c1}
    Worker = {w1, w2}
    MaxAttempts = 2
    MaxRevision = 2
    CreatedAt <- ClocksAgree
PROPERTIES
    JobsSettle
    StaleIsResolved
