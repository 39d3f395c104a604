SPECIFICATION ReaderSpec
CONSTANTS
    d1 = d1
    d2 = d2
    NoDoc = NoDoc
    Key = {1, 2}
    Doc = {d1, d2}
    KeysOf <- MCKeysOf
    KeysReadBack <- MCKeysOf
    Client = {c1}
    Worker = {w1}
    MaxAttempts = 1
    MaxRevision = 2
    CreatedAt <- ClocksAgree
    Queries = {"findings", "artifact", "proof", "changes", "workspace", "operations"}
INVARIANTS
    ReaderTypeOK
    HistoryIsExact
    ChangesAreComplete
    WorkspaceHoldsTogether
    OperationsOfOneRevision
PROPERTIES
    FreshAnswerIsExact
    VerifiedIsSound
