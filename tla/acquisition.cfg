SPECIFICATION FairSpec
CONSTANTS
    Letter = {"a", "b", "c", "p"}
    Mark = "."
    Blank = " "
    FewestWords = 2
    Sources = 5
    Thread = {t1, t2}
    Importer = importer
    scan = scan
    blankScan = blankScan
    gate = gate
    page = page
    table = table
    broken = broken
    binary = binary
    Content = {scan, blankScan, gate, page, table, broken, binary}
    NoContent = NoContent
    SourceUri <- MCSourceUri
    Quotes <- MCQuotes
    Served <- MCServed
    Form <- MCForm
    Pages <- MCPages
    Size <- MCSize
    MaxBytes = 2
    Heading <- MCHeading
    TimeLimit = 2
    Excerpt <- MCExcerpt
    ModelSpan <- MCModelSpan
CHECK_DEADLOCK FALSE
INVARIANTS
    AcquisitionTypeOK
    AnswersAreTheirOwn
    QuotedSpanIsFound
PROPERTIES
    EveryDocumentIsAnswered
