SPECIFICATION MCSpec
CHECK_DEADLOCK FALSE
CONSTANTS
    Workers = {w1, w2}
    Jobs = {1}
    Items = {b1}
    Editions = {e1, e2}
    MaxAttempts = 3
    Events = {1, 2}
    Dispatchers = {d1, d2}
    BatchLimit = 2
INVARIANTS
    CompletedDownloadable
    DuplicatesOnlyByLoss
PROPERTIES
    JobsSettle
    KeepsDelivery
    EventuallyMarked
