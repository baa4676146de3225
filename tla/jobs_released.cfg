SPECIFICATION FairJobsSpec
CONSTANTS
    Workers = {w1}
    Jobs = {1}
    Items = {b1}
    Editions = {e1}
    MaxAttempts = 2
PROPERTIES
    ReleasedIsRetried
