SPECIFICATION FairSpec
CONSTANTS
    Requests <- MCRequests
    Key <- MCNestedKey
    NumPages = 4
    Threshold = 1
    Capacity = 4
    StopPolicy = "wait_complete"
    MaxOps = 2
INVARIANTS
    NoPageIsLost
PROPERTIES
    EveryPrefetchEnds
    EveryPageComesBack
