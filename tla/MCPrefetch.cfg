SPECIFICATION Spec
CONSTANTS
    Requests <- MCRequests
    Key <- MCApartKey
    NumPages = 2
    Threshold = 1
    Capacity = 2
    StopPolicy = "timeout"
    MaxOps = 2
INVARIANTS
    NoPageIsShared
    TreeHoldsItsData
    HostRefsAreExact
    AnchorsStay
    StorageHoldsItsData
