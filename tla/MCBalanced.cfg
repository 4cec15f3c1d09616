SPECIFICATION FairSpec
CONSTANTS
  r1 = r1
  r2 = r2
  r3 = r3
  r4 = r4
  s1 = s1
  s2 = s2
  s3 = s3
  Requests <- MCRequests4
  Segments <- MCSegments
  Path <- MCPath
  Size <- MCSize
  Suffix <- MCSuffix
  Slots = 3
  LoadRatio = 1
INVARIANTS
  PickedOnce
  NobodyIsLeft
  LoadedStays
PROPERTIES
  RatioIsKept
  EveryRequestIsAdmitted
