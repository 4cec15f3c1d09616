SPECIFICATION FairSpec
CONSTANTS
  r1 = r1
  r2 = r2
  None = None
  Root <- MCRoot
  Paths <- MCPaths
  Anc <- MCAnc
  Reqs <- MCReqs
  Work <- MCWork
  DevPages <- MCDevPages
  HostSize <- MCHostSize
INVARIANTS
  TypeOK
  LocksAreExact
  PageTableSound
  PagesHaveOneOwner
  SizesAreExact
  LeavesAreExact
  AllocationsFit
PROPERTIES
  LockedPagesStay
  QuietServerSettles
