SPECIFICATION Spec
CONSTANTS
  r1 = r1
  r2 = r2
  None = None
  Root <- MCRoot
  Paths <- MCPathsB
  Anc <- MCAncB
  Reqs <- MCReqs
  Work <- MCWorkB
  DevPages <- MCDevPages
  HostSize <- MCHostSize
INVARIANTS
  DecodePagesAreNotCached
