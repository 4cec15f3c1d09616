SPECIFICATION Spec
CONSTANTS
  r1 = r1
  r2 = r2
  None = None
  Root <- MCRoot
  Paths <- MCPathsH
  Anc <- MCAncH
  Reqs <- MCReqsH
  Work <- MCWorkH
  DevPages <- MCDevPagesH
  HostSize <- MCHostSizeH
INVARIANTS
  TiersArePrefixes
  RadixShape
  HostIsComplete
