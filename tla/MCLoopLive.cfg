SPECIFICATION FairSpec
CONSTANTS
  r1 = r1
  r2 = r2
  Requests <- MCRequests
  Layers = 1
  MaxTokens = 2
  MaxRunning = 2
  MaxRetracts = 1
  MaxControls = 1
  Controls = {"abort", "in_place", "flush"}
INVARIANTS
  FullMeansServing
PROPERTIES
  EveryRequestLeaves
  LoadsAreAcknowledged
