SPECIFICATION Spec
CONSTANTS
  r1 = r1
  r2 = r2
  Requests <- MCRequests
  Layers = 2
  MaxTokens = 2
  MaxRunning = 2
  MaxRetracts = 1
  MaxControls = 2
  Controls = {"abort", "abort_all", "retract", "in_place", "flush"}
SYMMETRY MCSymmetry
INVARIANTS
  InOnePlace
  LoadedBeforeUse
  ProducerReady
  IdleIsQuiet
  StaleResultsAreDropped
PROPERTIES
  LifeSpec
