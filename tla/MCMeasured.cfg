SPECIFICATION FairSpec
CONSTANTS
  Layers = 2
  MaxBatches = 3
INVARIANTS
  PairsHaveOneUse
  TimesAreOfTheirBatch
  RecordedIsRun
PROPERTIES
  EveryMeasurementSettles
