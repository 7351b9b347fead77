SPECIFICATION Spec
CONSTANTS
  Pieces = 2
  Connections = 2
  Samples = 1
  HeapLinks = 2
INVARIANTS
  TypeOK
  HandlesAccounted
  OneSampler
  AverageOfCycle
  DuplicatesExplained
PROPERTIES
  RestartMeansUpdate
  UpdateImplementsSlots
  SamplingGoesOn
  OnlyServersHold
