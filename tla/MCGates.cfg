SPECIFICATION Spec
CONSTANTS
  MaxGray = 2
  Targets <- MCTargets
  Programs <- MCPrograms
INVARIANTS
  EveryGateIsLowered
PROPERTIES
  SameUnitary
  EveryProgramIsCompiled
