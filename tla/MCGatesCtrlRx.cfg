SPECIFICATION Spec
CONSTANTS
  MaxGray = 8
  Targets <- MCTargets
  Programs <- MCControlledRx
PROPERTIES
  SameUnitary
