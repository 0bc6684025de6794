CONSTANTS
  Depth = 3
  Conditions = 4
  Trips = 2
  Fuel = 20
  Var <- MCVar
  Programs <- MCPrograms
  Inputs <- MCInputs
SPECIFICATION Spec
INVARIANT SameBehaviour
CHECK_DEADLOCK FALSE
