CONSTANTS
  Capacity = 3
  MaxAlloc = 4
  MaxOverlong = 1
SPECIFICATION Spec
VIEW View
INVARIANT NumberingsAgree
INVARIANT PanicsHaveCause
PROPERTY ImplementsRegister
CHECK_DEADLOCK FALSE
