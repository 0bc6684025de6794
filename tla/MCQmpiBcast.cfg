CONSTANTS
  NP = 5
  Tag = {t42}
  BcastTag = t42
  Val = {vTrue, vFalse}
  False = vFalse
  None = None
  Calls = 2
SPECIFICATION MCSpec
INVARIANT AllGetTheRootsValue
INVARIANT NothingLeftOver
PROPERTY EverybodyReturns
