CONSTANTS
  NP = 4
  Tag = {12, 29, 42, 77, 88, 99}
  Val = {0, 1}
  None = None
  Undef = Undef
  Script <- Collectives
SPECIFICATION MCSpec
INVARIANT AsPromised
INVARIANT FreedQubitsAreMeasured
INVARIANT PairsAgree
INVARIANT NothingLeftOver
INVARIANT NobodyIsStuck
VIEW Seen
