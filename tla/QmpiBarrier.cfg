CONSTANTS
  NP = 4
  Tag = {t63}
  BarrierTag = t63
  Val = {vTrue, vFalse}
  True = vTrue
  False = vFalse
  None = None
  Rounds = 3
SPECIFICATION FairSpec
INVARIANT IInv
INVARIANT NobodyLeavesEarly
INVARIANT SendsNeverBlock
INVARIANT NothingLeftOver
PROPERTY ImplementsBarrier
PROPERTY EverybodyLeaves
