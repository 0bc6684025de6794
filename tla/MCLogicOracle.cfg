SPECIFICATION Spec
CONSTANTS
  Functions <- MCFunctions
  topo_view <- MCtopo_view
INVARIANTS
  CallsFindTheirPebbles
  AncillasComeBackClean
  OutputsAreTheFunction
