SPECIFICATION Spec
CONSTANTS
  Labels <- MCLabels
  Flavours <- MCFlavours
  DepsDir <- MCDepsDir
  Inputs <- FlavourInputs
CHECK_DEADLOCK FALSE
INVARIANTS LaterFlavoursOverride
