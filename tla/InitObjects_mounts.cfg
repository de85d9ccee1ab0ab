SPECIFICATION Spec
CONSTANTS
  Labels <- MCLabels
  Flavours <- MCFlavours
  DepsDir <- MCDepsDir
  Inputs <- FileInputs
CHECK_DEADLOCK FALSE
INVARIANTS EveryFileMounted
