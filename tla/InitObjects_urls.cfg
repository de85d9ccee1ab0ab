SPECIFICATION Spec
CONSTANTS
  Labels <- MCLabels
  Flavours <- MCFlavours
  DepsDir <- MCDepsDir
  Inputs <- UrlInputs
CHECK_DEADLOCK FALSE
INVARIANTS BaseUrlServed
