SPECIFICATION Spec
CONSTANTS
  Labels <- MCLabels
  Flavours <- MCFlavours
  DepsDir <- MCDepsDir
  Inputs <- InstallerInputs
CHECK_DEADLOCK FALSE
INVARIANTS InstallerImage
