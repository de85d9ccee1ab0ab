SPECIFICATION Safety
CONSTANTS
  Specs <- Databases
  Deps = {d1, d2}
  Scales = {}
  PodsMayFail = FALSE
  MaxEdits = 2
  MaxPodChanges = 2
  MaxFaults = 1
  MaxStatusFaults = 1
  MaxCrashes = 0
SYMMETRY DepsSymmetry
CHECK_DEADLOCK FALSE
INVARIANTS TypeOK SpecApplied CredentialsMatch DependenciesFirst
