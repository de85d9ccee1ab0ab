SPECIFICATION FairSpec
CONSTANTS
  Specs <- Lifecycle
  Deps = {}
  Scales = {2}
  PodsMayFail = TRUE
  MaxEdits = 2
  MaxPodChanges = 1
  MaxFaults = 0
  MaxStatusFaults = 0
  MaxCrashes = 1
CHECK_DEADLOCK FALSE
INVARIANTS SpecApplied StatusAccurate Converging
PROPERTIES StatusSettles ReplicasPreserved
