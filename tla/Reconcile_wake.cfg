SPECIFICATION Safety
CONSTANTS
  Specs <- Idling
  Deps = {}
  Scales = {}
  PodsMayFail = FALSE
  MaxEdits = 1
  MaxPodChanges = 2
  MaxFaults = 0
  MaxStatusFaults = 0
  MaxCrashes = 0
CHECK_DEADLOCK FALSE
PROPERTIES DeployedIsAvailable
