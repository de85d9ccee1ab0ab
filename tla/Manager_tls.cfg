SPECIFICATION Spec
CONSTANTS
  Profiles <- MCProfiles
  Policies <- MCPolicies
  Intermediate = "Intermediate"
  NoOpinion = "NoOpinion"
  MaxChanges = 3
  MaxFaults = 3
  MaxCrashes = 2
INVARIANTS TypeOK NoStaleProfile
PROPERTIES ProfileFollowed
CHECK_DEADLOCK FALSE
