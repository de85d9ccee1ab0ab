SPECIFICATION ResyncSpec
CONSTANTS
  bs1 = bs1
  bs2 = bs2
  cm = cm
  sec = sec
  cmHandler = cmHandler
  secHandler = secHandler
  Backstages = {bs1, bs2}
  Objects = {cm}
  Refs <- Shared
  Handlers = {cmHandler}
  HandlerOf <- MCHandlerOf
  Worker = worker
  NoName = NoName
  OpenShift = TRUE
  AutoSync = TRUE
  RetrySteps = 2
  TypedFirst = FALSE
  MayReplace = TRUE
  MaxEdits = 2
  MaxFaults = 1
  MaxCrashes = 1
PROPERTIES FirstOwnerWins NoRollback EventuallyRefreshed
