SPECIFICATION Spec
CONSTANTS
  bs1 = bs1
  bs2 = bs2
  cm = cm
  sec = sec
  cmHandler = cmHandler
  secHandler = secHandler
  Backstages = {bs1}
  Objects = {cm}
  Refs <- Shared
  Handlers = {cmHandler}
  HandlerOf <- MCHandlerOf
  Worker = worker
  NoName = NoName
  OpenShift = FALSE
  AutoSync = TRUE
  RetrySteps = 2
  TypedFirst = FALSE
  MayReplace = FALSE
  MaxEdits = 2
  MaxFaults = 0
  MaxCrashes = 0
INVARIANTS NoLostRefresh
