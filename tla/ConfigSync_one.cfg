SPECIFICATION Spec
CONSTANTS
  bs1 = bs1
  bs2 = bs2
  cm = cm
  sec = sec
  cmHandler = cmHandler
  secHandler = secHandler
  Backstages = {bs1}
  Objects = {cm, sec}
  Refs <- OneInstance
  Handlers = {cmHandler, secHandler}
  HandlerOf <- MCHandlerOf
  Worker = worker
  NoName = NoName
  OpenShift = FALSE
  AutoSync = TRUE
  RetrySteps = 2
  TypedFirst = TRUE
  MayReplace = FALSE
  MaxEdits = 2
  MaxFaults = 1
  MaxCrashes = 1
INVARIANTS TypeOK NoLostRefresh RefreshPending
PROPERTIES UserDataPreserved ImplementsPodRefresh
