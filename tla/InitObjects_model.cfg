SPECIFICATION Spec
CONSTANTS
  Labels <- MCLabels
  Flavours <- MCFlavours
  DepsDir <- MCDepsDir
  Inputs <- AllInputs
CHECK_DEADLOCK FALSE
INVARIANTS TypeOK LayersOverride ReferencesResolved LaterMountsOverride AppConfigsReadable
  VariablesLayered DatabaseWired BaseUrlServed PluginConfigsMerged DependenciesLayered
