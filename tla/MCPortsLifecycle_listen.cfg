\* The address is taken.
CONSTANTS
  Configs <- MCConfigs
  Known = {"portentries"}
  MaxFaults = 1
  MaxSignals = 1
SPECIFICATION Spec
INVARIANT ListenErrorReturned
CHECK_DEADLOCK FALSE
