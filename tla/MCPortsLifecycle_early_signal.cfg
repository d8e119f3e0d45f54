\* A signal arrives before Serve has its listener.
CONSTANTS
  Configs <- MCConfigs
  Known = {"portentries"}
  MaxFaults = 1
  MaxSignals = 1
SPECIFICATION Spec
INVARIANT SignalEndsInSuccess
CHECK_DEADLOCK FALSE
