\* The third failure to dial is no error.
CONSTANTS
  Configs <- MCConfigs
  Known = {"portentries"}
  Requests = {r1}
  MaxFaults = 3
  MaxSignals = 2
SPECIFICATION Spec
INVARIANT DialErrorReported
CHECK_DEADLOCK FALSE
