\* A handler that hangs keeps Shutdown from returning.
CONSTANTS
  Configs <- MCConfigs
  Known = {"portentries"}
  Requests = {r1}
  MaxFaults = 1
  MaxSignals = 2
SPECIFICATION FairSpec
PROPERTY RunEndsWithContext
CHECK_DEADLOCK FALSE
