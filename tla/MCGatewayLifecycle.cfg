\* Three requests in every stage, with signals, failures and restarts.
CONSTANTS
  Configs <- MCConfigs
  Known = {"portentries"}
  Requests = {r1, r2, r3}
  MaxFaults = 3
  MaxSignals = 2
SPECIFICATION FairSpec
INVARIANTS TypeOK RestsServingOrHung
PROPERTIES GracefulExit StopsUnlessHung ServesInTheEnd
CHECK_DEADLOCK FALSE
