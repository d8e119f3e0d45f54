\* Every configuration, with outages, failures, signals and restarts.
CONSTANTS
  Configs <- MCConfigs
  Known = {"portentries"}
  MaxFaults = 3
  MaxSignals = 2
SPECIFICATION FairSpec
INVARIANTS TypeOK ServesReady SuccessIsClean RestsOnlyInService
PROPERTIES StopCompletes ComesUp
CHECK_DEADLOCK FALSE
