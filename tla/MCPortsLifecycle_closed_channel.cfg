\* Serve fails at once, and a signal finds the channel closed.
CONSTANTS
  Configs <- MCConfigs
  Known = {"portentries"}
  MaxFaults = 1
  MaxSignals = 1
SPECIFICATION Spec
PROPERTY SignalNeverPanics
CHECK_DEADLOCK FALSE
