SPECIFICATION HistorySpec
CONSTANTS
  Pids <- MCPids
  Modes <- MCModes
  Tries = 5
  SockLimit = 2
  Faults = {"slow_exit"}
PROPERTIES
  PidfileNotRaced
