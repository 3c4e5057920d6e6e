SPECIFICATION HistorySpec
CONSTANTS
  Pids <- MCPids
  Modes <- MCModes
  Tries = 3
  SockLimit = 2
  Faults = {"spawn_fails", "slow_start", "slow_exit", "torn_pidfile", "httpd_crash", "few_descriptors", "httpd_hangs", "daemon_killed"}
PROPERTIES
  CallReturns
  FreshPidAdopted
