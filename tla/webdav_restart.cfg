SPECIFICATION Spec
CONSTANTS
  never = never
  always = always
  Pids <- MCPids
  Modes <- MCModes
  Tries = 3
  SockLimit = 0
  Faults = {}
  ObexErrors = FALSE
  HAVE_BLUETOOTH = TRUE
  WrittenKeys <- WebDavKeys
  Login <- EnabledLogin
  MaxNotes = 2
  MaxLaunched = 1
  DaemonFaults = {}
INVARIANTS
  RestartedAnyway
