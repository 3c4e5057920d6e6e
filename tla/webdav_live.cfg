SPECIFICATION Spec
CONSTANTS
  never = never
  always = always
  Pids <- MCPids
  Modes <- MCModes
  Tries = 3
  SockLimit = 0
  Faults = {}
  ObexErrors = FALSE
  HAVE_BLUETOOTH = FALSE
  WrittenKeys <- WebDavKeys
  Login <- WebDavLogin
  MaxNotes = 2
  MaxLaunched = 1
  DaemonFaults = {"slow_commit"}
PROPERTIES
  EventuallyServed
  EventuallyGone
