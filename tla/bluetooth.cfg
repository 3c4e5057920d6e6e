SPECIFICATION Spec
CONSTANTS
  never = never
  always = always
  Pids <- MCPids
  Modes <- OneMode
  Tries = 1
  SockLimit = 0
  Faults = {}
  ObexErrors = FALSE
  HAVE_BLUETOOTH = TRUE
  WrittenKeys <- BluetoothKeys
  Login <- BluetoothLogin
  MaxNotes = 2
  MaxLaunched = 1
  DaemonFaults = {"display_lost"}
INVARIANTS
  ManagedOnlyIfEnabled
  ObexOnlyIfWanted
  ObexOnlyIfActive
  NoStrayObex
