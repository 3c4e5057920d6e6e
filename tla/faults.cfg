SPECIFICATION Spec
CONSTANTS
  never = never
  always = always
  Pids <- OnePid
  Modes <- OneMode
  Tries = 1
  SockLimit = 1
  Faults = {}
  ObexErrors = TRUE
  HAVE_BLUETOOTH = TRUE
  WrittenKeys <- FaultsKeys
  Login <- FaultsLogin
  MaxNotes = 1
  MaxLaunched = 1
  DaemonFaults = {"signal", "obex_lost"}
INVARIANTS
  UserShareTypeOK
  ProxiesPaired
  TimerOnlyWhileDown
