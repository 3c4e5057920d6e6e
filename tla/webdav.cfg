SPECIFICATION Spec
CONSTANTS
  never = never
  always = always
  Pids <- MCPids
  Modes <- MCModes
  Tries = 5
  SockLimit = 2
  Faults = {"spawn_fails", "httpd_crash", "few_descriptors"}
  ObexErrors = FALSE
  HAVE_BLUETOOTH = FALSE
  WrittenKeys <- WebDavKeys
  Login <- WebDavLogin
  MaxNotes = 3
  MaxLaunched = 2
  DaemonFaults = {"slow_commit"}
INVARIANTS
  HttpdTypeOK
  NoOrphan
  ServersNeverOverlap
  PasswordFresh
  ServedOnlyIfEnabled
  NothingLeftBehind
PROPERTIES
  HttpdImplemented
  ServiceImplemented
