---------------------------- MODULE MCUserShare ----------------------------
(* UserShare on small instances: few process ids, two password modes.     *)
EXTENDS UserShare

CONSTANTS never, always

MCPids == {1, 2}
MCModes == {never, always}

\* The defaults of the schema, with the given switches on.
Defaults(on) ==
  [k \in Keys |-> CASE k = "require_password" -> never
                    [] k = "require_pairing" -> TRUE
                    [] OTHER -> k \in on]

WebDavLogin == {Defaults({}), Defaults({"enabled"})}
WebDavKeys == {"enabled", "require_password"}

OnePid == {1}
EnabledLogin == {Defaults({"enabled"})}

\* The Bluetooth build: one password mode, one process id too many.
OneMode == {never}
BluetoothLogin == {Defaults(on) : on \in SUBSET {"enabled", "ftp"}}
ObexLogin == {Defaults({"ftp"})}
ObexKeys == {"ftp", "allow_write", "require_pairing"}
FaultsKeys == {"enabled", "allow_write", "require_pairing"}
FaultsLogin == {Defaults({"enabled", "ftp"})}
BluetoothKeys == {"enabled", "ftp", "push"}
=============================================================================
