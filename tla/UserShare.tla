----------------------------- MODULE UserShare -----------------------------
(***************************************************************************)
(* src/src/user_share.c: the mate-user-share daemon, from the moment an    *)
(* instance owns the X selection to the end of its process, together with  *)
(* what acts on it: the settings database with its change notifications,   *)
(* the preferences window that writes settings and launches the daemon,    *)
(* the Bluetooth adapter, the login session, and signals.                  *)
(*                                                                         *)
(* The daemon is one thread.  Its main loop dispatches one event at a time *)
(* and a handler runs to its end, but the handler's http.c calls, its      *)
(* D-Bus calls and its exits take time in which the database changes and   *)
(* instances are launched.  pc is where the thread is, handler what it is  *)
(* to go on with when a call returns.                                      *)
(***************************************************************************)
EXTENDS Httpd, Obex, Sequences

CONSTANTS
  HAVE_BLUETOOTH,  \* the configure switch
  WrittenKeys,     \* keys the user changes while the system runs
  Login,           \* the values of the settings at login
  MaxNotes,        \* bound: notifications waiting for the daemon
  MaxLaunched,     \* bound: launched instances that have not looked yet
  DaemonFaults     \* what may befall the daemon, a subset of the set below

\* signal: SIGINT, SIGHUP or SIGTERM.  display_lost: the X connection breaks.
\* slow_commit: an instance can come up before the setting written just
\* before it was launched is in the database.  obex_lost: org.openobex loses
\* its servers.
AllDaemonFaults == {"signal", "display_lost", "slow_commit", "obex_lost"}

Switches == {"enabled", "ftp", "push"}
Flags == Switches \cup {"allow_write", "require_pairing"}
Keys == Flags \cup {"require_password"}
Values(k) == IF k \in Flags THEN BOOLEAN ELSE Modes

ASSUME UserShareAssumption ==
  /\ HAVE_BLUETOOTH \in BOOLEAN
  /\ WrittenKeys \subseteq Keys
  /\ Login \subseteq [Keys -> BOOLEAN \cup Modes]
  /\ \A d \in Login : \A k \in Keys : d[k] \in Values(k)
  /\ MaxNotes \in Nat
  /\ MaxLaunched \in Nat \ {0}

VARIABLES
  pc,        \* where the daemon's thread is, "off" without a process
  handler,   \* the handler an http.c call returns to
  timer,     \* disabled_timeout_tag: 0, a pending source, or one that fired
  db,        \* the settings database
  notes,     \* changed:: notifications the main loop has not dispatched
  write,     \* the write under way to the database
  launched,  \* instances started that have not looked for the selection
  adapter,       \* there is a default adapter and it is powered (external)
  adapter_note,  \* a change of the adapter that waits for the main loop
  bluetoothd_enabled, has_console,   \* the static variables
  client,    \* the BluetoothClient: "none", "live", "freed"
  obexftp, obexpush                  \* the proxies of the two files

daemonVars == <<pc, handler, timer>>
settingsVars == <<db, notes, write, launched>>
sightVars == <<adapter, adapter_note, bluetoothd_enabled, has_console, client>>
btVars == <<sightVars, obexftp, obexpush>>
vars == <<httpdVars, daemonVars, settingsVars, btVars>>

PcNames == {"off", "boot", "idle", "enabled", "down", "up", "arm", "check",
            "ftp", "ftp_check", "push", "push_check", "cleanup", "exit"}
Handlers == {"none", "main", "note", "password", "timer", "signal", "xio"}

NoWrite == <<>>
Pending(k) == \E i \in DOMAIN notes : notes[i] = k
Running == pc \notin {"off", "boot"}

\* A plausible bug: the adapter is not looked at.
MutOBEX_ENABLED == has_console
OBEX_ENABLED == bluetoothd_enabled /\ has_console

DaemonTypeOK ==
  /\ pc \in PcNames
  /\ handler \in Handlers
  /\ timer \in {"none", "armed", "fired"}

SettingsTypeOK ==
  /\ db \in [Keys -> BOOLEAN \cup Modes]
  /\ \A k \in Keys : db[k] \in Values(k)
  /\ notes \in Seq(Keys) /\ Len(notes) <= MaxNotes
  /\ write = NoWrite
       \/ \E k \in Keys : \E v \in Values(k) : write = <<k, v>>
  /\ launched \in 0 .. MaxLaunched

BluetoothTypeOK ==
  /\ adapter \in BOOLEAN /\ adapter_note \in BOOLEAN
  /\ bluetoothd_enabled \in BOOLEAN /\ has_console \in BOOLEAN
  /\ client \in {"none", "live", "freed"}
  /\ obexftp \in ObexState /\ obexpush \in ObexState

UserShareTypeOK ==
  HttpdTypeOK /\ DaemonTypeOK /\ SettingsTypeOK /\ BluetoothTypeOK

\* Login: the desktop files of the session launch the daemon.
Init ==
  /\ HttpdInit
  /\ pc = "off" /\ handler = "none" /\ timer = "none"
  /\ db \in Login /\ notes = <<>> /\ write = NoWrite
  /\ launched = 1
  /\ adapter \in BOOLEAN /\ adapter_note = FALSE
  /\ adapter => HAVE_BLUETOOTH
  /\ bluetoothd_enabled = FALSE /\ has_console = TRUE /\ client = "none"
  /\ obexftp = NoProxies /\ obexpush = NoProxies

-----------------------------------------------------------------------------
(* The preferences window and the settings database *)

\* A control is used: the key is written, asynchronously, and switching
\* something on launches the daemon at once (file-share-properties.c).
UserSets(k, v) ==
  /\ k \in WrittenKeys
  /\ v # db[k]
  /\ write = NoWrite
  /\ write' = <<k, v>>
  /\ IF k \in Switches /\ v = TRUE
       THEN launched < MaxLaunched /\ launched' = launched + 1
       ELSE launched' = launched
  /\ UNCHANGED <<httpdVars, daemonVars, btVars, db, notes>>

\* The write arrives (external): readers see it at once, the daemon is told
\* by a notification that waits for its main loop.
Commit ==
  /\ write # NoWrite
  /\ Len(notes) < MaxNotes
  /\ db' = [db EXCEPT ![write[1]] = write[2]]
  /\ notes' = IF Running THEN Append(notes, write[1]) ELSE notes
  /\ write' = NoWrite
  /\ UNCHANGED <<httpdVars, daemonVars, btVars, launched>>

-----------------------------------------------------------------------------
(* main *)

\* A launched instance looks for the owner of the selection.  With an owner
\* it quits; without one it becomes the daemon.
Launch ==
  /\ launched > 0
  /\ "slow_commit" \in DaemonFaults \/ write = NoWrite
  /\ launched' = launched - 1
  /\ pc' = IF pc = "off" THEN "boot" ELSE pc
  /\ UNCHANGED <<httpdVars, handler, timer, db, notes, write, btVars>>

\* Something to share?
file_sharing_enabled ==
  db["enabled"] \/ (HAVE_BLUETOOTH /\ (db["ftp"] \/ db["push"]))

\* default_adapter_changed, by main and as a callback: a look at the adapter.
AdapterSeen == bluetoothd_enabled' = adapter

bluez_init == client' = "live" /\ AdapterSeen

\* has_console stays TRUE without a session manager and is FALSE while the
\* property is not cached.
session_init == has_console' \in BOOLEAN

\* main up to the initial calls of the handlers.
Boot ==
  /\ pc = "boot"
  /\ IF file_sharing_enabled
       THEN /\ pc' = "enabled" /\ handler' = "main"
            /\ IF HAVE_BLUETOOTH
                 THEN bluez_init /\ session_init
                 ELSE UNCHANGED <<client, bluetoothd_enabled, has_console>>
       ELSE /\ pc' = "exit" /\ handler' = "none"
            /\ UNCHANGED <<client, bluetoothd_enabled, has_console>>
  /\ UNCHANGED <<httpdVars, timer, settingsVars, adapter, adapter_note,
                 obexftp, obexpush>>

\* The process ends, its selection and its static variables with it.
Exit ==
  /\ pc = "exit"
  /\ pc' = "off" /\ handler' = "none" /\ timer' = "none" /\ notes' = <<>>
  /\ NewProcess
  /\ bluetoothd_enabled' = FALSE /\ has_console' = TRUE /\ client' = "none"
  /\ adapter_note' = FALSE
  /\ obexftp' = NoProxies /\ obexpush' = NoProxies
  /\ UNCHANGED <<procVars, db, write, launched, adapter>>

\* A handler called by the main loop ends; one called by main goes on there.
Return(next) ==
  IF handler = "main" /\ HAVE_BLUETOOTH
    THEN pc' = next /\ handler' = handler
    ELSE pc' = "idle" /\ handler' = "none"

-----------------------------------------------------------------------------
(* The WebDAV handlers *)

Enter(p, h) == pc' = p /\ handler' = h

\* A plausible bug: the timer is left running when sharing is enabled again.
MutTimerRemoved == IF db["enabled"] THEN timer ELSE "none"
TimerRemoved == "none"

\* Plausible bugs: a running server is taken for nothing left to do, and
\* another server is started beside it.
MutTurnedOff == ~db["enabled"] /\ httpd_pid = 0
TurnedOff == ~db["enabled"]
MutNoServer == TRUE
NoServer == httpd_pid = 0

\* file_sharing_enabled_changed up to its call of http_up or http_down.
EnabledChanged ==
  /\ pc = "enabled"
  /\ timer' = TimerRemoved
  /\ \/ /\ TurnedOff
        /\ Enter("down", handler) /\ HttpDown
     \/ /\ ~TurnedOff /\ NoServer
        /\ Enter("up", handler) /\ HttpUp
     \/ /\ ~TurnedOff /\ ~NoServer
        /\ Return("ftp") /\ UNCHANGED callVars
  /\ UNCHANGED <<procVars, settingsVars, btVars>>

\* ... and after http_down: exit in three seconds.
ArmTimer ==
  /\ pc = "arm"
  /\ timer' = "armed"
  /\ Return("ftp")
  /\ UNCHANGED <<httpdVars, settingsVars, btVars>>

\* require_password_changed: a restart, if there is a server.
\* A plausible bug: the server is left running with its old mode.
MutNeedsRestart == FALSE
NeedsRestart == httpd_pid # 0

PasswordChanged ==
  IF NeedsRestart
    THEN Enter("down", "password") /\ HttpDown
    ELSE UNCHANGED <<pc, handler, callVars>>

\* disabled_timeout_callback: its source is gone after it, its tag stays.
TimerFires ==
  /\ pc = "idle" /\ timer = "armed"
  /\ timer' = "fired"
  /\ Enter("down", "timer") /\ HttpDown
  /\ UNCHANGED <<procVars, settingsVars, btVars>>

\* ... and after http_down.  A plausible bug: a test the wrong way round.
MutNothingLeft == db["enabled"]
NothingLeft ==
  IF HAVE_BLUETOOTH THEN ~db["ftp"] /\ ~db["push"] ELSE ~db["enabled"]

TimerChecks ==
  /\ pc = "check"
  /\ IF NothingLeft THEN Enter("exit", "none") ELSE Enter("idle", "none")
  /\ UNCHANGED <<httpdVars, timer, settingsVars, btVars>>

\* http_down returns to its caller.
DownReturns ==
  /\ pc = "down" /\ call = "none"
  /\ \/ handler \in {"main", "note"} /\ Enter("arm", handler) /\ UNCHANGED callVars
     \/ handler = "password" /\ Enter("up", "note") /\ HttpUp
     \/ handler = "timer" /\ Enter("check", "none") /\ UNCHANGED callVars
     \/ handler \in {"signal", "xio"} /\ Enter("cleanup", handler) /\ UNCHANGED callVars
  /\ UNCHANGED <<procVars, timer, settingsVars, btVars>>

\* http_up returns: whether it succeeded is not looked at.
UpReturns ==
  /\ pc = "up" /\ call = "none"
  /\ Return("ftp")
  /\ UNCHANGED <<httpdVars, timer, settingsVars, btVars>>

-----------------------------------------------------------------------------
(* The Bluetooth handlers *)

\* obexftp_up and its callers pass the settings as they read them.
FtpUp(o) == ObexUp(o, db["allow_write"], db["require_pairing"])
FtpRestart(o) == ObexRestart(o, db["allow_write"], db["require_pairing"])

\* obexpush_up: any device may write, no pairing is asked for.
PushUp(o) == ObexUp(o, TRUE, FALSE)

\* A plausible bug: obex_services_start does not look at the settings.
MutWanted(k) == TRUE
Wanted(k) == db[k]

\* The adapter comes or goes, or another one becomes the default (external),
\* at any time: bluetoothd tells the client, and what a live client is told
\* waits for the main loop.  Bound: one change waits at a time.
AdapterSwitched(powered) ==
  /\ HAVE_BLUETOOTH /\ ~adapter_note
  /\ adapter' = powered
  /\ adapter_note' = (client = "live")
  /\ UNCHANGED <<httpdVars, daemonVars, settingsVars, bluetoothd_enabled,
                 has_console, client, obexftp, obexpush>>

\* obex_services_start: the last thing it does is to drop the only
\* reference to the client, every time, and with it what the client had yet
\* to tell; dropping it again is undefined.
ServicesStart ==
  /\ obexpush' \in IF Wanted("push") THEN PushUp(obexpush) ELSE {obexpush}
  /\ obexftp' \in IF Wanted("ftp") THEN FtpUp(obexftp) ELSE {obexftp}
  /\ client' = "freed" /\ adapter_note' = FALSE
  /\ pc' \in IF client = "freed" THEN {pc, "exit"} ELSE {pc}

ServicesShutdown ==
  /\ obexpush' \in ObexDown(obexpush)
  /\ obexftp' \in ObexDown(obexftp)
  /\ UNCHANGED <<client, pc>>

\* default_adapter_changed as a callback: a client that was freed calls
\* nobody any more.
AdapterChanged ==
  /\ HAVE_BLUETOOTH /\ pc = "idle" /\ client = "live" /\ adapter_note
  /\ AdapterSeen /\ adapter_note' = FALSE
  /\ \/ adapter /\ has_console /\ ServicesStart
     \/ adapter /\ ~has_console /\ UNCHANGED <<obexftp, obexpush, client, pc>>
     \/ ~adapter /\ ServicesShutdown
  /\ UNCHANGED <<httpdVars, handler, timer, settingsVars, adapter, has_console>>

\* session_properties_changed_cb
SessionChanged(active) ==
  /\ HAVE_BLUETOOTH /\ pc = "idle"
  /\ has_console' = active
  /\ \/ active /\ bluetoothd_enabled /\ ServicesStart
     \/ /\ active /\ ~bluetoothd_enabled
        /\ UNCHANGED <<adapter_note, obexftp, obexpush, client, pc>>
     \/ ~active /\ ServicesShutdown /\ UNCHANGED adapter_note
  /\ UNCHANGED <<httpdVars, handler, timer, settingsVars, adapter,
                 bluetoothd_enabled>>

\* file_sharing_bluetooth_allow_write_changed
AllowWriteChanged ==
  /\ obexftp' \in IF db["ftp"] THEN FtpRestart(obexftp) ELSE {obexftp}
  /\ UNCHANGED <<pc, handler, callVars, obexpush>>

\* file_sharing_bluetooth_require_pairing_changed
PairingReset(o) == UNION {FtpUp(s) : s \in ObexDown(o)}

RequirePairingChanged ==
  /\ obexftp' \in IF db["ftp"] THEN PairingReset(obexftp) ELSE {obexftp}
  /\ UNCHANGED <<pc, handler, callVars, obexpush>>

\* file_sharing_bluetooth_enabled_changed: Close takes a while, the other
\* keys are read after it.
FtpEnabledChanged ==
  /\ pc = "ftp"
  /\ IF ~db["ftp"]
       THEN /\ obexftp' \in ObexDown(obexftp)
            /\ Enter("ftp_check", handler)
       ELSE /\ obexftp' \in IF OBEX_ENABLED THEN FtpUp(obexftp) ELSE {obexftp}
            /\ Return("push")
  /\ UNCHANGED <<httpdVars, timer, settingsVars, sightVars, obexpush>>

FtpChecks ==
  /\ pc = "ftp_check"
  /\ IF ~db["enabled"] /\ ~db["push"] THEN Enter("exit", "none") ELSE Return("push")
  /\ UNCHANGED <<httpdVars, timer, settingsVars, btVars>>

\* file_sharing_bluetooth_obexpush_enabled_changed
PushEnabledChanged ==
  /\ pc = "push"
  /\ IF ~db["push"]
       THEN /\ obexpush' \in ObexDown(obexpush)
            /\ Enter("push_check", "note")
       ELSE /\ obexpush' \in IF OBEX_ENABLED THEN PushUp(obexpush) ELSE {obexpush}
            /\ Enter("idle", "none")
  /\ UNCHANGED <<httpdVars, timer, settingsVars, sightVars, obexftp>>

PushChecks ==
  /\ pc = "push_check"
  /\ IF ~db["enabled"] /\ ~db["ftp"] THEN Enter("exit", "none") ELSE Enter("idle", "none")
  /\ UNCHANGED <<httpdVars, timer, settingsVars, btVars>>

\* org.openobex loses its servers (external).
ObexServiceLost ==
  /\ "obex_lost" \in DaemonFaults
  /\ obexftp' = ObexLost(obexftp) /\ obexpush' = ObexLost(obexpush)
  /\ UNCHANGED <<httpdVars, daemonVars, settingsVars, sightVars>>

-----------------------------------------------------------------------------
(* The main loop, signals *)

\* The main loop dispatches a changed:: notification.  Without Bluetooth
\* nothing is connected for the Bluetooth keys.
Dispatch ==
  /\ pc = "idle" /\ notes # <<>>
  /\ notes' = Tail(notes)
  /\ LET k == Head(notes) IN
     \/ /\ k = "enabled" \/ (HAVE_BLUETOOTH /\ k \in {"ftp", "push"})
        /\ Enter(k, "note")
        /\ UNCHANGED <<callVars, obexftp, obexpush>>
     \/ /\ k = "require_password" /\ PasswordChanged
        /\ UNCHANGED <<obexftp, obexpush>>
     \/ HAVE_BLUETOOTH /\ k = "allow_write" /\ AllowWriteChanged
     \/ HAVE_BLUETOOTH /\ k = "require_pairing" /\ RequirePairingChanged
     \/ /\ ~HAVE_BLUETOOTH /\ k \in Flags \ {"enabled"}
        /\ UNCHANGED <<pc, handler, callVars, obexftp, obexpush>>
  /\ UNCHANGED <<procVars, timer, db, write, launched, sightVars>>

\* cleanup_handler, wherever the thread is.
Signal ==
  /\ "signal" \in DaemonFaults
  /\ pc # "off" /\ handler # "signal"
  /\ Enter("down", "signal") /\ HttpDown
  /\ UNCHANGED <<procVars, timer, settingsVars, btVars>>

\* x_io_error_handler, called by Xlib in the main loop.
DisplayLost ==
  /\ "display_lost" \in DaemonFaults
  /\ pc = "idle"
  /\ Enter("down", "xio") /\ HttpDown
  /\ UNCHANGED <<procVars, timer, settingsVars, btVars>>

\* ... both after http_down; only the first stops obexpush.
Cleanup ==
  /\ pc = "cleanup"
  /\ obexftp' \in ObexDown(obexftp)
  /\ obexpush' \in IF handler = "signal" THEN ObexDown(obexpush) ELSE {obexpush}
  /\ Enter("exit", handler)
  /\ UNCHANGED <<httpdVars, timer, settingsVars, sightVars>>

-----------------------------------------------------------------------------
(* The system *)

\* Steps the thread of the daemon takes by itself.
Thread ==
  \/ Boot \/ Exit
  \/ EnabledChanged \/ ArmTimer \/ TimerChecks \/ DownReturns \/ UpReturns
  \/ FtpEnabledChanged \/ FtpChecks \/ PushEnabledChanged \/ PushChecks
  \/ Dispatch \/ Cleanup

\* Steps of http.c and of the httpd processes.
InHttp ==
  /\ HttpSteps \/ ReadSettings(db["require_password"])
  /\ UNCHANGED <<daemonVars, settingsVars, btVars>>

ServerWorks(p) ==
  HttpdWorks(p) /\ UNCHANGED <<daemonVars, settingsVars, btVars>>

ServerCrashes(p) ==
  HttpdCrashes(p) /\ UNCHANGED <<daemonVars, settingsVars, btVars>>

Next ==
  \/ Thread \/ InHttp \/ TimerFires
  \/ Signal \/ DisplayLost \/ ObexServiceLost
  \/ \E p \in Pids : ServerWorks(p) \/ ServerCrashes(p)
  \/ AdapterChanged \/ \E v \in BOOLEAN : AdapterSwitched(v) \/ SessionChanged(v)
  \/ \E k \in Keys : \E v \in Values(k) : UserSets(k, v)
  \/ Commit \/ Launch

\* The kernel runs the daemon, httpd and the launched instances, the main
\* loop gets to its events and its timer, dconf writes what it was given.
\* Nothing makes the user act, a signal come or a server crash.
Fairness ==
  /\ WF_vars(Thread) /\ WF_vars(~Hangs /\ InHttp) /\ WF_vars(TimerFires)
  /\ \A p \in Pids : WF_vars(ServerWorks(p))
  /\ WF_vars(Commit) /\ WF_vars(Launch)

Spec == Init /\ [][Next]_vars /\ Fairness

-----------------------------------------------------------------------------
(* Properties *)

\* Without Bluetooth and without signals the daemon uses http.c the way Httpd
\* supposes: http_up only when no server is known, calls that run to their
\* end, and no end of the process that leaves a known server behind.
HttpdImplemented == HttpdInit /\ [][HttpdNext]_httpdVars

\* When the daemon has dealt with every change of the password mode, every
\* server that runs enforces the mode in the database: no change is lost,
\* wherever in http_up it came.
PasswordFresh ==
  pc = "idle" /\ ~Pending("require_password") =>
    \A p \in Alive : httpd[p].mode = db["require_password"]

\* When the daemon has dealt with every change of the key, files are served
\* over the network only if the user wants it.
ServedOnlyIfEnabled ==
  pc = "idle" /\ ~Pending("enabled") => (Alive # {} => db["enabled"])

\* The exit timer runs only while the daemon knows of no server, and with
\* sharing switched on again only as long as it has yet to deal with that.
TimerOnlyWhileDown ==
  timer = "armed" =>
    /\ httpd_pid = 0
    /\ db["enabled"] => Pending("enabled") \/ pc = "enabled" \/ handler = "signal"

\* A daemon that is gone leaves no httpd behind.
NothingLeftBehind == pc = "off" => Alive = {}

\* A daemon that stays, with sharing switched on, gets a server up.
EventuallyServed ==
  <>[](db["enabled"] /\ Running) => []<>(\E p \in Pids : httpd[p].at = "up")

\* Sharing that is switched off for good ends, and the daemon with it.
EventuallyGone ==
  <>[](~db["enabled"]) => <>[](Alive = {} /\ pc = "off")

\* "If we re-enable it in the ui, this will be restarted anyway"
\* (user_share.c:257): a daemon on its way out after the timer, with sharing
\* switched on again, has a write or a launched instance still to come.
RestartedAnyway ==
  pc = "exit" /\ timer = "fired" /\ db["enabled"] =>
    write # NoWrite \/ launched > 0

\* As ServedOnlyIfEnabled, of the server the daemon knows of.
ManagedOnlyIfEnabled ==
  pc = "idle" /\ ~Pending("enabled") => (httpd_pid # 0 => db["enabled"])

\* When the daemon has dealt with every change of its switch, an OBEX server
\* runs only if the user wants it.
ObexOnlyIfWanted ==
  pc = "idle" =>
    /\ obexftp.remote = "started" => db["ftp"] \/ Pending("ftp")
    /\ obexpush.remote = "started" => db["push"] \/ Pending("push")

\* OBEX servers run only in the active session and, when the daemon has dealt
\* with every change of the adapter, only while there is a powered adapter, as
\* long as the user changes only the switches: the handlers of allow-write and
\* require-pairing ask for neither.  Nothing is claimed of the adapter once
\* obex_services_start has dropped the client (user_share.c:102): from then on
\* nobody tells the daemon, and an adapter that goes leaves the servers up.
ObexOnlyIfActive ==
  pc = "idle" /\ (obexftp.remote = "started" \/ obexpush.remote = "started") =>
    /\ has_console
    /\ client = "live" /\ ~adapter_note => adapter

\* The two proxies of a file are set and cleared together, whatever call
\* fails: the code tests either for both.
ProxiesPaired == ProxiesTogether(obexftp) /\ ProxiesTogether(obexpush)

\* No OBEX server runs that obexftp_down and obexpush_down cannot reach.
NoStrayObex == NoStrayServer(obexftp) /\ NoStrayServer(obexpush)

\* "We need to fully reset the session, otherwise the new setting isn't taken
\* into account" (user_share.c:311): when every change has been dealt with,
\* the server runs with the pairing setting of the database.
PairingApplied ==
  pc = "idle" /\ notes = <<>> /\ obexftp.remote = "started" =>
    obexftp.pairing = db["require_pairing"]
=============================================================================
