---------------------------- MODULE WebDav_proof ----------------------------
(***************************************************************************)
(* The daemon as the caller of http.c.  In the build without Bluetooth and *)
(* without signals it uses http.c as Httpd supposes, so what is proved of  *)
(* Httpd holds in the whole system; with an                                *)
(* httpd that keeps to its times the properties that relate the servers to *)
(* the settings follow, for every password mode and every bound.  In the   *)
(* build with Bluetooth some exits leave a server behind, and in both a    *)
(* signal between the spawn of a server and its pid file may: as long as   *)
(* neither has happened, the same holds there.                             *)
(***************************************************************************)
EXTENDS Settings_proof

WebDavOnly == ~HAVE_BLUETOOTH /\ "signal" \notin DaemonFaults

\* A signal does not come while http_up waits for httpd or its pid file.
SignalSafe == Signal => call \notin {"wait", "poll"}

\* Without Bluetooth every way to the end of the process leads through
\* http_down.
WaysOut ==
  /\ pc \in {"check", "cleanup"} => httpd_pid = 0
  /\ ~HAVE_BLUETOOTH =>
       /\ pc = "exit" => httpd_pid = 0
       /\ pc \notin {"ftp", "ftp_check", "push", "push_check"}

-----------------------------------------------------------------------------
(* The daemon uses http.c as Httpd supposes *)

LEMMA HttpIsHttpd ==
  ASSUME TypeInv, DaemonInv, WaysOut,
         InHttp \/ \E p \in Pids : ServerWorks(p) \/ ServerCrashes(p)
  PROVE  WaysOut' /\ HttpdNext
<1>1. db["require_password"] \in Modes
  BY SettingsAreTyped, TypeInvParts
<1>2. HttpdNext
  BY <1>1 DEF InHttp, ServerWorks, ServerCrashes, HttpdNext
<1>3. UNCHANGED pc
  BY DEF InHttp, ServerWorks, ServerCrashes, daemonVars
<1>4. pc \in {"down", "up"} \/ UNCHANGED httpd_pid
  BY DEF DaemonInv, CallPlaced, InHttp, HttpSteps, KillHttpd, KillSlept,
         SpawnHttpd, WaitEnds, PollFound, PollAgain, PollGivesUp,
         ReadSettings, ServerWorks, ServerCrashes, HttpdWorks,
         HttpdCreatesPidfile, HttpdWritesPid, HttpdExits, HttpdCrashes, callVars
<1> QED BY <1>2, <1>3, <1>4 DEF WaysOut

\* The end of a process that may still know of a server.
BluetoothExit == HAVE_BLUETOOTH /\ Exit

LEMMA ThreadIsHttpd ==
  ASSUME TypeInv, DaemonInv, WaysOut,
         Thread \/ TimerFires \/ DisplayLost
  PROVE  WaysOut' /\ (BluetoothExit \/ [HttpdNext]_httpdVars)
<1> USE DEF DaemonInv, CallPlaced, Downed, ServerWanted, WaysOut,
            httpdVars, callVars, procVars, Enter, Return
<1>c. CallUp \/ CallDown \/ ProcessEnds => HttpdNext
  BY DEF HttpdNext
<1> HIDE DEF httpdVars
<1>1. CASE Boot
  BY <1>1 DEF Boot, httpdVars
<1>2. CASE Exit
  <2>1. WaysOut'
    BY <1>2 DEF Exit
  <2>2. ~HAVE_BLUETOOTH => ProcessEnds
    BY <1>2 DEF Exit, ProcessEnds
  <2> QED BY <1>2, <1>c, <2>1, <2>2 DEF BluetoothExit
<1>3. CASE EnabledChanged
  <2>1. call = "none"
    BY <1>3 DEF EnabledChanged
  <2>2. CallUp \/ CallDown \/ UNCHANGED httpdVars
    BY <1>3, <2>1 DEF EnabledChanged, NoServer, CallUp, CallDown, httpdVars
  <2> QED BY <1>3, <1>c, <2>2 DEF EnabledChanged
<1>4. CASE ArmTimer
  BY <1>4 DEF ArmTimer, httpdVars
<1>5. CASE TimerChecks
  BY <1>5 DEF TimerChecks, httpdVars
<1>6. CASE DownReturns
  <2>1. CallUp \/ UNCHANGED httpdVars
    BY <1>6 DEF DownReturns, CallUp, httpdVars
  <2> QED BY <1>6, <1>c, <2>1 DEF DownReturns, HttpUp
<1>7. CASE UpReturns
  BY <1>7 DEF UpReturns, httpdVars
<1>8. CASE Dispatch
  <2>1. pc = "idle" /\ call = "none" /\ UNCHANGED procVars
    BY <1>8 DEF Dispatch
  <2>2. /\ pc' \in {"idle", "enabled", "down"} \/ (HAVE_BLUETOOTH /\ pc' \in {"ftp", "push"})
        /\ HttpDown \/ UNCHANGED callVars
    BY <1>8, <2>1 DEF Dispatch, PasswordChanged, AllowWriteChanged, RequirePairingChanged
  <2>3. CallDown \/ UNCHANGED httpdVars
    BY <2>1, <2>2 DEF CallDown, httpdVars
  <2> QED BY <1>c, <2>2, <2>3
<1>9. CASE Cleanup
  BY <1>9 DEF Cleanup, httpdVars
<1>10. CASE TimerFires \/ DisplayLost
  <2>1. CallDown
    BY <1>10 DEF TimerFires, DisplayLost, CallDown
  <2> QED BY <1>10, <1>c, <2>1 DEF TimerFires, DisplayLost
<1>11. CASE FtpEnabledChanged \/ FtpChecks \/ PushEnabledChanged \/ PushChecks
  <2>1. HAVE_BLUETOOTH /\ pc' \notin {"check", "cleanup"} /\ UNCHANGED httpdVars
    BY <1>11 DEF FtpEnabledChanged, FtpChecks, PushEnabledChanged, PushChecks
  <2> QED BY <2>1
<1> QED
  BY <1>1, <1>2, <1>3, <1>4, <1>5, <1>6, <1>7, <1>8, <1>9, <1>10, <1>11
     DEF Thread

LEMMA StepIsHttpd ==
  ASSUME TypeInv, DaemonInv, WaysOut, [Next]_vars
  PROVE  WaysOut' /\ (BluetoothExit \/ Signal \/ [HttpdNext]_httpdVars)
<1>1. CASE Commit \/ Launch \/ \E k \in Keys : \E v \in Values(k) : UserSets(k, v)
  <2>1. UNCHANGED httpdVars /\ pc' \in {pc, "boot"}
    BY <1>1 DEF Commit, Launch, UserSets, daemonVars
  <2> QED BY <2>1 DEF WaysOut, httpdVars
<1>2. CASE \/ ObexServiceLost \/ UNCHANGED vars
           \/ \E v \in BOOLEAN : AdapterSwitched(v)
  BY <1>2 DEF ObexServiceLost, AdapterSwitched, vars, httpdVars, daemonVars, WaysOut
<1>3. ASSUME NEW v \in BOOLEAN, AdapterChanged \/ SessionChanged(v)
      PROVE  WaysOut' /\ UNCHANGED httpdVars
  <2>1. HAVE_BLUETOOTH /\ pc' \in {"idle", "exit"} /\ UNCHANGED httpdVars
    BY <1>3 DEF AdapterChanged, SessionChanged, ServicesStart, ServicesShutdown
  <2> QED BY <2>1 DEF WaysOut
<1>4. Signal => WaysOut'
  BY DEF Signal, Enter, WaysOut
<1> QED
  BY <1>1, <1>2, <1>3, <1>4, HttpIsHttpd, ThreadIsHttpd DEF Next

LEMMA WaysOutInvariant == Spec => [](TypeInv /\ DaemonInv /\ WaysOut)
<1>1. Init => WaysOut
  BY DEF Init, HttpdInit, WaysOut
<1>2. TypeInv /\ DaemonInv /\ WaysOut /\ [Next]_vars => WaysOut'
  BY StepIsHttpd
<1> QED BY <1>1, <1>2, TypeInvariant, DaemonInvariant, PTL DEF Spec

\* The daemon calls http_up only when it knows of no server, lets every call
\* run to its end, and ends only without one: its steps are steps of Httpd.
THEOREM DaemonImplementsHttpd ==
  ASSUME WebDavOnly
  PROVE  Spec => HttpdImplemented
<1>1. Init => HttpdInit
  BY DEF Init
<1>2. TypeInv /\ DaemonInv /\ WaysOut /\ [Next]_vars => [HttpdNext]_httpdVars
  BY StepIsHttpd DEF WebDavOnly, BluetoothExit, Signal
<1> QED
  BY <1>1, <1>2, WaysOutInvariant, PTL DEF Spec, HttpdImplemented

-----------------------------------------------------------------------------
(* What runs and what is set *)

\* A server that enforces mode is all right: it is the mode of the database,
\* or the daemon has yet to be told.
Fresh(mode) == mode = db["require_password"] \/ Pending("require_password")

\* Every server is, but while http_down stops it.
ServersFresh ==
  /\ call = "spawn" => Fresh(args.mode)
  /\ pc # "down" => \A p \in Alive : Fresh(httpd[p].mode)

SystemInv == TypeInv /\ DaemonInv /\ WaysOut /\ ServerInv

\* Without a known server none is alive, outside of http.c.
LEMMA NoneAlive ==
  ASSUME SystemInv, call = "none", httpd_pid = 0
  PROVE  Alive = {}
BY HttpdAssumption DEF SystemInv, ServerInv, HttpdAssumption, Alive

\* The password key is one of the keys.
LEMMA PasswordOfCommit ==
  ASSUME SettingsTypeOK, Commit, Running, NEW mode, Fresh(mode)
  PROVE  Fresh(mode)'
<1>1. "require_password" \in Keys
  BY DEF Keys
<1> QED BY <1>1, PendingOfCommit DEF Fresh

LEMMA SettingsKeepFresh ==
  ASSUME SystemInv, ServersFresh,
         Commit \/ Launch \/ \E k \in Keys : \E v \in Values(k) : UserSets(k, v)
  PROVE  ServersFresh'
<1>1. SettingsTypeOK
  BY TypeInvParts DEF SystemInv
<1>2. UNCHANGED httpdVars /\ Alive' = Alive
  BY DEF Commit, Launch, UserSets, httpdVars, Alive
<1>3. CASE Commit /\ Running
  <2>1. \A mode : Fresh(mode) => Fresh(mode)'
    BY <1>1, <1>3, PasswordOfCommit
  <2> QED
    BY <1>2, <1>3, <2>1 DEF ServersFresh, Commit, httpdVars, daemonVars
<1>4. CASE Commit /\ ~Running
  <2>1. call = "none" /\ Alive = {}
    BY <1>4, NoneAlive
       DEF Running, SystemInv, DaemonInv, CallPlaced, ServerWanted
  <2> QED BY <1>2, <2>1 DEF ServersFresh, httpdVars
<1>5. CASE Launch \/ \E k \in Keys : \E v \in Values(k) : UserSets(k, v)
  <2>1. UNCHANGED <<db, notes>> /\ (pc' = pc \/ pc = "off")
    BY <1>5 DEF Launch, UserSets, daemonVars
  <2> QED BY <1>2, <2>1 DEF ServersFresh, Fresh, Pending, httpdVars
<1> QED BY <1>3, <1>4, <1>5

LEMMA HttpKeepsFresh ==
  ASSUME SystemInv, ServersFresh,
         InHttp \/ \E p \in Pids : ServerWorks(p) \/ ServerCrashes(p)
  PROVE  ServersFresh'
<1>1. UNCHANGED <<pc, db, notes>>
  BY DEF InHttp, ServerWorks, ServerCrashes, daemonVars, settingsVars
<1>2. \A mode : Fresh(mode)' = Fresh(mode)
  BY <1>1 DEF Fresh, Pending
<1>t. HttpdTypeOK
  BY TypeInvParts DEF SystemInv
<1>3. CASE ReadSettings(db["require_password"])
  <2>1. call' = "spawn" => args'.mode = db["require_password"]
    BY <1>3 DEF ReadSettings
  <2>2. UNCHANGED httpd /\ Alive' = Alive
    BY <1>3 DEF ReadSettings, procVars, Alive
  <2>3. call' = "spawn" => Fresh(args.mode)'
    BY <1>1, <2>1 DEF Fresh
  <2> QED BY <1>1, <1>2, <2>2, <2>3 DEF ServersFresh
<1>4. CASE SpawnHttpd
  <2>1. \A p \in Alive' : \/ httpd'[p].mode = args.mode
                          \/ p \in Alive /\ httpd'[p] = httpd[p]
    BY <1>4, <1>t DEF SpawnHttpd, Alive, HttpdTypeOK
  <2> QED BY <1>1, <1>2, <1>4, <2>1 DEF SpawnHttpd, ServersFresh
<1>5. CASE HttpSteps /\ ~SpawnHttpd
  <2>1. /\ call' # "spawn"
        /\ \A p \in Alive' : p \in Alive /\ httpd'[p].mode = httpd[p].mode
    BY <1>5, <1>t
       DEF HttpSteps, KillHttpd, KillSlept, WaitEnds, PollFound, PollAgain,
           PollGivesUp, Sigterm, procVars, Alive, HttpdTypeOK
  <2> QED BY <1>1, <1>2, <2>1 DEF ServersFresh
<1>6. ASSUME NEW p \in Pids, ServerWorks(p) \/ ServerCrashes(p)
      PROVE  ServersFresh'
  <2>1. UNCHANGED callVars
    BY <1>6, <1>t, ProcessesOnlyEnd DEF ServerWorks, ServerCrashes
  <2>2. \A q \in Alive' : q \in Alive /\ httpd'[q].mode = httpd[q].mode
    BY <1>6, <1>t
       DEF ServerWorks, ServerCrashes, HttpdWorks, HttpdCreatesPidfile,
           HttpdWritesPid, HttpdExits, HttpdCrashes, Alive, HttpdTypeOK,
           NoProcess
  <2> QED BY <1>1, <1>2, <2>1, <2>2 DEF ServersFresh, callVars
<1> QED BY <1>3, <1>4, <1>5, <1>6 DEF InHttp

LEMMA ThreadKeepsFresh ==
  ASSUME SystemInv, ServersFresh, NothingLeftBehind',
         Thread \/ TimerFires \/ DisplayLost
  PROVE  ServersFresh'
<1> USE DEF Enter, Return, callVars, procVars, httpdVars, settingsVars
<1>s. SettingsTypeOK
  BY TypeInvParts DEF SystemInv
<1>p. CallPlaced /\ Downed /\ WaysOut
  BY DEF SystemInv, DaemonInv
<1>a. UNCHANGED procVars => Alive' = Alive
  BY DEF Alive
<1>b. ASSUME UNCHANGED <<db, notes>> PROVE \A mode : Fresh(mode)' = Fresh(mode)
  BY <1>b DEF Fresh, Pending
<1>0. CASE FtpEnabledChanged \/ FtpChecks \/ PushEnabledChanged \/ PushChecks
  <2>1. UNCHANGED httpdVars /\ UNCHANGED <<db, notes>> /\ pc # "down"
    BY <1>0 DEF FtpEnabledChanged, FtpChecks, PushEnabledChanged, PushChecks
  <2> QED BY <1>a, <1>b, <2>1 DEF ServersFresh
<1>1. CASE Exit
  <2>1. Alive' = {}
    BY <1>1 DEF Exit, NothingLeftBehind
  <2> QED BY <1>1, <2>1 DEF Exit, NewProcess, ServersFresh
<1>2. CASE DownReturns
  <2>1. Alive' = {}
    BY <1>2, <1>p, <1>a, NoneAlive DEF DownReturns, Downed
  <2>2. call' # "spawn"
    BY <1>2 DEF DownReturns, HttpUp
  <2> QED BY <2>1, <2>2 DEF ServersFresh
<1>3. CASE Dispatch
  <2>1. UNCHANGED procVars /\ db' = db /\ pc = "idle" /\ call = "none"
    BY <1>3, <1>p DEF Dispatch, CallPlaced
  <2>2. CASE Head(notes) = "require_password"
    <3>1. PasswordChanged
      BY <1>3, <2>2 DEF Dispatch, Flags, Switches
    <3>2. CASE httpd_pid = 0
      BY <1>a, <2>1, <3>1, <3>2, NoneAlive
         DEF PasswordChanged, NeedsRestart, ServersFresh
    <3>3. CASE httpd_pid # 0
      BY <3>1, <3>3 DEF PasswordChanged, NeedsRestart, HttpDown, ServersFresh
    <3> QED BY <3>2, <3>3
  <2>3. CASE Head(notes) # "require_password"
    <3>1. \A mode : Fresh(mode) => Fresh(mode)'
      BY <1>s, <1>3, <2>1, <2>3, PendingOfDispatch DEF Fresh
    <3>2. call' = "none"
      BY <1>3, <2>1, <2>3 DEF Dispatch, AllowWriteChanged, RequirePairingChanged
    <3>3. \A p \in Alive : Fresh(httpd[p].mode)
      BY <2>1 DEF ServersFresh
    <3> QED BY <1>a, <2>1, <3>1, <3>2, <3>3 DEF ServersFresh
  <2> QED BY <2>2, <2>3
<1>4. CASE EnabledChanged \/ TimerFires \/ DisplayLost
  <2>1. /\ UNCHANGED procVars /\ UNCHANGED <<db, notes>>
        /\ pc # "down" /\ call' # "spawn"
    BY <1>4, <1>p
       DEF EnabledChanged, TimerFires, DisplayLost, HttpDown, HttpUp, CallPlaced
  <2> QED BY <1>a, <1>b, <2>1 DEF ServersFresh
<1>5. CASE Boot \/ ArmTimer \/ TimerChecks \/ UpReturns \/ Cleanup
  <2>1. UNCHANGED httpdVars /\ UNCHANGED <<db, notes>> /\ pc # "down"
    BY <1>5 DEF Boot, ArmTimer, TimerChecks, UpReturns, Cleanup
  <2> QED BY <1>a, <1>b, <2>1 DEF ServersFresh
<1> QED BY <1>0, <1>1, <1>2, <1>3, <1>4, <1>5 DEF Thread

LEMMA FreshStep ==
  ASSUME SystemInv, ServersFresh, NothingLeftBehind', [Next]_vars
  PROVE  ServersFresh'
<1>1. CASE \/ ObexServiceLost \/ UNCHANGED vars
           \/ \E v \in BOOLEAN : AdapterSwitched(v)
  BY <1>1 DEF ObexServiceLost, AdapterSwitched, vars, httpdVars, daemonVars, settingsVars,
              ServersFresh, Fresh, Pending, Alive
<1>2. ASSUME NEW v \in BOOLEAN, AdapterChanged \/ SessionChanged(v)
      PROVE  ServersFresh'
  <2>1. pc = "idle" /\ UNCHANGED <<httpdVars, db, notes>>
    BY <1>2 DEF AdapterChanged, SessionChanged, settingsVars
  <2> QED BY <2>1 DEF httpdVars, ServersFresh, Fresh, Pending, Alive
<1>3. CASE Signal
  BY <1>3 DEF Signal, Enter, HttpDown, ServersFresh
<1> QED
  BY <1>1, <1>2, <1>3, SettingsKeepFresh, HttpKeepsFresh, ThreadKeepsFresh DEF Next

\* The end of a process that leaves no server behind keeps the invariant too,
\* and so does a signal that comes before the spawn or after the pid file.
LEMMA SystemStep ==
  ASSUME Prompt, SystemInv, NothingLeftBehind', [SignalSafe]_vars, [Next]_vars
  PROVE  ServerInv'
<1>1. CASE BluetoothExit
  <2>1. Alive' = {} /\ call' = "none"
    BY <1>1 DEF BluetoothExit, Exit, NewProcess, NothingLeftBehind
  <2> QED BY <2>1 DEF ServerInv
<1>2. CASE [HttpdNext]_httpdVars
  BY <1>2, ServerStep, TypeInvParts DEF SystemInv
<1>3. CASE Signal
  <2>1. handler' # handler
    BY <1>3 DEF Signal, Enter
  <2>2. call \notin {"wait", "poll"}
    BY <1>3, <2>1 DEF SignalSafe, vars, daemonVars
  <2>3. call' = "kill" /\ httpd_pid' = httpd_pid /\ Alive' = Alive
    BY <1>3 DEF Signal, HttpDown, procVars, Alive
  <2>4. Alive \subseteq {httpd_pid}
    BY <2>2, TypeInvParts DEF SystemInv, ServerInv, HttpdTypeOK, Calls
  <2> QED BY <2>3, <2>4 DEF ServerInv
<1> QED BY <1>1, <1>2, <1>3, StepIsHttpd DEF SystemInv

LEMMA SystemInvariant ==
  ASSUME Prompt
  PROVE  Spec /\ []NothingLeftBehind /\ [][SignalSafe]_vars
           => [](SystemInv /\ ServersFresh)
<1>1. Init => ServerInv /\ ServersFresh
  BY DEF Init, HttpdInit, ServerInv, ServersFresh, Alive, NoProcess
<1>2. SystemInv /\ NothingLeftBehind' /\ [SignalSafe]_vars /\ [Next]_vars
        => ServerInv'
  BY SystemStep
<1>3. SystemInv /\ ServersFresh /\ NothingLeftBehind' /\ [Next]_vars => ServersFresh'
  BY FreshStep
<1> QED
  BY <1>1, <1>2, <1>3, WaysOutInvariant, PTL DEF Spec, SystemInv

\* A daemon of the build without Bluetooth that is gone leaves no httpd behind.
THEOREM NothingIsLeftBehind ==
  ASSUME WebDavOnly, Prompt
  PROVE  Spec => []NothingLeftBehind
<1>1. SystemInv => NothingLeftBehind
  BY NoneAlive
     DEF SystemInv, DaemonInv, CallPlaced, ServerWanted, NothingLeftBehind
<1>2. Init => ServerInv
  BY DEF Init, HttpdInit, ServerInv, Alive, NoProcess
<1>3. /\ TypeInv /\ DaemonInv /\ WaysOut /\ ServerInv /\ [Next]_vars
         => ServerInv'
  BY StepIsHttpd, ServerStep, TypeInvParts DEF WebDavOnly, BluetoothExit, Signal
<1> QED BY <1>1, <1>2, <1>3, WaysOutInvariant, PTL DEF Spec, SystemInv

LEMMA WebDavInvariant ==
  ASSUME WebDavOnly, Prompt
  PROVE  Spec => [](SystemInv /\ ServersFresh)
<1>1. SignalSafe
  BY DEF SignalSafe, WebDavOnly, Signal
<1> QED BY <1>1, SystemInvariant, NothingIsLeftBehind, PTL

LEMMA IdleServerIsWanted ==
  ASSUME SystemInv
  PROVE  ServedOnlyIfEnabled
<1> SUFFICES ASSUME pc = "idle", ~Pending("enabled"), Alive # {}
             PROVE  db["enabled"]
  BY DEF ServedOnlyIfEnabled
<1>1. httpd_pid # 0
  BY NoneAlive DEF SystemInv, DaemonInv, CallPlaced
<1> QED BY <1>1 DEF SystemInv, DaemonInv, ServerWanted, ToldOff

\* Once the daemon has dealt with every change of the switch, files are
\* served only if the user wants it.
THEOREM OnlyTheWantedIsServed ==
  ASSUME WebDavOnly, Prompt
  PROVE  Spec => []ServedOnlyIfEnabled
<1> QED BY IdleServerIsWanted, WebDavInvariant, PTL

\* Once the daemon has dealt with every change of the password mode, every
\* server enforces the mode of the database.
THEOREM PasswordIsFresh ==
  ASSUME WebDavOnly, Prompt
  PROVE  Spec => []PasswordFresh
<1>1. ServersFresh => PasswordFresh
  BY DEF ServersFresh, Fresh, PasswordFresh
<1> QED BY <1>1, WebDavInvariant, PTL

\* In both builds there are two ways to lose a server, an exit that leaves it
\* behind and a signal while http_up waits for its pid file.  Without them each
\* server that runs is the one http_down would kill, two never overlap, and once
\* the daemon has dealt with the changes of a setting its server is wanted and
\* enforces the mode, with signals at any other moment.
THEOREM TwoWaysToLoseServers ==
  ASSUME Prompt
  PROVE  Spec /\ []NothingLeftBehind /\ [][SignalSafe]_vars =>
           [](NoOrphan /\ ServersNeverOverlap /\ ServedOnlyIfEnabled /\ PasswordFresh)
<1>1. SystemInv => NoOrphan
  BY DEF SystemInv, ServerInv, NoOrphan
<1>2. SystemInv => ServersNeverOverlap
  BY TypeInvParts, AtMostOne DEF SystemInv, ServersNeverOverlap
<1>3. ServersFresh => PasswordFresh
  BY DEF ServersFresh, Fresh, PasswordFresh
<1> QED BY <1>1, <1>2, <1>3, IdleServerIsWanted, SystemInvariant, PTL

\* The whole system implements the service http.c promises: the daemon never
\* calls http_up over a server it knows or may have lost.
THEOREM DaemonImplementsService ==
  ASSUME WebDavOnly, Prompt
  PROVE  Spec => ServiceImplemented
<1>1. Init => Service!Init
  BY ServiceStart DEF Init
<1>2. /\ SystemInv /\ SystemInv' /\ [Next]_vars
      => [Service!Next]_(Service!serviceVars)
  <2> SUFFICES ASSUME SystemInv, SystemInv', [Next]_vars
               PROVE  ServiceStepOK
    BY DEF ServiceStepOK
  <2>1. [HttpdNext]_httpdVars
    BY StepIsHttpd DEF SystemInv, WebDavOnly, BluetoothExit, Signal
  <2>2. HttpdTypeOK /\ ServerInv /\ ServerInv'
    BY TypeInvParts DEF SystemInv
  <2> QED BY <2>1, <2>2, ServiceStep
<1> QED
  BY <1>1, <1>2, WebDavInvariant, PTL
     DEF Spec, ServiceImplemented, Service!Spec
=============================================================================
