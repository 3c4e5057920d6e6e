-------------------------- MODULE Bluetooth_proof --------------------------
(***************************************************************************)
(* The OBEX servers of the build with Bluetooth, as long as no D-Bus call  *)
(* fails that need not: which servers run when the daemon is in its main   *)
(* loop.  Signals, a lost display, an org.openobex that loses its servers, *)
(* a client that is dropped twice and every fault of httpd are allowed.    *)
(***************************************************************************)
EXTENDS Settings_proof

CallsSucceed == ObexErrors = FALSE

\* The keys whose handlers start ObexFTP unasked are left alone.
OnlySwitchesWritten == WrittenKeys \subseteq Switches

-----------------------------------------------------------------------------
(* The operators of Obex, without failing calls *)

\* A server that runs is one the daemon holds proxies for.
Held == {o \in Paired : NoStrayServer(o)}

Silent(o) == o.remote # "started"

LEMMA NoneFails ==
  ASSUME CallsSucceed, NEW results
  PROVE  Failing(results) = {}
BY DEF CallsSucceed, Failing

LEMMA NoProxiesHeld == NoProxies \in Held /\ Silent(NoProxies)
BY NoProxiesPaired DEF NoProxies, Held, NoStrayServer, Silent

LEMMA HeldIsPaired == Held \subseteq Paired
BY DEF Held

LEMMA LostHeld ==
  ASSUME NEW o \in Held
  PROVE  ObexLost(o) \in Held /\ Silent(ObexLost(o))
<1>1. ObexLost(o) \in Paired
  BY LostPaired DEF Held
<1>2. ObexLost(o).remote = "none"
  BY DEF ObexLost, Held, Paired, ObexState
<1> QED BY <1>1, <1>2 DEF Held, NoStrayServer, Silent

LEMMA ClosedHeld ==
  ASSUME NEW o \in Held
  PROVE  /\ Closed(o) \in Held /\ Silent(Closed(o))
         /\ Released(Closed(o)) = NoProxies
<1>1. Closed(o) \in Paired
  BY ClosedPaired DEF Held
<1>2. Closed(o).remote = "stopped"
  BY DEF Closed, Held, Paired, ObexState
<1> QED BY <1>1, <1>2 DEF Held, NoStrayServer, Silent, Released

\* Down leaves no server, whatever it finds.
LEMMA StopHeld ==
  ASSUME CallsSucceed, NEW o \in Held, NEW stop_manager \in BOOLEAN,
         NEW s \in ObexStop(o, stop_manager)
  PROVE  s \in Held /\ Silent(s)
<1>1. CASE ~o.server \/ o.remote = "none"
  BY <1>1 DEF ObexStop, Held, NoStrayServer, Silent
<1>2. CASE o.server /\ o.remote # "none"
  BY <1>2, ClosedHeld, NoneFails, NoProxiesHeld DEF ObexStop
<1> QED BY <1>1, <1>2 DEF Held, Paired, ObexState

LEMMA DownHeld ==
  ASSUME CallsSucceed, NEW o \in Held, NEW s \in ObexDown(o)
  PROVE  s \in Held /\ Silent(s)
BY StopHeld DEF ObexDown

\* Start with a manager proxy ends with both proxies or with neither, and
\* the server is up only with both.
LEMMA StartHeld ==
  ASSUME CallsSucceed, NEW o \in ObexState, o.manager, NEW writable \in BOOLEAN,
         NEW s \in StartServer(o, writable)
  PROVE  s \in Held
<1> DEFINE t == [o EXCEPT !.server = TRUE]
           started == [t EXCEPT !.remote = "started", !.write = writable]
<1>1. s \in Paired
  BY StartPaired
<1>2. t \in ObexState /\ t.server /\ started \in ObexState /\ started.server
  BY DEF ObexState, RemoteStates
<1>3. s = t \/ s = started \/ (s = Released(t) /\ t.remote = "none")
  <2>1. t.remote \in RemoteStates
    BY <1>2 DEF ObexState
  <2>2. CASE t.remote = "started"
    BY <2>2, NoneFails DEF StartServer
  <2>3. CASE t.remote = "stopped"
    BY <2>3, NoneFails DEF StartServer
  <2>4. CASE t.remote = "none"
    BY <2>4 DEF StartServer
  <2> QED BY <2>1, <2>2, <2>3, <2>4 DEF RemoteStates
<1> HIDE DEF t, started
<1>4. s.server \/ s = NoProxies
  BY <1>2, <1>3 DEF Released
<1> QED BY <1>1, <1>4, NoProxiesHeld DEF Held, NoStrayServer

LEMMA UpHeld ==
  ASSUME CallsSucceed, NEW o \in Held, NEW writable \in BOOLEAN, NEW pairing \in BOOLEAN,
         NEW s \in ObexUp(o, writable, pairing)
  PROVE  s \in Held
<1>1. PICK c \in CreateServer(o, pairing) :
        s \in IF c.manager THEN StartServer(c, writable) ELSE {c}
  BY DEF ObexUp
<1>2. c \in ObexState /\ (c.manager \/ c \in Paired)
  BY CreateResult DEF Held
<1>3. CASE c.manager
  BY <1>1, <1>2, <1>3, StartHeld
<1>4. CASE ~c.manager
  <2>1. c = o
    <3> DEFINE m == [o EXCEPT !.manager = TRUE]
               n == [m EXCEPT !.remote = "stopped", !.pairing = pairing]
    <3>1. m.manager /\ n.manager
      BY DEF Held, Paired, ObexState
    <3>2. c \in {o, m, n}
      BY <1>1, NoneFails DEF CreateServer
    <3> QED BY <1>4, <3>1, <3>2
  <2> QED BY <1>1, <1>4, <2>1
<1> QED BY <1>3, <1>4

\* Restart closes a running server and starts it again with the proxies it has.
LEMMA RestartHeld ==
  ASSUME CallsSucceed, NEW o \in Held, NEW writable \in BOOLEAN, NEW pairing \in BOOLEAN,
         NEW s \in ObexRestart(o, writable, pairing)
  PROVE  s \in Held
<1>1. PICK t \in ObexStop(o, FALSE) : s \in ObexUp(t, writable, pairing)
  BY DEF ObexRestart
<1> QED BY <1>1, StopHeld, UpHeld

-----------------------------------------------------------------------------
(* The inductive invariant *)

BtHeld == obexftp \in Held /\ obexpush \in Held

BothSilent == Silent(obexftp) /\ Silent(obexpush)

\* No server outlives its process, and a build without Bluetooth has none.
SilentOutside ==
  /\ pc \in {"off", "boot"} => BothSilent
  /\ ~HAVE_BLUETOOTH => BothSilent /\ pc \notin {"ftp", "push"}

\* The switch is on, the daemon has yet to be told or is being told, or it is
\* on the way out.
StillOn(k) == db[k] \/ Pending(k) \/ pc = k \/ handler = "signal"

ServersWanted ==
  /\ Silent(obexftp) \/ StillOn("ftp")
  /\ Silent(obexpush) \/ StillOn("push")

ObexInv == BtHeld /\ SilentOutside /\ ServersWanted

-----------------------------------------------------------------------------
(* The steps *)

\* The OBEX calls of the handlers, with the settings they read.
LEMMA CallsHeld ==
  ASSUME CallsSucceed, TypeInv, BtHeld
  PROVE  /\ \A s \in ObexDown(obexftp) : s \in Held /\ Silent(s)
         /\ \A s \in ObexDown(obexpush) : s \in Held /\ Silent(s)
         /\ \A s \in FtpUp(obexftp) : s \in Held
         /\ \A s \in FtpRestart(obexftp) : s \in Held
         /\ \A s \in PairingReset(obexftp) : s \in Held
         /\ \A s \in PushUp(obexpush) : s \in Held
<1>1. obexftp \in Held /\ obexpush \in Held
  BY DEF BtHeld
<1>2. db["allow_write"] \in BOOLEAN /\ db["require_pairing"] \in BOOLEAN
  BY SettingsAreTyped DEF TypeInv, UserShareTypeOK, Flags
<1>3. \A o \in Held : \A s \in FtpUp(o) : s \in Held
  BY <1>2, UpHeld DEF FtpUp
<1>4. \A s \in ObexDown(obexftp) : s \in Held /\ Silent(s)
  BY <1>1, DownHeld
<1>5. \A s \in ObexDown(obexpush) : s \in Held /\ Silent(s)
  BY <1>1, DownHeld
<1>6. \A s \in FtpRestart(obexftp) : s \in Held
  BY <1>1, <1>2, RestartHeld DEF FtpRestart
<1>7. \A s \in PairingReset(obexftp) : s \in Held
  BY <1>3, <1>4 DEF PairingReset
<1>8. \A s \in PushUp(obexpush) : s \in Held
  BY <1>1, UpHeld DEF PushUp
<1> QED BY <1>1, <1>3, <1>4, <1>5, <1>6, <1>7, <1>8

\* A step that leaves the servers alone.
LEMMA QuietStep ==
  ASSUME ObexInv, UNCHANGED <<obexftp, obexpush>>,
         pc' \in {"off", "boot"} => pc \in {"off", "boot"},
         ~HAVE_BLUETOOTH => pc' \notin {"ftp", "push"},
         \A k \in {"ftp", "push"} :
           pc \notin {"off", "boot"} /\ StillOn(k) => StillOn(k)'
  PROVE  ObexInv'
<1>1. BtHeld' /\ BothSilent' = BothSilent
  BY DEF ObexInv, BtHeld, BothSilent, Silent
<1>2. SilentOutside'
  BY <1>1 DEF ObexInv, SilentOutside
<1>3. ServersWanted'
  <2>1. CASE pc \in {"off", "boot"}
    BY <1>1, <2>1 DEF ObexInv, SilentOutside, BothSilent, ServersWanted
  <2>2. CASE pc \notin {"off", "boot"}
    BY <2>2 DEF ObexInv, ServersWanted, Silent
  <2> QED BY <2>1, <2>2
<1> QED BY <1>1, <1>2, <1>3 DEF ObexInv

\* ... and the settings, on its way from and to no handler of a switch.
LEMMA ThreadMoves ==
  ASSUME ObexInv, UNCHANGED <<obexftp, obexpush, db, notes>>,
         pc' \in {"off", "boot"} => pc \in {"off", "boot"},
         ~HAVE_BLUETOOTH => pc' \notin {"ftp", "push"},
         \/ pc' = pc /\ handler' = handler
         \/ pc \notin {"ftp", "push"} /\ handler # "signal"
         \/ handler' = "signal"
  PROVE  ObexInv'
<1>1. \A k \in {"ftp", "push"} : StillOn(k) => StillOn(k)'
  BY DEF StillOn, Pending
<1> QED BY <1>1, QuietStep

LEMMA UserKeepsObex ==
  ASSUME TypeInv, ObexInv,
         Commit \/ Launch \/ \E k \in Keys : \E v \in Values(k) : UserSets(k, v)
  PROVE  ObexInv'
<1>1. CASE Commit
  <2>1. UNCHANGED <<obexftp, obexpush, pc, handler>>
    BY <1>1 DEF Commit, btVars, daemonVars
  <2>2. \A k \in {"ftp", "push"} :
          pc \notin {"off", "boot"} /\ StillOn(k) => StillOn(k)'
    <3>1. SettingsTypeOK /\ {"ftp", "push"} \subseteq Keys
      BY TypeInvParts DEF Keys, Flags, Switches
    <3> QED BY <1>1, <2>1, <3>1, PendingOfCommit DEF StillOn, Running
  <2> QED BY <2>1, <2>2, QuietStep DEF ObexInv, SilentOutside
<1>2. CASE Launch
  BY <1>2, QuietStep DEF Launch, btVars, StillOn, Pending, ObexInv, SilentOutside
<1>3. ASSUME NEW k \in Keys, NEW v \in Values(k), UserSets(k, v)
      PROVE  ObexInv'
  BY <1>3, ThreadMoves DEF UserSets, btVars, daemonVars, ObexInv, SilentOutside
<1> QED BY <1>1, <1>2, <1>3

LEMMA HandlersKeepObex ==
  ASSUME DaemonInv, ObexInv,
         Boot \/ EnabledChanged \/ ArmTimer \/ TimerFires \/ TimerChecks
           \/ DownReturns \/ UpReturns \/ FtpChecks \/ PushChecks
           \/ Signal \/ DisplayLost
  PROVE  ObexInv'
<1> USE ThreadMoves
    DEF DaemonInv, SignalLasts, Enter, Return, settingsVars, btVars
<1>1. CASE Boot
  BY <1>1 DEF Boot
<1>2. CASE EnabledChanged
  BY <1>2 DEF EnabledChanged
<1>3. CASE ArmTimer
  BY <1>3 DEF ArmTimer
<1>4. CASE TimerFires
  BY <1>4 DEF TimerFires
<1>5. CASE TimerChecks
  BY <1>5 DEF TimerChecks
<1>6. CASE DownReturns
  BY <1>6 DEF DownReturns
<1>7. CASE UpReturns
  BY <1>7 DEF UpReturns
<1>8. CASE FtpChecks
  BY <1>8 DEF FtpChecks
<1>9. CASE PushChecks
  BY <1>9 DEF PushChecks
<1>10. CASE Signal
  BY <1>10 DEF Signal
<1>11. CASE DisplayLost
  BY <1>11 DEF DisplayLost
<1> QED
  BY <1>1, <1>2, <1>3, <1>4, <1>5, <1>6, <1>7, <1>8, <1>9, <1>10, <1>11

LEMMA HttpKeepsObex ==
  ASSUME ObexInv,
         InHttp \/ \E p \in Pids : ServerWorks(p) \/ ServerCrashes(p)
  PROVE  ObexInv'
<1>1. UNCHANGED <<daemonVars, settingsVars, btVars>>
  BY DEF InHttp, ServerWorks, ServerCrashes
<1> QED
  BY <1>1, ThreadMoves
     DEF daemonVars, settingsVars, btVars, ObexInv, SilentOutside

LEMMA ExitKeepsObex ==
  ASSUME Exit
  PROVE  ObexInv' /\ BothSilent'
BY NoProxiesHeld
   DEF Exit, ObexInv, BtHeld, BothSilent, SilentOutside, ServersWanted

\* obex_services_start looks at the switches, obex_services_shutdown stops
\* both.
LEMMA ServicesHeld ==
  ASSUME CallsSucceed, TypeInv, BtHeld,
         \/ ServicesStart
         \/ ServicesShutdown
         \/ UNCHANGED <<obexftp, obexpush, client, pc>>
  PROVE  /\ BtHeld' /\ pc' \in {pc, "exit"}
         /\ Silent(obexftp)' \/ Silent(obexftp)' = Silent(obexftp) \/ db["ftp"]
         /\ Silent(obexpush)' \/ Silent(obexpush)' = Silent(obexpush) \/ db["push"]
<1> USE CallsHeld DEF BtHeld, Silent
<1>1. CASE ServicesStart
  BY <1>1 DEF ServicesStart, Wanted
<1>2. CASE ServicesShutdown
  BY <1>2 DEF ServicesShutdown
<1>3. CASE UNCHANGED <<obexftp, obexpush, client, pc>>
  BY <1>3
<1> QED BY <1>1, <1>2, <1>3

LEMMA ObexHandlersKeepObex ==
  ASSUME CallsSucceed, TypeInv, DaemonInv, ObexInv,
         FtpEnabledChanged \/ PushEnabledChanged \/ ObexServiceLost \/ Cleanup
           \/ AdapterChanged
           \/ \E v \in BOOLEAN : AdapterSwitched(v) \/ SessionChanged(v)
  PROVE  ObexInv'
<1> USE DEF ObexInv, ServersWanted
<1>0. BtHeld /\ (pc \in {"ftp", "push"} => HAVE_BLUETOOTH /\ handler # "signal")
  BY DEF SilentOutside, DaemonInv, SignalLasts
<1>1. CASE FtpEnabledChanged
  <2>1. obexftp' \in Held /\ (Silent(obexftp') \/ db["ftp"])
    BY <1>0, <1>1, CallsHeld DEF FtpEnabledChanged, BtHeld
  <2>2. /\ UNCHANGED <<obexpush, db, notes>> /\ pc = "ftp" /\ HAVE_BLUETOOTH
        /\ pc' \notin {"off", "boot"}
    BY <1>0, <1>1 DEF FtpEnabledChanged, settingsVars, Enter, Return
  <2>3. StillOn("push") => StillOn("push")'
    BY <1>0, <2>2 DEF StillOn, Pending
  <2> QED
    BY <1>0, <2>1, <2>2, <2>3 DEF BtHeld, SilentOutside, StillOn, Silent
<1>2. CASE PushEnabledChanged
  <2>1. obexpush' \in Held /\ (Silent(obexpush') \/ db["push"])
    BY <1>0, <1>2, CallsHeld DEF PushEnabledChanged, BtHeld
  <2>2. /\ UNCHANGED <<obexftp, db, notes>> /\ pc = "push" /\ HAVE_BLUETOOTH
        /\ pc' \notin {"off", "boot"}
    BY <1>0, <1>2 DEF PushEnabledChanged, settingsVars, Enter
  <2>3. StillOn("ftp") => StillOn("ftp")'
    BY <1>0, <2>2 DEF StillOn, Pending
  <2> QED
    BY <1>0, <2>1, <2>2, <2>3 DEF BtHeld, SilentOutside, StillOn, Silent
<1>3. CASE ObexServiceLost
  <2>1. BtHeld' /\ BothSilent'
    BY <1>3, LostHeld DEF ObexServiceLost, BtHeld, BothSilent, Silent
  <2>2. UNCHANGED pc
    BY <1>3 DEF ObexServiceLost, daemonVars
  <2> QED BY <2>1, <2>2 DEF SilentOutside, BothSilent
<1>4. CASE Cleanup
  <2>1. /\ UNCHANGED <<db, notes, handler>> /\ pc = "cleanup" /\ pc' = "exit"
    BY <1>4 DEF Cleanup, settingsVars, Enter
  <2>2. /\ BtHeld' /\ Silent(obexftp')
        /\ Silent(obexpush') \/ obexpush' = obexpush
    BY <1>0, <1>4, CallsHeld DEF Cleanup, BtHeld
  <2>3. StillOn("push") => StillOn("push")'
    BY <2>1 DEF StillOn, Pending
  <2> QED BY <2>1, <2>2, <2>3 DEF SilentOutside, BothSilent, Silent
<1>5. ASSUME pc = "idle", HAVE_BLUETOOTH, UNCHANGED <<handler, db, notes>>,
             \/ ServicesStart
             \/ ServicesShutdown
             \/ UNCHANGED <<obexftp, obexpush, client, pc>>
      PROVE  ObexInv'
  <2>1. /\ BtHeld' /\ pc' \in {pc, "exit"}
        /\ Silent(obexftp)' \/ Silent(obexftp)' = Silent(obexftp) \/ db["ftp"]
        /\ Silent(obexpush)' \/ Silent(obexpush)' = Silent(obexpush) \/ db["push"]
    BY <1>0, <1>5, ServicesHeld
  <2>2. /\ StillOn("ftp") => StillOn("ftp")'
        /\ StillOn("push") => StillOn("push")'
        /\ db["ftp"] => StillOn("ftp")'
        /\ db["push"] => StillOn("push")'
    BY <1>5 DEF StillOn, Pending
  <2>3. SilentOutside'
    BY <1>5, <2>1 DEF SilentOutside
  <2>4. ServersWanted'
    BY <2>1, <2>2
  <2> QED BY <2>1, <2>3, <2>4
<1>6. CASE AdapterChanged
  BY <1>5, <1>6 DEF AdapterChanged, settingsVars
<1>7. ASSUME NEW v \in BOOLEAN, SessionChanged(v)
      PROVE  ObexInv'
  BY <1>5, <1>7 DEF SessionChanged, settingsVars
<1>8. CASE \E v \in BOOLEAN : AdapterSwitched(v)
  BY <1>8, ThreadMoves DEF AdapterSwitched, daemonVars, settingsVars, SilentOutside
<1> QED BY <1>1, <1>2, <1>3, <1>4, <1>6, <1>7, <1>8

LEMMA DispatchKeepsObex ==
  ASSUME CallsSucceed, TypeInv, DaemonInv, ObexInv, Dispatch
  PROVE  ObexInv'
<1>1. /\ pc = "idle" /\ db' = db /\ handler # "signal" /\ SettingsTypeOK
      /\ BtHeld
  BY TypeInvParts DEF Dispatch, DaemonInv, SignalLasts, ObexInv
<1>2. /\ BtHeld' /\ obexpush' = obexpush
      /\ Silent(obexftp)' \/ obexftp' = obexftp \/ (db["ftp"] /\ HAVE_BLUETOOTH)
  <2>1. CASE HAVE_BLUETOOTH /\ AllowWriteChanged
    BY <1>1, <2>1, CallsHeld DEF AllowWriteChanged, BtHeld
  <2>2. CASE HAVE_BLUETOOTH /\ RequirePairingChanged
    BY <1>1, <2>2, CallsHeld DEF RequirePairingChanged, BtHeld
  <2>3. CASE UNCHANGED <<obexftp, obexpush>>
    BY <1>1, <2>3 DEF BtHeld
  <2> QED BY <2>1, <2>2, <2>3 DEF Dispatch
<1>3. /\ pc' \notin {"off", "boot"}
      /\ ~HAVE_BLUETOOTH => pc' \notin {"ftp", "push"}
      /\ Head(notes) \in {"ftp", "push"} => pc' = Head(notes) \/ ~HAVE_BLUETOOTH
  BY <1>1 DEF Dispatch, Enter, PasswordChanged, AllowWriteChanged,
              RequirePairingChanged, HttpDown, Switches, Flags
<1>4. ASSUME NEW k \in {"ftp", "push"}, HAVE_BLUETOOTH, StillOn(k)
      PROVE  StillOn(k)'
  <2>1. CASE Head(notes) = k
    BY <1>3, <1>4, <2>1 DEF StillOn
  <2>2. CASE Head(notes) # k
    BY <1>1, <1>4, <2>2, PendingOfDispatch DEF StillOn
  <2> QED BY <2>1, <2>2
<1>5. SilentOutside'
  BY <1>2, <1>3 DEF ObexInv, SilentOutside, BothSilent, Silent
<1>6. ServersWanted'
  <2>1. CASE HAVE_BLUETOOTH
    BY <1>1, <1>2, <1>4, <2>1 DEF ObexInv, ServersWanted, StillOn, Silent
  <2>2. CASE ~HAVE_BLUETOOTH
    BY <1>5, <2>2 DEF SilentOutside, BothSilent, ServersWanted
  <2> QED BY <2>1, <2>2
<1> QED BY <1>2, <1>5, <1>6 DEF ObexInv

LEMMA ObexInvInit == Init => ObexInv
BY NoProxiesHeld
   DEF Init, ObexInv, BtHeld, BothSilent, SilentOutside, ServersWanted

LEMMA ObexInvStep ==
  ASSUME CallsSucceed, TypeInv, DaemonInv, ObexInv, [Next]_vars
  PROVE  ObexInv'
<1>1. CASE Thread
  BY <1>1, HandlersKeepObex, ExitKeepsObex, ObexHandlersKeepObex,
     DispatchKeepsObex
     DEF Thread
<1>2. CASE UNCHANGED vars
  BY <1>2, ThreadMoves
     DEF vars, daemonVars, settingsVars, btVars, ObexInv, SilentOutside
<1> QED
  BY <1>1, <1>2, UserKeepsObex, HandlersKeepObex, ObexHandlersKeepObex,
     HttpKeepsObex
     DEF Next

LEMMA ObexInvariant ==
  ASSUME CallsSucceed
  PROVE  Spec => []ObexInv
<1>1. TypeInv /\ DaemonInv /\ ObexInv /\ [Next]_vars => ObexInv'
  BY ObexInvStep
<1> QED BY <1>1, ObexInvInit, TypeInvariant, DaemonInvariant, PTL DEF Spec

\* No OBEX server runs that obexftp_down and obexpush_down cannot reach,
\* whenever signals come, the adapter and the session change and org.openobex
\* loses its servers, as long as no call fails that need not.
THEOREM NoStrayServers ==
  ASSUME CallsSucceed
  PROVE  Spec => []NoStrayObex
<1>1. ObexInv => NoStrayObex
  BY DEF ObexInv, BtHeld, Held, NoStrayObex
<1> QED BY <1>1, ObexInvariant, PTL

\* When the daemon has dealt with every change of a switch, the OBEX server
\* of that switch runs only if the user wants it.
THEOREM ObexIsWanted ==
  ASSUME CallsSucceed
  PROVE  Spec => []ObexOnlyIfWanted
<1>1. ObexInv /\ DaemonInv => ObexOnlyIfWanted
  BY DEF ObexInv, ServersWanted, StillOn, Silent, ObexOnlyIfWanted, DaemonInv,
         SignalLasts
<1> QED BY <1>1, ObexInvariant, DaemonInvariant, PTL

-----------------------------------------------------------------------------
(* The adapter and the session *)

\* Only keys the user changes are ever written or notified.
OnlyWritten ==
  /\ write # NoWrite => \E k \in WrittenKeys : \E v \in Values(k) : write = <<k, v>>
  /\ notes \in Seq(WrittenKeys)

\* A live client with nothing to tell has told the daemon of the adapter.
AdapterKnown ==
  client = "live" /\ ~adapter_note => bluetoothd_enabled = adapter

ActiveInv == OnlyWritten /\ AdapterKnown /\ (OBEX_ENABLED \/ BothSilent)

LEMMA WrittenStep ==
  ASSUME SettingsTypeOK, OnlyWritten, [Next]_vars
  PROVE  OnlyWritten'
<1> USE DEF OnlyWritten
<1>1. CASE UNCHANGED settingsVars \/ UNCHANGED <<notes, write>>
  BY <1>1 DEF settingsVars
<1>2. ASSUME NEW k \in Keys, NEW v \in Values(k), UserSets(k, v)
      PROVE  OnlyWritten'
  BY <1>2 DEF UserSets
<1>3. CASE Commit
  <2>1. PICK k \in WrittenKeys : \E v \in Values(k) : write = <<k, v>>
    BY <1>3 DEF Commit
  <2>2. notes' \in {notes, Append(notes, k)} /\ write' = NoWrite
    BY <1>3, <2>1 DEF Commit
  <2> QED BY <2>1, <2>2, AppendProperties
<1>4. CASE Dispatch
  <2>1. notes # <<>> /\ notes' = Tail(notes) /\ write' = write
    BY <1>4 DEF Dispatch
  <2> QED BY <2>1, HeadTailProperties
<1>5. CASE Exit
  <2>1. notes' = <<>> /\ write' = write
    BY <1>5 DEF Exit
  <2> QED BY <2>1
<1>6. CASE Launch
  BY <1>1, <1>6 DEF Launch
<1>7. CASE Thread /\ ~Dispatch /\ ~Exit
  BY <1>1, <1>7
     DEF Thread, Boot, EnabledChanged, ArmTimer, TimerChecks, DownReturns,
         UpReturns, FtpEnabledChanged, FtpChecks, PushEnabledChanged,
         PushChecks, Cleanup
<1>8. CASE InHttp \/ TimerFires \/ Signal \/ DisplayLost \/ ObexServiceLost
  BY <1>1, <1>8 DEF InHttp, TimerFires, Signal, DisplayLost, ObexServiceLost
<1>9. CASE \E p \in Pids : ServerWorks(p) \/ ServerCrashes(p)
  BY <1>1, <1>9 DEF ServerWorks, ServerCrashes
<1>10. CASE AdapterChanged \/ \E v \in BOOLEAN : AdapterSwitched(v) \/ SessionChanged(v)
  BY <1>1, <1>10 DEF AdapterChanged, AdapterSwitched, SessionChanged
<1>11. CASE UNCHANGED vars
  BY <1>1, <1>11 DEF vars
<1> QED
  BY <1>2, <1>3, <1>4, <1>5, <1>6, <1>7, <1>8, <1>9, <1>10, <1>11 DEF Next

LEMMA KnownStep ==
  ASSUME AdapterKnown, [Next]_vars
  PROVE  AdapterKnown'
<1> USE DEF AdapterKnown, AdapterSeen, btVars, sightVars
<1>1. CASE UNCHANGED sightVars
  BY <1>1
<1>2. CASE Commit \/ Launch \/ \E k \in Keys : \E v \in Values(k) : UserSets(k, v)
  BY <1>2 DEF Commit, Launch, UserSets
<1>3. CASE Boot \/ Exit
  BY <1>3 DEF Boot, bluez_init, Exit
<1>4. CASE Thread /\ ~Boot /\ ~Exit
  BY <1>1, <1>4
     DEF Thread, EnabledChanged, ArmTimer, TimerChecks, DownReturns, UpReturns,
         FtpEnabledChanged, FtpChecks, PushEnabledChanged, PushChecks, Dispatch,
         Cleanup
<1>5. CASE InHttp \/ TimerFires \/ Signal \/ DisplayLost \/ ObexServiceLost
  BY <1>1, <1>5 DEF InHttp, TimerFires, Signal, DisplayLost, ObexServiceLost
<1>6. CASE \E p \in Pids : ServerWorks(p) \/ ServerCrashes(p)
  BY <1>1, <1>6 DEF ServerWorks, ServerCrashes
<1>7. CASE AdapterChanged
  BY <1>7 DEF AdapterChanged
<1>8. ASSUME NEW v \in BOOLEAN, AdapterSwitched(v)
      PROVE  AdapterKnown'
  BY <1>8 DEF AdapterSwitched
<1>9. ASSUME NEW v \in BOOLEAN, SessionChanged(v)
      PROVE  AdapterKnown'
  <2>1. UNCHANGED <<adapter, bluetoothd_enabled>>
    BY <1>9 DEF SessionChanged
  <2>2. client' = "freed" \/ UNCHANGED <<client, adapter_note>>
    BY <1>9 DEF SessionChanged, ServicesStart, ServicesShutdown
  <2> QED BY <2>1, <2>2
<1>10. CASE UNCHANGED vars
  BY <1>1, <1>10 DEF vars
<1> QED
  BY <1>2, <1>3, <1>4, <1>5, <1>6, <1>7, <1>8, <1>9, <1>10 DEF Next

LEMMA SilentKept ==
  ASSUME OBEX_ENABLED \/ BothSilent,
         UNCHANGED <<bluetoothd_enabled, has_console, obexftp, obexpush>>
  PROVE  (OBEX_ENABLED \/ BothSilent)'
BY DEF OBEX_ENABLED, BothSilent, Silent

LEMMA ActiveStep ==
  ASSUME CallsSucceed, OnlySwitchesWritten,
         TypeInv, DaemonInv, ObexInv, ActiveInv, [Next]_vars
  PROVE  (OBEX_ENABLED \/ BothSilent)'
<1> USE DEF ActiveInv
<1>1. CASE UNCHANGED btVars
  BY <1>1, SilentKept DEF btVars, sightVars
<1>2. CASE Commit \/ Launch \/ \E k \in Keys : \E v \in Values(k) : UserSets(k, v)
  BY <1>1, <1>2 DEF Commit, Launch, UserSets
<1>3. CASE Boot
  <2>1. BothSilent'
    BY <1>3 DEF Boot, ObexInv, SilentOutside, BothSilent, Silent
  <2> QED BY <2>1
<1>4. CASE Exit
  BY <1>4, ExitKeepsObex
<1>5. CASE EnabledChanged \/ ArmTimer \/ TimerFires \/ TimerChecks \/ DownReturns
             \/ UpReturns \/ FtpChecks \/ PushChecks \/ Signal \/ DisplayLost
  BY <1>1, <1>5
     DEF EnabledChanged, ArmTimer, TimerFires, TimerChecks, DownReturns,
         UpReturns, FtpChecks, PushChecks, Signal, DisplayLost
<1>6. CASE InHttp \/ \E p \in Pids : ServerWorks(p) \/ ServerCrashes(p)
  BY <1>1, <1>6 DEF InHttp, ServerWorks, ServerCrashes
<1>7. CASE FtpEnabledChanged
  <2>1. /\ UNCHANGED <<bluetoothd_enabled, has_console, obexpush>>
        /\ Silent(obexftp') \/ obexftp' = obexftp \/ OBEX_ENABLED
    BY <1>7, CallsHeld DEF FtpEnabledChanged, ObexInv, sightVars
  <2> QED BY <2>1 DEF OBEX_ENABLED, BothSilent, Silent
<1>8. CASE PushEnabledChanged
  <2>1. /\ UNCHANGED <<bluetoothd_enabled, has_console, obexftp>>
        /\ Silent(obexpush') \/ obexpush' = obexpush \/ OBEX_ENABLED
    BY <1>8, CallsHeld DEF PushEnabledChanged, ObexInv, sightVars
  <2> QED BY <2>1 DEF OBEX_ENABLED, BothSilent, Silent
<1>9. CASE ObexServiceLost
  <2>1. BothSilent'
    BY <1>9, LostHeld DEF ObexServiceLost, ObexInv, BtHeld, BothSilent, Silent
  <2> QED BY <2>1
<1>10. CASE Cleanup
  <2>1. /\ UNCHANGED <<bluetoothd_enabled, has_console>> /\ Silent(obexftp')
        /\ Silent(obexpush') \/ obexpush' = obexpush
    BY <1>10, CallsHeld DEF Cleanup, ObexInv, sightVars
  <2> QED BY <2>1 DEF OBEX_ENABLED, BothSilent, Silent
<1>11. ASSUME ServicesShutdown PROVE BothSilent'
  BY <1>11, CallsHeld DEF ServicesShutdown, ObexInv, BothSilent, Silent
<1>12. CASE AdapterChanged
  <2>1. bluetoothd_enabled' = adapter /\ has_console' = has_console
    BY <1>12 DEF AdapterChanged, AdapterSeen
  <2>2. \/ adapter /\ has_console
        \/ adapter /\ ~has_console /\ UNCHANGED <<obexftp, obexpush>>
        \/ BothSilent'
    BY <1>11, <1>12 DEF AdapterChanged
  <2> QED BY <2>1, <2>2 DEF OBEX_ENABLED, BothSilent, Silent
<1>13. ASSUME NEW v \in BOOLEAN, SessionChanged(v)
       PROVE  (OBEX_ENABLED \/ BothSilent)'
  <2>1. has_console' = v /\ bluetoothd_enabled' = bluetoothd_enabled
    BY <1>13 DEF SessionChanged
  <2>2. \/ v /\ bluetoothd_enabled
        \/ v /\ ~bluetoothd_enabled /\ UNCHANGED <<obexftp, obexpush>>
        \/ BothSilent'
    BY <1>11, <1>13 DEF SessionChanged
  <2> QED BY <2>1, <2>2 DEF OBEX_ENABLED, BothSilent, Silent
<1>14. CASE Dispatch
  <2>1. Head(notes) \in Switches
    <3>1. notes \in Seq(WrittenKeys) /\ notes # <<>>
      BY <1>14 DEF Dispatch, OnlyWritten
    <3> QED BY <3>1, HeadTailProperties DEF OnlySwitchesWritten
  <2>2. UNCHANGED <<obexftp, obexpush, bluetoothd_enabled, has_console>>
    BY <1>14, <2>1 DEF Dispatch, Switches, sightVars
  <2> QED BY <2>2, SilentKept
<1>15. CASE UNCHANGED vars \/ \E v \in BOOLEAN : AdapterSwitched(v)
  BY <1>1, <1>15, SilentKept DEF vars, AdapterSwitched
<1> QED
  BY <1>2, <1>3, <1>4, <1>5, <1>6, <1>7, <1>8, <1>9, <1>10, <1>12, <1>13, <1>14,
     <1>15
     DEF Next, Thread

LEMMA ActiveInvariant ==
  ASSUME CallsSucceed, OnlySwitchesWritten
  PROVE  Spec => []ActiveInv
<1>1. Init => ActiveInv
  BY NoProxiesHeld DEF Init, ActiveInv, OnlyWritten, AdapterKnown, BothSilent
<1>2. TypeInv /\ DaemonInv /\ ObexInv /\ ActiveInv /\ [Next]_vars => ActiveInv'
  <2> SUFFICES ASSUME TypeInv, DaemonInv, ObexInv, ActiveInv, [Next]_vars
               PROVE  ActiveInv'
    OBVIOUS
  <2>1. OnlyWritten'
    BY WrittenStep, TypeInvParts DEF ActiveInv
  <2>2. AdapterKnown'
    BY KnownStep DEF ActiveInv
  <2> QED BY <2>1, <2>2, ActiveStep DEF ActiveInv
<1> QED
  BY <1>1, <1>2, ObexInvariant, TypeInvariant, DaemonInvariant, PTL DEF Spec

\* OBEX servers run only in the active session and, while there is a client to
\* tell the daemon of the adapter, only with a powered adapter, wherever the
\* adapter or the session change between the daemon's steps, as long as the
\* user changes no other key of the Bluetooth share than the switches.
THEOREM ObexIsActive ==
  ASSUME CallsSucceed, OnlySwitchesWritten
  PROVE  Spec => []ObexOnlyIfActive
<1>1. ActiveInv => ObexOnlyIfActive
  BY DEF ActiveInv, AdapterKnown, BothSilent, Silent, OBEX_ENABLED,
         ObexOnlyIfActive
<1> QED BY <1>1, ActiveInvariant, PTL
=============================================================================
