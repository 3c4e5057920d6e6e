-------------------------- MODULE UserShare_proof --------------------------
(***************************************************************************)
(* Theorems about UserShare, for both builds, every set of written keys,   *)
(* every bound and every fault of the environment.                         *)
(***************************************************************************)
EXTENDS UserShare, Httpd_proof, SequenceTheorems

-----------------------------------------------------------------------------
(* What the operators of Obex preserve, whatever calls fail: the results   *)
(* are states, and the two proxies stay together.                          *)

Paired == {o \in ObexState : ProxiesTogether(o)}

LEMMA NoProxiesPaired == NoProxies \in Paired
BY DEF NoProxies, Paired, ObexState, RemoteStates, ProxiesTogether

LEMMA ReleasedPaired ==
  ASSUME NEW o \in ObexState
  PROVE  Released(o) \in Paired
BY NoProxiesPaired DEF Released, Paired, ObexState, RemoteStates, ProxiesTogether

LEMMA ClosedPaired ==
  ASSUME NEW o \in Paired
  PROVE  Closed(o) \in Paired
BY DEF Closed, Paired, ObexState, RemoteStates, ProxiesTogether

LEMMA LostPaired ==
  ASSUME NEW o \in Paired
  PROVE  ObexLost(o) \in Paired
BY DEF ObexLost, Paired, ObexState, RemoteStates, ProxiesTogether

LEMMA FailingSubset ==
  ASSUME NEW results
  PROVE  Failing(results) \subseteq results
BY DEF Failing

\* Between CreateBluetoothServer and Start the manager proxy alone is set:
\* what matters is that Start sets or releases both.
LEMMA StartPaired ==
  ASSUME NEW o \in ObexState, o.manager, NEW writable \in BOOLEAN,
         NEW s \in StartServer(o, writable)
  PROVE  s \in Paired
<1> DEFINE t == [o EXCEPT !.server = TRUE]
           started == [t EXCEPT !.remote = "started", !.write = writable]
<1>1. t \in Paired /\ started \in Paired
  BY DEF Paired, ObexState, RemoteStates, ProxiesTogether
<1>2. Released(t) \in Paired /\ Released(started) \in Paired
  BY <1>1, ReleasedPaired DEF Paired
<1>3. s \in {t, started, Released(t), Released(started)}
  <2>1. t.remote \in RemoteStates
    BY <1>1 DEF Paired, ObexState
  <2>2. CASE t.remote = "started"
    BY <2>2, FailingSubset DEF StartServer
  <2>3. CASE t.remote = "stopped"
    BY <2>3, FailingSubset DEF StartServer
  <2>4. CASE t.remote = "none"
    BY <2>4 DEF StartServer
  <2> QED BY <2>1, <2>2, <2>3, <2>4 DEF RemoteStates
<1> QED BY <1>1, <1>2, <1>3

LEMMA CreateResult ==
  ASSUME NEW o \in Paired, NEW pairing \in BOOLEAN,
         NEW s \in CreateServer(o, pairing)
  PROVE  s \in ObexState /\ (s.manager \/ s \in Paired)
<1> DEFINE m == [o EXCEPT !.manager = TRUE]
           c == [m EXCEPT !.remote = "stopped", !.pairing = pairing]
<1>1. s \in {o, m, c}
  BY FailingSubset DEF CreateServer
<1>2. m \in ObexState /\ c \in ObexState /\ m.manager /\ c.manager
  BY DEF Paired, ObexState, RemoteStates
<1> QED BY <1>1, <1>2 DEF Paired

LEMMA UpPaired ==
  ASSUME NEW o \in Paired, NEW writable \in BOOLEAN, NEW pairing \in BOOLEAN,
         NEW s \in ObexUp(o, writable, pairing)
  PROVE  s \in Paired
<1>1. PICK c \in CreateServer(o, pairing) :
        s \in IF c.manager THEN StartServer(c, writable) ELSE {c}
  BY DEF ObexUp
<1>2. c \in ObexState /\ (c.manager \/ c \in Paired)
  BY CreateResult
<1>3. CASE c.manager
  BY <1>1, <1>2, <1>3, StartPaired
<1>4. CASE ~c.manager
  BY <1>1, <1>2, <1>4
<1> QED BY <1>3, <1>4

LEMMA StopPaired ==
  ASSUME NEW o \in Paired, NEW stop_manager \in BOOLEAN,
         NEW s \in ObexStop(o, stop_manager)
  PROVE  s \in Paired
<1>1. Closed(o) \in Paired /\ Released(Closed(o)) \in Paired
  BY ClosedPaired, ReleasedPaired DEF Paired
<1>2. s \in {o, Closed(o), Released(Closed(o))}
  BY FailingSubset DEF ObexStop
<1> QED BY <1>1, <1>2

LEMMA DownPaired ==
  ASSUME NEW o \in Paired, NEW s \in ObexDown(o)
  PROVE  s \in Paired
BY StopPaired DEF ObexDown

LEMMA RestartPaired ==
  ASSUME NEW o \in Paired, NEW writable \in BOOLEAN, NEW pairing \in BOOLEAN,
         NEW s \in ObexRestart(o, writable, pairing)
  PROVE  s \in Paired
<1>1. PICK t \in ObexStop(o, FALSE) : s \in ObexUp(t, writable, pairing)
  BY DEF ObexRestart
<1> QED BY <1>1, StopPaired, UpPaired

-----------------------------------------------------------------------------
(* Type correctness, and the proxies that stay together *)

TypeInv ==
  UserShareTypeOK /\ obexftp \in Paired /\ obexpush \in Paired

LEMMA SettingsAreTyped ==
  ASSUME SettingsTypeOK
  PROVE  /\ db["require_password"] \in Modes
         /\ \A k \in Flags : db[k] \in BOOLEAN
BY DEF SettingsTypeOK, Keys, Flags, Switches, Values

\* A call of http.c, a return to the main loop or a new process keeps the
\* variables of http.c typed.
LEMMA CallTyped ==
  ASSUME HttpdTypeOK, UNCHANGED procVars,
         HttpDown \/ HttpUp \/ NewProcess \/ UNCHANGED callVars
  PROVE  HttpdTypeOK'
<1> USE DEF HttpdTypeOK, callVars, procVars, Calls
<1>1. CASE HttpDown
  BY <1>1 DEF HttpDown
<1>2. CASE HttpUp
  BY <1>2 DEF HttpUp
<1>3. CASE NewProcess
  BY <1>3, HttpdAssumption, DefaultModeIsMode
     DEF HttpdAssumption, NewProcess, NoArgs
<1>4. CASE UNCHANGED callVars
  BY <1>4
<1> QED BY <1>1, <1>2, <1>3, <1>4

LEMMA ReturnTyped ==
  ASSUME DaemonTypeOK, NEW next \in PcNames, Return(next)
  PROVE  pc' \in PcNames /\ handler' \in Handlers
BY DEF Return, DaemonTypeOK, PcNames, Handlers

\* The OBEX calls of the handlers, with the settings they read.
LEMMA HandlerCalls ==
  ASSUME TypeInv
  PROVE  /\ \A s \in ObexDown(obexftp) : s \in Paired
         /\ \A s \in ObexDown(obexpush) : s \in Paired
         /\ \A s \in FtpUp(obexftp) : s \in Paired
         /\ \A s \in FtpRestart(obexftp) : s \in Paired
         /\ \A s \in PairingReset(obexftp) : s \in Paired
         /\ \A s \in PushUp(obexpush) : s \in Paired
<1>1. obexftp \in Paired /\ obexpush \in Paired
  BY DEF TypeInv
<1>2. db["allow_write"] \in BOOLEAN /\ db["require_pairing"] \in BOOLEAN
  BY SettingsAreTyped DEF TypeInv, UserShareTypeOK, Flags
<1>3. \A o \in Paired : \A s \in FtpUp(o) : s \in Paired
  BY <1>2, UpPaired DEF FtpUp
<1>4. \A s \in ObexDown(obexftp) : s \in Paired
  BY <1>1, DownPaired
<1>5. \A s \in ObexDown(obexpush) : s \in Paired
  BY <1>1, DownPaired
<1>6. \A s \in FtpRestart(obexftp) : s \in Paired
  BY <1>1, <1>2, RestartPaired DEF FtpRestart
<1>7. \A s \in PairingReset(obexftp) : s \in Paired
  BY <1>3, <1>4 DEF PairingReset
<1>8. \A s \in PushUp(obexpush) : s \in Paired
  BY <1>1, UpPaired DEF PushUp
<1> QED BY <1>1, <1>3, <1>4, <1>5, <1>6, <1>7, <1>8

\* What the last conjuncts of most actions say.
LEMMA SettingsKept ==
  ASSUME SettingsTypeOK, UNCHANGED settingsVars
  PROVE  SettingsTypeOK'
BY DEF SettingsTypeOK, settingsVars

BtInv == BluetoothTypeOK /\ obexftp \in Paired /\ obexpush \in Paired

LEMMA BluetoothKept ==
  ASSUME BtInv, UNCHANGED btVars
  PROVE  BtInv'
BY DEF BtInv, BluetoothTypeOK, btVars, sightVars

LEMMA PairedAreStates == Paired \subseteq ObexState
BY DEF Paired

LEMMA TypeInvParts ==
  /\ TypeInv <=> HttpdTypeOK /\ DaemonTypeOK /\ SettingsTypeOK /\ BtInv
  /\ TypeInv' <=> HttpdTypeOK' /\ DaemonTypeOK' /\ SettingsTypeOK' /\ BtInv'
BY DEF TypeInv, UserShareTypeOK, BtInv

LEMMA UserTyped ==
  ASSUME TypeInv,
         Commit \/ Launch \/ \E k \in Keys : \E v \in Values(k) : UserSets(k, v)
  PROVE  TypeInv'
<1> USE TypeInvParts, UserShareAssumption DEF UserShareAssumption
<1>1. CASE Commit
  <2>0. PICK k \in Keys : \E v \in Values(k) : write = <<k, v>>
    BY <1>1 DEF Commit, SettingsTypeOK
  <2>1. PICK v \in Values(k) : write = <<k, v>>
    BY <2>0
  <2>2. db' = [db EXCEPT ![k] = v] /\ notes' \in {notes, Append(notes, k)}
    BY <1>1, <2>1 DEF Commit
  <2>3. v \in BOOLEAN \cup Modes
    BY DEF Values
  <2>4. SettingsTypeOK'
    BY <1>1, <2>2, <2>3 DEF Commit, SettingsTypeOK, NoWrite
  <2> QED
    BY <1>1, <2>4, CallTyped, BluetoothKept
       DEF Commit, httpdVars, daemonVars, DaemonTypeOK, callVars, procVars
<1>2. CASE Launch
  <2>1. SettingsTypeOK'
    BY <1>2 DEF Launch, SettingsTypeOK
  <2>2. DaemonTypeOK'
    BY <1>2 DEF Launch, DaemonTypeOK, PcNames
  <2> QED
    BY <1>2, <2>1, <2>2, CallTyped, BluetoothKept
       DEF Launch, httpdVars, callVars, procVars
<1>3. ASSUME NEW k \in Keys, NEW v \in Values(k), UserSets(k, v)
      PROVE  TypeInv'
  <2>1. SettingsTypeOK'
    BY <1>3 DEF UserSets, SettingsTypeOK
  <2> QED
    BY <1>3, <2>1, CallTyped, BluetoothKept
       DEF UserSets, httpdVars, daemonVars, DaemonTypeOK, callVars, procVars
<1> QED BY <1>1, <1>2, <1>3

LEMMA MainTyped ==
  ASSUME TypeInv, Boot \/ Exit
  PROVE  TypeInv'
<1> USE TypeInvParts
<1>1. CASE Boot
  <2>1. DaemonTypeOK'
    BY <1>1 DEF Boot, bluez_init, session_init, DaemonTypeOK, PcNames, Handlers
  <2>2. BtInv'
    BY <1>1 DEF Boot, bluez_init, AdapterSeen, session_init, BtInv, BluetoothTypeOK
  <2> QED
    BY <1>1, <2>1, <2>2, CallTyped, SettingsKept
       DEF Boot, bluez_init, session_init, httpdVars, callVars, procVars
<1>2. CASE Exit
  <2>1. DaemonTypeOK'
    BY <1>2 DEF Exit, DaemonTypeOK, PcNames, Handlers
  <2>2. BtInv'
    BY <1>2, NoProxiesPaired, PairedAreStates DEF Exit, BtInv, BluetoothTypeOK
  <2>3. SettingsTypeOK'
    BY <1>2, UserShareAssumption DEF Exit, SettingsTypeOK, UserShareAssumption
  <2> QED BY <1>2, <2>1, <2>2, <2>3, CallTyped DEF Exit
<1> QED BY <1>1, <1>2

LEMMA WebDavTyped ==
  ASSUME TypeInv,
         EnabledChanged \/ ArmTimer \/ TimerFires \/ TimerChecks
           \/ DownReturns \/ UpReturns \/ Signal \/ DisplayLost
  PROVE  TypeInv'
<1> USE TypeInvParts, CallTyped, BluetoothKept, SettingsKept
    DEF httpdVars, callVars, procVars
<1>1. CASE EnabledChanged
  BY <1>1 DEF EnabledChanged, Enter, Return, TimerRemoved, DaemonTypeOK, PcNames, Handlers
<1>2. CASE ArmTimer
  BY <1>2 DEF ArmTimer, Return, DaemonTypeOK, PcNames, Handlers
<1>3. CASE TimerFires
  BY <1>3 DEF TimerFires, Enter, DaemonTypeOK, PcNames, Handlers
<1>4. CASE TimerChecks
  BY <1>4 DEF TimerChecks, Enter, DaemonTypeOK, PcNames, Handlers
<1>5. CASE DownReturns
  BY <1>5 DEF DownReturns, Enter, DaemonTypeOK, PcNames, Handlers
<1>6. CASE UpReturns
  BY <1>6 DEF UpReturns, Return, DaemonTypeOK, PcNames, Handlers
<1>7. CASE Signal
  BY <1>7 DEF Signal, Enter, DaemonTypeOK, PcNames, Handlers
<1>8. CASE DisplayLost
  BY <1>8 DEF DisplayLost, Enter, DaemonTypeOK, PcNames, Handlers
<1> QED BY <1>1, <1>2, <1>3, <1>4, <1>5, <1>6, <1>7, <1>8

LEMMA BluetoothTyped ==
  ASSUME TypeInv,
         FtpEnabledChanged \/ FtpChecks \/ PushEnabledChanged \/ PushChecks
           \/ ObexServiceLost \/ Cleanup
           \/ AdapterChanged
           \/ \E v \in BOOLEAN : AdapterSwitched(v) \/ SessionChanged(v)
  PROVE  TypeInv'
<1> USE TypeInvParts, CallTyped, SettingsKept
    DEF httpdVars, callVars, procVars, sightVars
<1>a. obexftp \in Paired /\ obexpush \in Paired
  BY DEF TypeInv
<1>b. ASSUME obexftp' \in Paired, obexpush' \in Paired,
             adapter' \in BOOLEAN, adapter_note' \in BOOLEAN,
             bluetoothd_enabled' \in BOOLEAN, has_console' \in BOOLEAN,
             client' \in {"none", "live", "freed"}
      PROVE  BtInv'
  BY <1>b, PairedAreStates DEF BtInv, BluetoothTypeOK
<1>c. /\ adapter \in BOOLEAN /\ adapter_note \in BOOLEAN
      /\ bluetoothd_enabled \in BOOLEAN /\ has_console \in BOOLEAN
      /\ client \in {"none", "live", "freed"}
  BY DEF BtInv, BluetoothTypeOK
<1>d. ASSUME ServicesStart \/ ServicesShutdown
                \/ UNCHANGED <<obexftp, obexpush, client, pc>>
      PROVE  /\ obexftp' \in Paired /\ obexpush' \in Paired
             /\ client' \in {"none", "live", "freed"} /\ pc' \in {pc, "exit"}
  BY <1>a, <1>c, <1>d, HandlerCalls DEF ServicesStart, ServicesShutdown
<1>1. CASE FtpEnabledChanged
  <2>1. obexftp' \in Paired
    BY <1>1, <1>a, HandlerCalls DEF FtpEnabledChanged
  <2>2. BtInv'
    BY <1>1, <1>a, <1>b, <1>c, <2>1 DEF FtpEnabledChanged
  <2> QED
    BY <1>1, <2>2 DEF FtpEnabledChanged, Enter, Return, DaemonTypeOK, PcNames, Handlers
<1>2. CASE PushEnabledChanged
  <2>1. obexpush' \in Paired
    BY <1>2, <1>a, HandlerCalls DEF PushEnabledChanged
  <2>2. BtInv'
    BY <1>2, <1>a, <1>b, <1>c, <2>1 DEF PushEnabledChanged
  <2> QED
    BY <1>2, <2>2 DEF PushEnabledChanged, Enter, DaemonTypeOK, PcNames, Handlers
<1>3. CASE FtpChecks
  BY <1>3, BluetoothKept
     DEF FtpChecks, Enter, Return, DaemonTypeOK, PcNames, Handlers
<1>4. CASE PushChecks
  BY <1>4, BluetoothKept DEF PushChecks, Enter, DaemonTypeOK, PcNames, Handlers
<1>5. CASE ObexServiceLost
  <2>1. BtInv'
    BY <1>5, <1>a, <1>b, <1>c, LostPaired DEF ObexServiceLost
  <2> QED BY <1>5, <2>1 DEF ObexServiceLost, daemonVars, DaemonTypeOK
<1>6. CASE Cleanup
  <2>1. obexftp' \in Paired /\ obexpush' \in Paired
    BY <1>6, <1>a, HandlerCalls DEF Cleanup
  <2>2. BtInv'
    BY <1>6, <1>b, <1>c, <2>1 DEF Cleanup
  <2> QED BY <1>6, <2>2 DEF Cleanup, Enter, DaemonTypeOK, PcNames, Handlers
<1>7. CASE AdapterChanged
  <2>1. /\ obexftp' \in Paired /\ obexpush' \in Paired
        /\ client' \in {"none", "live", "freed"} /\ pc' \in {pc, "exit"}
    BY <1>7, <1>d DEF AdapterChanged
  <2>2. BtInv'
    BY <1>7, <1>b, <1>c, <2>1 DEF AdapterChanged, AdapterSeen
  <2> QED BY <1>7, <2>1, <2>2 DEF AdapterChanged, DaemonTypeOK, PcNames
<1>8. ASSUME NEW v \in BOOLEAN, SessionChanged(v)
      PROVE  TypeInv'
  <2>1. /\ obexftp' \in Paired /\ obexpush' \in Paired
        /\ client' \in {"none", "live", "freed"} /\ pc' \in {pc, "exit"}
    BY <1>8, <1>d DEF SessionChanged
  <2>2. BtInv'
    BY <1>8, <1>b, <1>c, <2>1 DEF SessionChanged, ServicesStart
  <2> QED BY <1>8, <2>1, <2>2 DEF SessionChanged, DaemonTypeOK, PcNames
<1>9. ASSUME NEW v \in BOOLEAN, AdapterSwitched(v)
      PROVE  TypeInv'
  <2>1. BtInv'
    BY <1>9, <1>a, <1>b, <1>c DEF AdapterSwitched
  <2> QED BY <1>9, <2>1 DEF AdapterSwitched, daemonVars, DaemonTypeOK
<1> QED BY <1>1, <1>2, <1>3, <1>4, <1>5, <1>6, <1>7, <1>8, <1>9

LEMMA DispatchTyped ==
  ASSUME TypeInv, Dispatch
  PROVE  TypeInv'
<1> USE TypeInvParts
<1>1. SettingsTypeOK'
  <2>1. /\ notes \in Seq(Keys) /\ notes # <<>> /\ Len(notes) <= MaxNotes
        /\ MaxNotes \in Nat
        /\ notes' = Tail(notes)
    BY UserShareAssumption DEF UserShareAssumption, Dispatch, SettingsTypeOK
  <2>2. notes' \in Seq(Keys) /\ Len(notes') = Len(notes) - 1
    BY <2>1, HeadTailProperties
  <2>3. Len(notes') <= MaxNotes
    BY <2>1, <2>2, LenProperties
  <2>4. UNCHANGED <<db, write, launched>>
    BY DEF Dispatch
  <2> QED BY <2>2, <2>3, <2>4 DEF SettingsTypeOK
<1>2. obexftp \in Paired /\ obexpush \in Paired
  BY DEF TypeInv
<1>3. \/ HttpDown \/ UNCHANGED callVars
  BY DEF Dispatch, PasswordChanged, AllowWriteChanged, RequirePairingChanged
<1>4. UNCHANGED procVars
  BY DEF Dispatch
<1>5. HttpdTypeOK'
  BY <1>3, <1>4, CallTyped
<1>6. DaemonTypeOK'
  BY DEF Dispatch, PasswordChanged, AllowWriteChanged, RequirePairingChanged,
         Enter, DaemonTypeOK, PcNames, Handlers
<1>7. obexftp' \in Paired /\ obexpush' \in Paired
  <2>1. CASE AllowWriteChanged
    BY <1>2, <2>1, HandlerCalls DEF AllowWriteChanged
  <2>2. CASE RequirePairingChanged
    BY <1>2, <2>2, HandlerCalls DEF RequirePairingChanged
  <2>3. CASE UNCHANGED <<obexftp, obexpush>>
    BY <1>2, <2>3
  <2> QED BY <2>1, <2>2, <2>3 DEF Dispatch
<1>8. BtInv'
  BY <1>7, PairedAreStates DEF Dispatch, sightVars, BtInv, BluetoothTypeOK
<1> QED BY <1>1, <1>5, <1>6, <1>8

LEMMA HttpTyped ==
  ASSUME TypeInv,
         InHttp \/ \E p \in Pids : ServerWorks(p) \/ ServerCrashes(p)
  PROVE  TypeInv'
<1>1. db["require_password"] \in Modes
  BY SettingsAreTyped, TypeInvParts
<1>2. HttpdNext
  BY <1>1 DEF InHttp, ServerWorks, ServerCrashes, HttpdNext
<1>3. UNCHANGED <<daemonVars, settingsVars, btVars>>
  BY DEF InHttp, ServerWorks, ServerCrashes
<1> QED
  BY <1>2, <1>3, TypeStep, TypeInvParts, SettingsKept, BluetoothKept
     DEF daemonVars, DaemonTypeOK

LEMMA TypeInvInit == Init => TypeInv
<1> SUFFICES ASSUME Init PROVE TypeInv
  OBVIOUS
<1>1. HttpdTypeOK
  BY HttpdAssumption, DefaultModeIsMode
     DEF Init, HttpdAssumption, HttpdInit, HttpdTypeOK, Calls, ProcStates,
         NoProcess, NoArgs
<1>2. DaemonTypeOK
  BY DEF Init, DaemonTypeOK, PcNames, Handlers
<1>3. SettingsTypeOK
  BY UserShareAssumption DEF Init, SettingsTypeOK, UserShareAssumption
<1>4. BtInv
  BY NoProxiesPaired, PairedAreStates DEF Init, BtInv, BluetoothTypeOK
<1> QED BY <1>1, <1>2, <1>3, <1>4, TypeInvParts

LEMMA TypeInvStep ==
  ASSUME TypeInv, [Next]_vars
  PROVE  TypeInv'
<1>1. CASE Thread
  BY <1>1, MainTyped, WebDavTyped, BluetoothTyped, DispatchTyped DEF Thread
<1>2. CASE UNCHANGED vars
  <2>1. UNCHANGED <<callVars, procVars, pc, handler, timer, settingsVars, btVars>>
    BY <1>2 DEF vars, httpdVars, callVars, procVars, daemonVars
  <2> QED
    BY <2>1, CallTyped, SettingsKept, BluetoothKept, TypeInvParts DEF DaemonTypeOK
<1> QED
  BY <1>1, <1>2, UserTyped, WebDavTyped, BluetoothTyped, HttpTyped DEF Next

LEMMA TypeInvariant == Spec => []TypeInv
BY TypeInvInit, TypeInvStep, PTL DEF Spec

\* Type correctness of the whole system.
THEOREM UserShareTypeCorrect == Spec => []UserShareTypeOK
<1>1. TypeInv => UserShareTypeOK
  BY DEF TypeInv
<1> QED BY <1>1, TypeInvariant, PTL

\* The two proxies of obexftp.c and of obexpush.c are NULL together, whatever
\* D-Bus call fails and whenever org.openobex loses its servers.
THEOREM ProxiesStayPaired == Spec => []ProxiesPaired
<1>1. TypeInv => ProxiesPaired
  BY DEF TypeInv, ProxiesPaired, Paired
<1> QED BY <1>1, TypeInvariant, PTL
=============================================================================
