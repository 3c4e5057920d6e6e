-------------------------- MODULE Settings_proof --------------------------
(***************************************************************************)
(* What the handlers of user_share.c and the queue of notifications do     *)
(* together, for both builds, every bound and every fault: the exit timer  *)
(* never runs against a share that was switched on again, and no server is *)
(* kept that was switched off, once the daemon has dealt with the change.  *)
(***************************************************************************)
EXTENDS UserShare_proof

-----------------------------------------------------------------------------
(* The inductive invariant *)

\* A value of the switch is in the database, or the daemon is yet to be told.
ToldOn == db["enabled"] => Pending("enabled")
ToldOff == ~db["enabled"] => Pending("enabled")

\* http.c is only entered by a handler that waits for it.
CallPlaced ==
  /\ pc = "down" => call \in {"none", "kill", "sleep"}
  /\ pc = "up" => call \in {"none", "up", "spawn", "wait", "poll"}
  /\ pc \notin {"down", "up"} => call = "none"

\* After http_down, and until the timer is armed, there is no server, and
\* the handler of the key is the last to have read it.
Downed ==
  /\ pc = "arm" \/ (pc = "down" /\ call = "none") => httpd_pid = 0
  /\ pc = "arm" \/ (pc = "down" /\ handler \in {"main", "note"}) => ToldOn

\* From a signal on there is no way back to the main loop.
SignalLasts == handler = "signal" => pc \in {"down", "cleanup", "exit"}

TimerHarmless ==
  timer = "armed" =>
    /\ httpd_pid = 0
    /\ pc \notin {"off", "boot", "up"}
    /\ ~(pc = "down" /\ handler = "password")
    /\ ToldOn \/ pc = "enabled" \/ handler = "signal"

\* A server that is there, or on its way, is wanted, unless the daemon is
\* about to stop it or has yet to be told.
ServerWanted ==
  /\ pc \in {"off", "boot"} => httpd_pid = 0
  /\ pc = "enabled" => handler \in {"main", "note"}
  /\ httpd_pid # 0 \/ pc = "up" \/ (pc = "down" /\ handler = "password") =>
       ToldOff \/ pc = "enabled" \/ (pc = "down" /\ handler # "password")

DaemonInv ==
  CallPlaced /\ Downed /\ SignalLasts /\ TimerHarmless /\ ServerWanted

-----------------------------------------------------------------------------
(* What the daemon has been told *)

LEMMA ToldKept ==
  ASSUME UNCHANGED <<db, notes>>
  PROVE  ToldOn' = ToldOn /\ ToldOff' = ToldOff
BY DEF ToldOn, ToldOff, Pending

\* A write that reaches a running daemon is notified, at the end of the queue.
LEMMA PendingOfCommit ==
  ASSUME SettingsTypeOK, Commit, Running, NEW key \in Keys
  PROVE  /\ Pending(key) => Pending(key)'
         /\ db'[key] = db[key] \/ Pending(key)'
<1>1. PICK k \in Keys : \E v \in Values(k) : write = <<k, v>>
  BY DEF Commit, SettingsTypeOK
<1>2. PICK v \in Values(k) : write = <<k, v>>
  BY <1>1
<1>3. db' = [db EXCEPT ![k] = v] /\ notes' = Append(notes, k)
  BY <1>2 DEF Commit
<1>4. /\ notes \in Seq(Keys)
      /\ Len(notes') = Len(notes) + 1
      /\ \A i \in 1 .. Len(notes) : notes'[i] = notes[i]
      /\ notes'[Len(notes) + 1] = k
      /\ DOMAIN notes = 1 .. Len(notes) /\ DOMAIN notes' = 1 .. Len(notes')
      /\ Len(notes) \in Nat
  <2>1. notes \in Seq(Keys)
    BY DEF SettingsTypeOK
  <2>2. notes' \in Seq(Keys)
    BY <1>3, <2>1, AppendProperties
  <2> QED BY <1>3, <2>1, <2>2, AppendProperties, LenProperties
<1>5. Pending(key) => Pending(key)'
  BY <1>4 DEF Pending
<1>6. CASE k = key
  BY <1>4, <1>5, <1>6 DEF Pending
<1>7. CASE k # key
  BY <1>3, <1>5, <1>7 DEF SettingsTypeOK
<1> QED BY <1>6, <1>7

\* A notification of another key leaves that of this key in the queue.
LEMMA PendingOfDispatch ==
  ASSUME SettingsTypeOK, Dispatch, NEW key, Head(notes) # key, Pending(key)
  PROVE  Pending(key)'
<1>1. /\ notes \in Seq(Keys) /\ notes # <<>>
      /\ notes' = Tail(notes)
  BY DEF Dispatch, SettingsTypeOK
<1>2. /\ notes' \in Seq(Keys)
      /\ Len(notes') = Len(notes) - 1
      /\ \A i \in 1 .. Len(notes') : notes'[i] = notes[i + 1]
      /\ Head(notes) = notes[1]
  BY <1>1, HeadTailProperties
<1>3. /\ DOMAIN notes = 1 .. Len(notes) /\ DOMAIN notes' = 1 .. Len(notes')
      /\ Len(notes) \in Nat
  BY <1>1, <1>2, LenProperties
<1>4. ASSUME NEW i \in DOMAIN notes, notes[i] = key
      PROVE  Pending(key)'
  <2>1. i # 1 /\ i - 1 \in DOMAIN notes' /\ notes'[i - 1] = notes[i]
    BY <1>2, <1>3, <1>4
  <2> QED BY <1>4, <2>1 DEF Pending
<1> QED BY <1>4 DEF Pending

LEMMA ToldOfCommit ==
  ASSUME SettingsTypeOK, Commit, Running
  PROVE  (ToldOn => ToldOn') /\ (ToldOff => ToldOff')
<1>1. "enabled" \in Keys
  BY DEF Keys, Flags, Switches
<1> QED BY <1>1, PendingOfCommit DEF ToldOn, ToldOff

LEMMA ToldOfDispatch ==
  ASSUME SettingsTypeOK, Dispatch, Head(notes) # "enabled"
  PROVE  (ToldOn => ToldOn') /\ (ToldOff => ToldOff')
<1>1. db' = db
  BY DEF Dispatch
<1> QED BY <1>1, PendingOfDispatch DEF ToldOn, ToldOff

-----------------------------------------------------------------------------
(* The steps *)

LEMMA UserKeepsInv ==
  ASSUME SettingsTypeOK, DaemonInv,
         Commit \/ Launch \/ \E k \in Keys : \E v \in Values(k) : UserSets(k, v)
  PROVE  DaemonInv'
<1> USE DEF DaemonInv, CallPlaced, Downed, SignalLasts, TimerHarmless, ServerWanted,
            httpdVars, callVars, daemonVars
<1>1. CASE Commit
  <2>1. Running => (ToldOn => ToldOn') /\ (ToldOff => ToldOff')
    BY <1>1, ToldOfCommit
  <2>2. /\ pc = "arm" \/ pc = "down" \/ timer = "armed" => Running
        /\ httpd_pid # 0 \/ pc = "up" => Running
    BY DEF Running
  <2>3. UNCHANGED <<httpdVars, daemonVars>>
    BY <1>1 DEF Commit
  <2> QED BY <2>1, <2>2, <2>3
<1>2. CASE Launch
  BY <1>2, ToldKept DEF Launch
<1>3. ASSUME NEW k \in Keys, NEW v \in Values(k), UserSets(k, v)
      PROVE  DaemonInv'
  BY <1>3, ToldKept DEF UserSets
<1> QED BY <1>1, <1>2, <1>3

LEMMA HandlersKeepInv ==
  ASSUME TypeInv, DaemonInv,
         EnabledChanged \/ ArmTimer \/ TimerFires \/ TimerChecks
           \/ DownReturns \/ UpReturns \/ Signal \/ DisplayLost
           \/ Boot \/ Exit
  PROVE  DaemonInv'
<1> USE DEF DaemonInv, CallPlaced, Downed, SignalLasts, TimerHarmless, ServerWanted,
            httpdVars, callVars, settingsVars, Enter, Return, HttpDown, HttpUp
<1>1. CASE EnabledChanged
  <2>1. /\ ~db["enabled"] => ToldOn'
        /\ db["enabled"] => ToldOff'
    BY <1>1 DEF EnabledChanged, ToldOn, ToldOff
  <2>2. timer' = "none"
    BY <1>1 DEF EnabledChanged, TimerRemoved
  <2> QED BY <1>1, <2>1, <2>2 DEF EnabledChanged, TurnedOff, NoServer
<1>2. CASE ArmTimer
  BY <1>2, ToldKept DEF ArmTimer
<1>3. CASE TimerFires
  BY <1>3, ToldKept DEF TimerFires
<1>4. CASE TimerChecks
  BY <1>4, ToldKept DEF TimerChecks
<1>5. CASE DownReturns
  BY <1>5, ToldKept DEF DownReturns
<1>6. CASE UpReturns
  BY <1>6, ToldKept DEF UpReturns
<1>7. CASE Signal
  BY <1>7, ToldKept DEF Signal
<1>8. CASE DisplayLost
  BY <1>8, ToldKept DEF DisplayLost
<1>9. CASE Boot
  BY <1>9, ToldKept DEF Boot
<1>10. CASE Exit
  BY <1>10 DEF Exit, NewProcess
<1> QED BY <1>1, <1>2, <1>3, <1>4, <1>5, <1>6, <1>7, <1>8, <1>9, <1>10

LEMMA BluetoothKeepsInv ==
  ASSUME TypeInv, DaemonInv,
         FtpEnabledChanged \/ FtpChecks \/ PushEnabledChanged \/ PushChecks
           \/ ObexServiceLost \/ Cleanup
           \/ AdapterChanged
           \/ \E v \in BOOLEAN : AdapterSwitched(v) \/ SessionChanged(v)
  PROVE  DaemonInv'
<1> USE ToldKept
    DEF DaemonInv, CallPlaced, Downed, SignalLasts, TimerHarmless, ServerWanted,
        httpdVars, callVars, daemonVars, settingsVars, Enter, Return
<1>1. CASE FtpEnabledChanged
  BY <1>1 DEF FtpEnabledChanged
<1>2. CASE FtpChecks
  BY <1>2 DEF FtpChecks
<1>3. CASE PushEnabledChanged
  BY <1>3 DEF PushEnabledChanged
<1>4. CASE PushChecks
  BY <1>4 DEF PushChecks
<1>5. CASE ObexServiceLost
  BY <1>5 DEF ObexServiceLost
<1>6. CASE Cleanup
  BY <1>6 DEF Cleanup
<1>7. CASE AdapterChanged
  <2>1. pc = "idle" /\ pc' \in {"idle", "exit"}
    BY <1>7 DEF AdapterChanged, ServicesStart, ServicesShutdown
  <2> QED BY <1>7, <2>1 DEF AdapterChanged
<1>8. ASSUME NEW v \in BOOLEAN, SessionChanged(v)
      PROVE  DaemonInv'
  <2>1. pc = "idle" /\ pc' \in {"idle", "exit"}
    BY <1>8 DEF SessionChanged, ServicesStart, ServicesShutdown
  <2> QED BY <1>8, <2>1 DEF SessionChanged
<1>9. CASE \E v \in BOOLEAN : AdapterSwitched(v)
  BY <1>9 DEF AdapterSwitched
<1> QED BY <1>1, <1>2, <1>3, <1>4, <1>5, <1>6, <1>7, <1>8, <1>9

LEMMA DispatchKeepsInv ==
  ASSUME SettingsTypeOK, DaemonInv, Dispatch
  PROVE  DaemonInv'
<1> USE DEF DaemonInv, CallPlaced, Downed, SignalLasts, TimerHarmless, ServerWanted, callVars,
            Enter
<1>1. pc = "idle" /\ UNCHANGED timer /\ httpd_pid' = httpd_pid
  BY DEF Dispatch, PasswordChanged, AllowWriteChanged, RequirePairingChanged,
         HttpDown
<1>2. CASE Head(notes) = "enabled"
  BY <1>1, <1>2 DEF Dispatch, Switches, Flags
<1>3. CASE Head(notes) # "enabled"
  <2>1. (ToldOn => ToldOn') /\ (ToldOff => ToldOff')
    BY <1>3, ToldOfDispatch
  <2>2. \/ /\ Head(notes) \in {"ftp", "push"}
           /\ pc' = Head(notes) /\ handler' = "note" /\ UNCHANGED callVars
        \/ PasswordChanged
        \/ UNCHANGED <<pc, handler, callVars>>
    BY <1>3 DEF Dispatch, AllowWriteChanged, RequirePairingChanged
  <2>3. CASE PasswordChanged
    BY <1>1, <2>1, <2>3 DEF PasswordChanged, NeedsRestart, HttpDown
  <2> QED BY <1>1, <2>1, <2>2, <2>3
<1> QED BY <1>2, <1>3

LEMMA HttpKeepsInv ==
  ASSUME DaemonInv,
         InHttp \/ \E p \in Pids : ServerWorks(p) \/ ServerCrashes(p)
  PROVE  DaemonInv'
<1> USE ToldKept
    DEF DaemonInv, CallPlaced, Downed, SignalLasts, TimerHarmless, ServerWanted,
        callVars, daemonVars, settingsVars
<1>1. CASE InHttp
  <2>1. UNCHANGED <<pc, handler, timer, db, notes>>
    BY <1>1 DEF InHttp
  <2>2. CASE KillHttpd
    BY <2>1, <2>2 DEF KillHttpd
  <2>3. CASE KillSlept
    BY <2>1, <2>3 DEF KillSlept, Forgotten
  <2>4. CASE SpawnHttpd
    BY <2>1, <2>4 DEF SpawnHttpd
  <2>5. CASE PollFound \/ WaitEnds
    BY <2>1, <2>5 DEF PollFound, WaitEnds
  <2>6. CASE PollAgain
    BY <2>1, <2>6 DEF PollAgain
  <2>7. CASE PollGivesUp
    BY <2>1, <2>7 DEF PollGivesUp
  <2>8. CASE ReadSettings(db["require_password"])
    BY <2>1, <2>8 DEF ReadSettings
  <2> QED
    BY <1>1, <2>2, <2>3, <2>4, <2>5, <2>6, <2>7, <2>8 DEF InHttp, HttpSteps
<1>2. ASSUME NEW p \in Pids, ServerWorks(p) \/ ServerCrashes(p)
      PROVE  DaemonInv'
  <2>1. UNCHANGED <<callVars, pc, handler, timer, db, notes>>
    BY <1>2 DEF ServerWorks, ServerCrashes, HttpdWorks, HttpdCreatesPidfile,
                HttpdWritesPid, HttpdExits, HttpdCrashes
  <2> QED BY <2>1
<1> QED BY <1>1, <1>2

LEMMA DaemonInvInit == Init => DaemonInv
BY DEF Init, HttpdInit, DaemonInv, CallPlaced, Downed, SignalLasts, TimerHarmless, ServerWanted

LEMMA DaemonInvStep ==
  ASSUME TypeInv, DaemonInv, [Next]_vars
  PROVE  DaemonInv'
<1>1. SettingsTypeOK
  BY TypeInvParts
<1>2. CASE Thread
  BY <1>1, <1>2, HandlersKeepInv, BluetoothKeepsInv, DispatchKeepsInv
     DEF Thread
<1>3. CASE UNCHANGED vars
  <2>1. UNCHANGED <<callVars, pc, handler, timer, db, notes>>
    BY <1>3 DEF vars, httpdVars, callVars, daemonVars, settingsVars
  <2> QED
    BY <2>1, ToldKept
       DEF DaemonInv, CallPlaced, Downed, SignalLasts, TimerHarmless, ServerWanted, callVars
<1> QED
  BY <1>1, <1>2, <1>3, UserKeepsInv, HandlersKeepInv, BluetoothKeepsInv,
     HttpKeepsInv
     DEF Next

LEMMA DaemonInvariant == Spec => []DaemonInv
BY TypeInvariant, DaemonInvInit, DaemonInvStep, PTL DEF Spec

\* The exit timer runs only while there is no server, and against a share
\* that is switched on again only until the daemon has dealt with that.
THEOREM TimerNeverHarms == Spec => []TimerOnlyWhileDown
<1>1. DaemonInv => TimerOnlyWhileDown
  BY DEF DaemonInv, TimerHarmless, TimerOnlyWhileDown, ToldOn
<1> QED BY <1>1, DaemonInvariant, PTL

\* When the daemon has dealt with every change of the switch, it keeps a
\* server only if the user wants it, whatever httpd, D-Bus and signals do.
THEOREM ServerIsWanted == Spec => []ManagedOnlyIfEnabled
<1>1. DaemonInv => ManagedOnlyIfEnabled
  BY DEF DaemonInv, ServerWanted, ManagedOnlyIfEnabled, ToldOff
<1> QED BY <1>1, DaemonInvariant, PTL
=============================================================================
