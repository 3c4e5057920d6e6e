---------------------------- MODULE Httpd_proof ----------------------------
(***************************************************************************)
(* Theorems about Httpd, for every set of process ids and modes, every     *)
(* number of polls and every descriptor limit.  Type correctness holds     *)
(* whatever the environment does.  That http.c never loses a server and    *)
(* never overlaps two needs an httpd that keeps to the times the code      *)
(* allows it, a daemon that is not killed, and a pid file that appears     *)
(* with its number in it; failing spawns and crashing servers are allowed. *)
(***************************************************************************)
EXTENDS Httpd, TLAPS

Prompt ==
  Faults \cap {"slow_start", "slow_exit", "torn_pidfile", "daemon_killed"} = {}

LEMMA DefaultModeIsMode == DefaultMode \in Modes
BY HttpdAssumption DEF HttpdAssumption, DefaultMode

\* The httpd variables only ever hold the values their uses expect.
LEMMA TypeStep ==
  ASSUME HttpdTypeOK, [HttpdNext]_httpdVars
  PROVE  HttpdTypeOK'
<1> USE HttpdAssumption, DefaultModeIsMode
    DEF HttpdAssumption, HttpdTypeOK, Calls, ProcStates, NoProcess, NoArgs,
        callVars, procVars
<1>1. CASE CallUp
  BY <1>1 DEF CallUp, HttpUp
<1>2. CASE CallDown
  BY <1>2 DEF CallDown, HttpDown
<1>3. CASE ProcessEnds
  BY <1>3 DEF ProcessEnds, NewProcess
<1>4. CASE KillHttpd
  BY <1>4 DEF KillHttpd, Sigterm, Alive
<1>5. CASE KillSlept
  BY <1>5 DEF KillSlept, Forgotten
<1>6. CASE SpawnHttpd
  BY <1>6 DEF SpawnHttpd, Unlinked, Alive
<1>7. CASE PollFound \/ WaitEnds
  BY <1>7 DEF PollFound, WaitEnds
<1>8. CASE PollAgain
  BY <1>8 DEF PollAgain, LastTry, NextTry
<1>9. CASE PollGivesUp
  BY <1>9 DEF PollGivesUp
<1>10. ASSUME NEW mode \in Modes, ReadSettings(mode)
       PROVE  HttpdTypeOK'
  <2>1. PortFound \in BOOLEAN
    BY DEF PortFound
  <2>2. args' \in [listen : BOOLEAN, mode : Modes]
    BY <1>10, <2>1 DEF ReadSettings
  <2>3. socks' \in 0 .. SockLimit
    BY <1>10 DEF ReadSettings, PortFound
  <2> QED BY <1>10, <2>2, <2>3 DEF ReadSettings
<1>11. ASSUME NEW p \in Pids, HttpdWorks(p)
       PROVE  HttpdTypeOK'
  <2>1. CASE HttpdCreatesPidfile(p)
    BY <2>1 DEF HttpdCreatesPidfile
  <2>2. CASE HttpdWritesPid(p)
    BY <2>2 DEF HttpdWritesPid
  <2>3. CASE HttpdExits(p)
    BY <2>3 DEF HttpdExits
  <2> QED BY <1>11, <2>1, <2>2, <2>3 DEF HttpdWorks
<1>12. ASSUME NEW p \in Pids, HttpdCrashes(p)
       PROVE  HttpdTypeOK'
  BY <1>12 DEF HttpdCrashes
<1>13. CASE UNCHANGED httpdVars
  BY <1>13 DEF httpdVars
<1> QED
  BY <1>1, <1>2, <1>3, <1>4, <1>5, <1>6, <1>7, <1>8, <1>9, <1>10, <1>11,
     <1>12, <1>13 DEF HttpdNext, HttpSteps

\* Type correctness of http.c and the httpd processes.
THEOREM HttpdTypeCorrect == HttpdSpec => []HttpdTypeOK
<1>1. HttpdInit => HttpdTypeOK
  BY HttpdAssumption, DefaultModeIsMode
     DEF HttpdAssumption, HttpdInit, HttpdTypeOK, Calls, ProcStates,
         NoProcess, NoArgs
<1>2. HttpdTypeOK /\ [HttpdNext]_httpdVars => HttpdTypeOK'
  BY TypeStep
<1> QED
  BY <1>1, <1>2, PTL DEF HttpdSpec

-----------------------------------------------------------------------------
(***************************************************************************)
(* At most one server, and the daemon knows it.  The two properties are    *)
(* not inductive: what is known between two calls rests on what each call  *)
(* finds at its every step.  While http_up polls there is one process at   *)
(* most, the pid file names it or is not there, and a server that is up    *)
(* has written the file.  While it waits for a server that stays in the    *)
(* foreground there is no other.                                           *)
(***************************************************************************)
OneChild ==
  \E p \in Pids :
    /\ Alive \subseteq {p}
    /\ pidfile \subseteq {p}
    /\ httpd[p].at \in {"free", "starting", "up"}
    /\ httpd[p].at = "up" => pidfile = {p}

OneInForeground ==
  \E p \in Pids : Alive \subseteq {p} /\ httpd[p].at \in {"free", "foreground"}

ServerInv ==
  /\ call \in {"none", "kill", "sleep"} => Alive \subseteq {httpd_pid}
  /\ call \in {"up", "spawn", "wait", "poll"} => httpd_pid = 0
  /\ call \in {"up", "spawn"} => Alive = {}
  /\ call = "poll" => OneChild
  /\ call = "wait" => OneInForeground

\* A step of a process starts no process.
LEMMA ProcessesOnlyEnd ==
  ASSUME HttpdTypeOK, NEW p \in Pids, HttpdWorks(p) \/ HttpdCrashes(p)
  PROVE  Alive' \subseteq Alive /\ UNCHANGED callVars
<1> USE DEF HttpdTypeOK, Alive, NoProcess
<1>1. CASE HttpdCreatesPidfile(p)
  BY <1>1 DEF HttpdCreatesPidfile
<1>2. CASE HttpdWritesPid(p)
  BY <1>2 DEF HttpdWritesPid
<1>3. CASE HttpdExits(p)
  BY <1>3 DEF HttpdExits
<1>4. CASE HttpdCrashes(p)
  BY <1>4 DEF HttpdCrashes
<1> QED BY <1>1, <1>2, <1>3, <1>4 DEF HttpdWorks

\* While http_up polls, its child comes up or dies: no other process is there.
LEMMA ChildStep ==
  ASSUME Prompt, HttpdTypeOK, OneChild,
         NEW q \in Pids, HttpdWorks(q) \/ HttpdCrashes(q)
  PROVE  OneChild'
<1>1. PICK p \in Pids :
        /\ Alive \subseteq {p}
        /\ pidfile \subseteq {p}
        /\ httpd[p].at \in {"free", "starting", "up"}
        /\ httpd[p].at = "up" => pidfile = {p}
  BY DEF OneChild
<1>2. q = p
  BY <1>1 DEF Alive, HttpdWorks, HttpdCreatesPidfile, HttpdWritesPid,
              HttpdExits, HttpdCrashes
<1>3. Alive' \subseteq {p}
  BY <1>1, ProcessesOnlyEnd
<1>4. /\ pidfile' \subseteq {p}
      /\ httpd'[p].at \in {"free", "starting", "up"}
      /\ httpd'[p].at = "up" => pidfile' = {p}
  <2>1. CASE HttpdWorks(q)
    BY <1>1, <1>2, <2>1
       DEF Prompt, HttpdTypeOK, HttpdWorks, HttpdCreatesPidfile,
           HttpdWritesPid, HttpdExits, NoProcess
  <2>2. CASE HttpdCrashes(q)
    BY <1>1, <1>2, <2>2 DEF HttpdTypeOK, HttpdCrashes, NoProcess
  <2> QED BY <2>1, <2>2
<1> QED BY <1>3, <1>4 DEF OneChild

\* A server in the foreground dies or stays as it is.
LEMMA ForegroundStep ==
  ASSUME HttpdTypeOK, OneInForeground,
         NEW q \in Pids, HttpdWorks(q) \/ HttpdCrashes(q)
  PROVE  OneInForeground'
<1>1. PICK p \in Pids : Alive \subseteq {p} /\ httpd[p].at \in {"free", "foreground"}
  BY DEF OneInForeground
<1>2. HttpdCrashes(q) /\ q = p
  BY <1>1 DEF Alive, HttpdWorks, HttpdCreatesPidfile, HttpdWritesPid,
              HttpdExits, HttpdCrashes
<1>3. Alive' \subseteq {p}
  BY <1>1, ProcessesOnlyEnd
<1>4. httpd'[p].at = "free"
  BY <1>2 DEF HttpdTypeOK, HttpdCrashes, NoProcess
<1> QED BY <1>3, <1>4 DEF OneInForeground

LEMMA ServerStep ==
  ASSUME Prompt, HttpdTypeOK, ServerInv, [HttpdNext]_httpdVars
  PROVE  ServerInv'
<1> USE HttpdAssumption
    DEF HttpdAssumption, HttpdTypeOK, ServerInv, Calls, callVars, procVars
<1>1. CASE CallUp
  BY <1>1 DEF CallUp, HttpUp, Alive
<1>2. CASE CallDown
  BY <1>2 DEF CallDown, HttpDown, Alive
<1>3. CASE ProcessEnds
  BY <1>3 DEF ProcessEnds, NewProcess, Prompt, Alive
<1>4. CASE KillHttpd
  BY <1>4 DEF KillHttpd, Sigterm, Alive
<1>5. CASE KillSlept
  BY <1>5 DEF KillSlept, Died, Forgotten, Prompt, Alive
<1>6. CASE SpawnHttpd
  <2>1. CASE call' = "none"
    BY <1>6, <2>1 DEF SpawnHttpd, Alive
  <2>2. CASE call' = "poll"
    <3>1. PICK p \in Pids \ Alive :
            httpd' = [httpd EXCEPT ![p] = [at |-> "starting", mode |-> args.mode]]
      BY <1>6, <2>2 DEF SpawnHttpd
    <3>2. Alive' \subseteq {p} /\ httpd'[p].at = "starting"
      BY <1>6, <3>1 DEF SpawnHttpd, Alive
    <3>3. pidfile' = {}
      BY <1>6 DEF SpawnHttpd, Unlinked
    <3>4. OneChild'
      BY <3>2, <3>3 DEF OneChild
    <3> QED BY <1>6, <2>2, <3>4 DEF SpawnHttpd
  <2>3. CASE call' = "wait"
    <3>1. PICK p \in Pids \ Alive :
            httpd' = [httpd EXCEPT ![p] = [at |-> "foreground", mode |-> args.mode]]
      BY <1>6, <2>3 DEF SpawnHttpd
    <3>2. Alive' \subseteq {p} /\ httpd'[p].at = "foreground"
      BY <1>6, <3>1 DEF SpawnHttpd, Alive
    <3>3. OneInForeground'
      BY <3>2 DEF OneInForeground
    <3> QED BY <1>6, <2>3, <3>3 DEF SpawnHttpd
  <2> QED BY <1>6, <2>1, <2>2, <2>3 DEF SpawnHttpd
<1>7. CASE PollFound \/ WaitEnds
  BY <1>7 DEF PollFound, WaitEnds, OneChild, OneInForeground, Alive
<1>8. CASE PollAgain
  BY <1>8 DEF PollAgain, OneChild, Alive
<1>9. CASE PollGivesUp
  <2>1. Alive = {}
    BY <1>9 DEF PollGivesUp, Prompt, OneChild, Alive
  <2> QED BY <1>9, <2>1 DEF PollGivesUp, Alive
<1>10. ASSUME NEW mode \in Modes, ReadSettings(mode)
       PROVE  ServerInv'
  BY <1>10 DEF ReadSettings, Alive
<1>11. ASSUME NEW p \in Pids, HttpdWorks(p) \/ HttpdCrashes(p)
       PROVE  ServerInv'
  <2>1. Alive' \subseteq Alive /\ UNCHANGED callVars
    BY <1>11, ProcessesOnlyEnd
  <2>2. (call = "poll" => OneChild') /\ (call = "wait" => OneInForeground')
    BY <1>11, ChildStep, ForegroundStep
  <2> QED BY <2>1, <2>2
<1>12. CASE UNCHANGED httpdVars
  BY <1>12 DEF httpdVars, OneChild, OneInForeground, Alive
<1> QED
  BY <1>1, <1>2, <1>3, <1>4, <1>5, <1>6, <1>7, <1>8, <1>9, <1>10, <1>11,
     <1>12 DEF HttpdNext, HttpSteps

LEMMA ServerInvariant ==
  ASSUME Prompt
  PROVE  HttpdSpec => [](HttpdTypeOK /\ ServerInv)
<1>1. HttpdInit => ServerInv
  BY DEF HttpdInit, ServerInv, Alive, NoProcess
<1>2. ServerInv /\ HttpdTypeOK /\ [HttpdNext]_httpdVars => ServerInv'
  BY ServerStep
<1> QED
  BY <1>1, <1>2, HttpdTypeCorrect, PTL DEF HttpdSpec

\* Between two calls the only httpd process there may be is the one
\* http_down would kill.
THEOREM NoServerIsLost ==
  ASSUME Prompt
  PROVE  HttpdSpec => []NoOrphan
<1>1. ServerInv => NoOrphan
  BY DEF ServerInv, NoOrphan
<1> QED BY <1>1, ServerInvariant, PTL

\* There are never two servers at a time.
THEOREM NoTwoServers ==
  ASSUME Prompt
  PROVE  HttpdSpec => []ServersNeverOverlap
<1>1. HttpdTypeOK /\ ServerInv => ServersNeverOverlap
  BY DEF ServerInv, ServersNeverOverlap, OneChild, OneInForeground, HttpdTypeOK, Calls
<1> QED BY <1>1, ServerInvariant, PTL

-----------------------------------------------------------------------------
(***************************************************************************)
(* http.c implements the abstract service.  A call of http.c maps to a     *)
(* phase, and its steps to the steps of the service at the moment their    *)
(* effect can be seen: the spawn is where the server appears, its exit or  *)
(* crash is where it vanishes, the rest is inside a phase.                 *)
(***************************************************************************)
ServiceStepOK == [Service!Next]_(Service!serviceVars)

\* There is one process at most, so one that goes leaves none.
LEMMA AtMostOne ==
  ASSUME HttpdTypeOK, ServerInv
  PROVE  \E p : Alive \subseteq {p}
BY DEF HttpdTypeOK, Calls, ServerInv, OneChild, OneInForeground

\* While a server is there its mode does not change.
LEMMA ProcessesKeepModes ==
  ASSUME HttpdTypeOK, NEW p \in Pids, HttpdWorks(p) \/ HttpdCrashes(p),
         NEW q \in Alive'
  PROVE  httpd'[q].mode = httpd[q].mode
<1> USE DEF HttpdTypeOK, Alive, NoProcess
<1>1. CASE HttpdCreatesPidfile(p)
  BY <1>1 DEF HttpdCreatesPidfile
<1>2. CASE HttpdWritesPid(p)
  BY <1>2 DEF HttpdWritesPid
<1>3. CASE HttpdExits(p)
  BY <1>3 DEF HttpdExits
<1>4. CASE HttpdCrashes(p)
  BY <1>4 DEF HttpdCrashes
<1> QED BY <1>1, <1>2, <1>3, <1>4 DEF HttpdWorks

LEMMA ProcessServes ==
  ASSUME HttpdTypeOK, ServerInv, NEW p \in Pids, HttpdWorks(p) \/ HttpdCrashes(p)
  PROVE  ServiceStepOK
<1>1. Alive' \subseteq Alive /\ UNCHANGED callVars
  BY ProcessesOnlyEnd
<1>2. Phase' = Phase /\ Known' = Known
  BY <1>1 DEF Phase, Known, callVars
<1>3. CASE Alive' = Alive
  <2>1. Served' = Served
    BY <1>3, ProcessesKeepModes DEF Served
  <2> QED BY <1>2, <2>1 DEF ServiceStepOK, Service!serviceVars
<1>4. CASE Alive' # Alive
  <2>1. Alive' = {} /\ Alive # {}
    BY <1>1, <1>4, AtMostOne
  <2>2. Served' = {} /\ Served # {}
    BY <2>1 DEF Served
  <2> QED BY <1>2, <2>2 DEF ServiceStepOK, Service!Next, Service!Vanish
<1> QED BY <1>3, <1>4

\* Steps of the daemon that neither start nor remove a process.
LEMMA ServedUnchanged ==
  ASSUME UNCHANGED httpd
  PROVE  Served' = Served
BY DEF Served, Alive

\* SIGTERM leaves the process and its mode in the table.
LEMMA SigtermServes ==
  ASSUME HttpdTypeOK, httpd' = Sigterm(httpd_pid)
  PROVE  Served' = Served
<1>1. Alive' = Alive /\ \A p \in Alive : httpd'[p].mode = httpd[p].mode
  BY DEF HttpdTypeOK, Sigterm, Alive
<1> QED BY <1>1 DEF Served

LEMMA CallServes ==
  ASSUME HttpdTypeOK, ServerInv, ServerInv', CallUp \/ CallDown
  PROVE  ServiceStepOK
<1>1. UNCHANGED <<httpd, httpd_pid>> /\ call = "none"
  BY DEF CallUp, CallDown, HttpUp, HttpDown, procVars
<1>2. Served' = Served /\ Known' = Known /\ Phase = "idle"
  BY <1>1, ServedUnchanged DEF Known, Phase
<1>3. CASE CallUp
  <2>1. ~Known /\ Phase' = "starting"
    BY <1>3 DEF CallUp, HttpUp, Known, Phase
  <2> QED BY <1>2, <2>1 DEF ServiceStepOK, Service!Next, Service!Up
<1>4. CASE CallDown
  <2>1. Phase' = "stopping"
    BY <1>4 DEF CallDown, HttpDown, Phase
  <2> QED BY <1>2, <2>1 DEF ServiceStepOK, Service!Next, Service!Down
<1> QED BY <1>3, <1>4

LEMMA KillServes ==
  ASSUME Prompt, HttpdTypeOK, ServerInv, KillHttpd \/ KillSlept
  PROVE  ServiceStepOK
<1> USE HttpdAssumption DEF HttpdAssumption
<1>1. Phase = "stopping"
  BY DEF KillHttpd, KillSlept, Phase
<1>2. CASE KillHttpd /\ httpd_pid # 0
  <2>1. Phase' = Phase /\ Known' = Known
    BY <1>2 DEF KillHttpd, Phase, Known
  <2>2. Served' = Served
    BY <1>2, SigtermServes DEF KillHttpd
  <2> QED BY <2>1, <2>2 DEF ServiceStepOK, Service!serviceVars
<1>3. CASE KillSlept \/ (KillHttpd /\ httpd_pid = 0)
  <2>1. Alive = {}
    BY <1>3 DEF KillHttpd, KillSlept, Died, Prompt, ServerInv, Alive
  <2>2. Phase' = "idle" /\ Known' = FALSE /\ UNCHANGED httpd
    BY <1>3 DEF KillHttpd, KillSlept, Forgotten, Phase, Known, procVars
  <2>3. Served = {} /\ Served' = Served
    BY <2>1, <2>2, ServedUnchanged DEF Served
  <2> QED BY <1>1, <2>2, <2>3 DEF ServiceStepOK, Service!Next, Service!DownReturns
<1> QED BY <1>2, <1>3

LEMMA SpawnServes ==
  ASSUME HttpdTypeOK, ServerInv, SpawnHttpd
  PROVE  ServiceStepOK
<1>1. Phase = "starting" /\ Served = {} /\ Known' = Known
  BY DEF SpawnHttpd, Phase, Known, ServerInv, Served
<1>2. CASE call' \in {"poll", "wait"}
  <2>1. PICK p \in Pids, at \in {"starting", "foreground"} :
          httpd' = [httpd EXCEPT ![p] = [at |-> at, mode |-> args.mode]]
    BY <1>2 DEF SpawnHttpd
  <2>2. Alive' = {p} /\ httpd'[p].mode = args.mode
    BY <2>1 DEF HttpdTypeOK, SpawnHttpd, ServerInv, Alive
  <2>3. Served' = {args.mode} /\ args.mode \in Modes /\ Phase' = Phase
    BY <1>2, <2>2 DEF Served, HttpdTypeOK, Phase, SpawnHttpd
  <2> QED BY <1>1, <2>3 DEF ServiceStepOK, Service!Next, Service!Appear
<1>3. CASE call' = "none"
  <2>1. Served' = Served /\ Phase' = "idle"
    BY <1>3, ServedUnchanged DEF SpawnHttpd, Phase
  <2>2. Known' \in BOOLEAN
    BY DEF Known
  <2> QED BY <1>1, <2>1, <2>2 DEF ServiceStepOK, Service!Next, Service!UpReturns
<1> QED BY <1>2, <1>3 DEF SpawnHttpd

LEMMA ReadServes ==
  ASSUME HttpdTypeOK, ServerInv, NEW mode \in Modes, ReadSettings(mode)
  PROVE  ServiceStepOK
<1>1. Phase = "starting" /\ Served = {} /\ Known' = Known /\ Served' = Served
  BY ServedUnchanged
     DEF ReadSettings, Phase, Known, ServerInv, Served, procVars
<1>2. CASE call' = "spawn"
  <2>1. Phase' = Phase
    BY <1>2 DEF ReadSettings, Phase
  <2> QED BY <1>1, <2>1 DEF ServiceStepOK, Service!serviceVars
<1>3. CASE call' = "none"
  <2>1. Phase' = "idle" /\ Known' \in BOOLEAN
    BY <1>3 DEF Phase, Known
  <2> QED BY <1>1, <2>1 DEF ServiceStepOK, Service!Next, Service!UpReturns
<1> QED BY <1>2, <1>3 DEF ReadSettings

LEMMA PollServes ==
  ASSUME Prompt, HttpdTypeOK, ServerInv, ServerInv',
         PollFound \/ PollAgain \/ PollGivesUp \/ WaitEnds
  PROVE  ServiceStepOK
<1> USE HttpdAssumption DEF HttpdAssumption
<1>1. Phase = "starting" /\ UNCHANGED httpd
  BY DEF PollFound, PollAgain, PollGivesUp, WaitEnds, Phase, procVars
<1>2. Served' = Served
  BY <1>1, ServedUnchanged
<1>3. CASE PollAgain
  <2>1. Phase' = Phase /\ Known' = Known
    BY <1>3 DEF PollAgain, Phase, Known
  <2> QED BY <1>2, <2>1 DEF ServiceStepOK, Service!serviceVars
<1>4. CASE PollFound \/ PollGivesUp \/ WaitEnds
  <2>1. call' = "none" /\ Phase' = "idle" /\ Known' \in BOOLEAN
    BY <1>4 DEF PollFound, PollGivesUp, WaitEnds, Phase, Known
  <2>2. Alive' \subseteq {httpd_pid'}
    BY <2>1 DEF ServerInv
  <2>3. Served' # {} => Known'
    BY <2>2 DEF Served, Known, Alive
  <2> QED BY <1>1, <1>2, <2>1, <2>3 DEF ServiceStepOK, Service!Next, Service!UpReturns
<1> QED BY <1>3, <1>4

\* Every step of http.c, of its caller and of httpd is a step of the service
\* or leaves it as it is.
LEMMA ServiceStep ==
  ASSUME Prompt, HttpdTypeOK, ServerInv, ServerInv', [HttpdNext]_httpdVars
  PROVE  ServiceStepOK
<1>1. CASE ProcessEnds \/ UNCHANGED httpdVars
  <2>1. /\ httpd_pid' = httpd_pid /\ UNCHANGED httpd
        /\ call' = call
    BY <1>1 DEF ProcessEnds, NewProcess, Prompt, httpdVars, procVars
  <2>2. Phase' = Phase /\ Known' = Known /\ Served' = Served
    BY <2>1, ServedUnchanged DEF Phase, Known
  <2> QED BY <2>2 DEF ServiceStepOK, Service!serviceVars
<1> QED
  BY <1>1, CallServes, KillServes, SpawnServes, PollServes, ReadServes,
     ProcessServes DEF HttpdNext, HttpSteps

LEMMA ServiceStart == HttpdInit => Service!Init
<1> SUFFICES ASSUME HttpdInit PROVE Service!Init
  OBVIOUS
<1>1. Phase = "idle" /\ ~Known /\ Alive = {}
  BY DEF HttpdInit, Phase, Known, Alive, NoProcess
<1>2. Served = {}
  BY <1>1 DEF Served
<1> QED BY <1>1, <1>2 DEF Service!Init

\* The pid file, the signals and the polls of http.c implement the service
\* the daemon relies on.
THEOREM HttpdImplementsService ==
  ASSUME Prompt
  PROVE  HttpdSpec => ServiceImplemented
<1>1. /\ HttpdTypeOK /\ ServerInv /\ (HttpdTypeOK /\ ServerInv)'
      /\ [HttpdNext]_httpdVars
      => [Service!Next]_(Service!serviceVars)
  BY ServiceStep DEF ServiceStepOK
<1> QED
  BY <1>1, ServiceStart, ServerInvariant, PTL
     DEF HttpdSpec, ServiceImplemented, Service!Spec
=============================================================================
