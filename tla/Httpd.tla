------------------------------- MODULE Httpd -------------------------------
(***************************************************************************)
(* src/src/http.c: the web server manager inside the mate-user-share       *)
(* daemon, and the httpd processes it spawns.                              *)
(*                                                                         *)
(* http.c keeps one static variable, httpd_pid, and offers http_up() and   *)
(* http_down().  Both block the daemon and are not atomic for the httpd    *)
(* processes: http_down() sends SIGTERM and sleeps one second, http_up()   *)
(* reads the settings, removes the pid file, spawns httpd (which detaches  *)
(* itself) and polls for the pid file httpd writes.  Each of those is one  *)
(* action here.  The httpd processes are external: apache writes its pid   *)
(* file after it detached, and removes it when it exits.                   *)
(***************************************************************************)
EXTENDS Integers, FiniteSets

CONSTANTS
  Pids,       \* process ids httpd processes get (an id is reused once free)
  Modes,      \* values of the setting require-password
  Tries,      \* how often spawn_httpd looks for the pid file (5 in the code)
  SockLimit,  \* descriptors get_port can use up ("few_descriptors" only)
  Faults      \* what the environment may do, a subset of HttpdFaults

(***************************************************************************)
(* spawn_fails: httpd is not installed, cannot be executed or exits with   *)
(* an error.  slow_start: httpd needs longer than all polls to write its   *)
(* pid file.  slow_exit: httpd outlives the sleep(1) of kill_httpd.        *)
(* torn_pidfile: the file can be read while still empty.  httpd_crash: a   *)
(* server dies and leaves its pid file.  few_descriptors: the sockets      *)
(* get_port leaves open use up the descriptors of the process.             *)
(* httpd_hangs: a program of httpd that http_up waits for does not end,    *)
(* be it httpd -v or a server that stays in the foreground.                *)
(***************************************************************************)
HttpdFaults == {"spawn_fails", "slow_start", "slow_exit", "torn_pidfile",
                "httpd_crash", "few_descriptors", "httpd_hangs", "daemon_killed"}

ASSUME HttpdAssumption ==
  /\ Pids \subseteq Nat \ {0}
  /\ Tries \in Nat \ {0}
  /\ SockLimit \in Nat
  /\ Modes # {}

VARIABLES
  httpd_pid,  \* static pid_t httpd_pid, 0 for none
  call,       \* where inside http.c the daemon is, "none" when it is not
  args,       \* what spawn_httpd puts in argv: the password mode, Listen
  tries,      \* the loop variable of the polling loop
  socks,      \* sockets get_port opened and never closed
  httpd,      \* the httpd processes: their state and the mode they enforce
  pidfile     \* what atoi reads in the pid file: {} no file, {0} empty, {p}

callVars == <<httpd_pid, call, args, tries, socks>>
procVars == <<httpd, pidfile>>
httpdVars == <<httpd_pid, call, args, tries, socks, httpd, pidfile>>

Calls == {"none", "kill", "sleep", "up", "spawn", "wait", "poll"}
ProcStates == {"free", "starting", "opened", "up", "foreground", "dying"}

DefaultMode == CHOOSE m \in Modes : TRUE
NoProcess == [at |-> "free", mode |-> DefaultMode]
NoArgs == [listen |-> TRUE, mode |-> DefaultMode]

Alive == {p \in Pids : httpd[p].at # "free"}

HttpdTypeOK ==
  /\ httpd_pid \in Pids \cup {0}
  /\ call \in Calls
  /\ args \in [listen : BOOLEAN, mode : Modes]
  /\ tries \in 0 .. Tries - 1
  /\ socks \in 0 .. SockLimit
  /\ httpd \in [Pids -> [at : ProcStates, mode : Modes]]
  /\ pidfile \in {{}} \cup {{n} : n \in Pids \cup {0}}

HttpdInit ==
  /\ httpd_pid = 0
  /\ call = "none"
  /\ args = NoArgs
  /\ tries = 0
  /\ socks = 0
  /\ httpd = [p \in Pids |-> NoProcess]
  /\ pidfile = {}

-----------------------------------------------------------------------------
(* http_down *)

\* A call of http_down, and of kill_httpd in it.
HttpDown ==
  /\ call' = "kill"
  /\ UNCHANGED <<httpd_pid, args, tries, socks>>

\* SIGTERM is sent to whatever process has the id; a free id is no error.
Sigterm(p) ==
  IF p \in Alive THEN [httpd EXCEPT ![p].at = "dying"] ELSE httpd

\* kill_httpd up to its sleep: with httpd_pid = 0 it returns at once.
KillHttpd ==
  /\ call = "kill"
  /\ IF httpd_pid # 0
       THEN /\ httpd' = Sigterm(httpd_pid)
            /\ call' = "sleep"
       ELSE /\ call' = "none"
            /\ httpd' = httpd
  /\ UNCHANGED <<httpd_pid, args, tries, socks, pidfile>>

\* The sleep(1) ends.  Unless httpd is slow to exit it is gone by then.
\* A plausible bug: the sleep is dropped, http_down returns at once.
MutDied == TRUE
Died == "slow_exit" \in Faults \/ httpd_pid \notin Alive

\* A plausible bug: the pid of the dead server is kept.
MutForgotten == httpd_pid
Forgotten == 0

KillSlept ==
  /\ call = "sleep"
  /\ Died
  /\ httpd_pid' = Forgotten
  /\ call' = "none"
  /\ UNCHANGED <<args, tries, socks, procVars>>

-----------------------------------------------------------------------------
(* http_up *)

\* A call of http_up.
HttpUp ==
  /\ call' = "up"
  /\ UNCHANGED <<httpd_pid, args, tries, socks>>

\* get_port leaves its socket open: that keeps the port from being given
\* away, and takes a descriptor of the daemon for ever.
PortFound == "few_descriptors" \in Faults => socks < SockLimit

\* get_port, get_httpd_program, httpd -v, and the argv built from
\* require-password.  With httpd_hangs nothing makes this step happen.
ReadSettings(mode) ==
  /\ call = "up"
  /\ \/ /\ args' = [listen |-> PortFound, mode |-> mode]
        /\ call' = "spawn"
     \/ /\ "spawn_fails" \in Faults       \* no httpd program: return FALSE
        /\ call' = "none"
        /\ args' = args
  /\ socks' = IF "few_descriptors" \in Faults /\ PortFound
                THEN socks + 1 ELSE socks
  /\ UNCHANGED <<httpd_pid, tries, procVars>>

\* A plausible bug: the pid file is not removed before spawning.
MutUnlinked == pidfile
Unlinked == {}

\* unlink of the pid file, then g_spawn_sync: it waits for the process that
\* detaches the server, so a status of 0 says only that it was forked.  It
\* fails without a port ("Listen -1"), by a fault, or when no id is left, and
\* goes on waiting for a server that does not detach (bound: one at a time;
\* the pid file of that one, which nobody looks for, is left out).
SpawnHttpd ==
  /\ call = "spawn"
  /\ pidfile' = Unlinked
  /\ tries' = 0
  /\ \/ /\ args.listen
        /\ \E p \in Pids \ Alive :
             httpd' = [httpd EXCEPT ![p] = [at |-> "starting", mode |-> args.mode]]
        /\ call' = "poll"
     \/ /\ "httpd_hangs" \in Faults /\ args.listen
        /\ \A p \in Pids : httpd[p].at # "foreground"
        /\ \E p \in Pids \ Alive :
             httpd' = [httpd EXCEPT ![p] = [at |-> "foreground", mode |-> args.mode]]
        /\ call' = "wait"
     \/ /\ ~args.listen \/ "spawn_fails" \in Faults \/ Pids \subseteq Alive
        /\ httpd' = httpd
        /\ call' = "none"
  /\ args' = NoArgs
  /\ UNCHANGED <<httpd_pid, socks>>

\* The server that stayed in the foreground has died: its status is no 0.
WaitEnds ==
  /\ call = "wait"
  /\ \A p \in Pids : httpd[p].at # "foreground"
  /\ call' = "none"
  /\ UNCHANGED <<httpd_pid, args, tries, socks, procVars>>

\* The pid file is there: its number becomes httpd_pid, 0 for an empty file.
PollFound ==
  /\ call = "poll"
  /\ httpd_pid' \in pidfile
  /\ call' = "none"
  /\ tries' = 0
  /\ UNCHANGED <<args, socks, procVars>>

\* Plausible bugs: one look too many, a loop that does not count.
MutLastTry == tries = Tries
LastTry == tries = Tries - 1
MutNextTry == tries
NextTry == tries + 1

\* No pid file yet: sleep(1) and look again.
PollAgain ==
  /\ call = "poll"
  /\ pidfile = {}
  /\ ~LastTry
  /\ tries' = NextTry
  /\ UNCHANGED <<httpd_pid, call, args, socks, procVars>>

\* The last look failed too.  Unless httpd is slow to start it has died.
PollGivesUp ==
  /\ call = "poll"
  /\ pidfile = {}
  /\ LastTry
  /\ "slow_start" \in Faults
       \/ \A p \in Pids : httpd[p].at \notin {"starting", "opened"}
  /\ call' = "none"
  /\ tries' = 0
  /\ UNCHANGED <<httpd_pid, args, socks, procVars>>

HttpSteps ==
  \/ KillHttpd \/ KillSlept \/ SpawnHttpd \/ WaitEnds
  \/ PollFound \/ PollAgain \/ PollGivesUp

-----------------------------------------------------------------------------
(* The httpd processes, external *)

\* The file is created before the number is in it.
HttpdCreatesPidfile(p) ==
  /\ "torn_pidfile" \in Faults
  /\ httpd[p].at = "starting"
  /\ httpd' = [httpd EXCEPT ![p].at = "opened"]
  /\ pidfile' = {0}
  /\ UNCHANGED callVars

\* The number is written; into a file already unlinked it is lost.
HttpdWritesPid(p) ==
  /\ \/ /\ httpd[p].at = "starting"
        /\ "torn_pidfile" \notin Faults
        /\ pidfile' = {p}
     \/ /\ httpd[p].at = "opened"
        /\ pidfile' \in {pidfile} \cup {{p} : f \in pidfile}
  /\ httpd' = [httpd EXCEPT ![p].at = "up"]
  /\ UNCHANGED callVars

\* A server that got SIGTERM removes the pid file, whoever wrote it.
HttpdExits(p) ==
  /\ httpd[p].at = "dying"
  /\ httpd' = [httpd EXCEPT ![p] = NoProcess]
  /\ pidfile' = {}
  /\ UNCHANGED callVars

HttpdCrashes(p) ==
  /\ "httpd_crash" \in Faults
  /\ httpd[p].at \in {"starting", "opened", "up", "foreground"}
  /\ httpd' = [httpd EXCEPT ![p] = NoProcess]
  /\ UNCHANGED <<callVars, pidfile>>

\* What a process does unless something kills it.
HttpdWorks(p) == HttpdCreatesPidfile(p) \/ HttpdWritesPid(p) \/ HttpdExits(p)

-----------------------------------------------------------------------------
(***************************************************************************)
(* http.c on its own: a caller that keeps to the discipline of             *)
(* user_share.c (http_up only when http_get_pid() is 0), and the end of    *)
(* the process with its static variables, which leaves the httpd processes *)
(* and the pid file behind.                                                *)
(***************************************************************************)
CallUp == call = "none" /\ httpd_pid = 0 /\ HttpUp /\ UNCHANGED procVars
CallDown == call = "none" /\ HttpDown /\ UNCHANGED procVars

\* The statics of a new process.
NewProcess ==
  /\ httpd_pid' = 0 /\ call' = "none" /\ args' = NoArgs
  /\ tries' = 0 /\ socks' = 0

ProcessEnds ==
  /\ (call = "none" /\ httpd_pid = 0) \/ "daemon_killed" \in Faults
  /\ NewProcess
  /\ UNCHANGED procVars

HttpdNext ==
  \/ CallUp \/ CallDown \/ ProcessEnds
  \/ HttpSteps
  \/ \E mode \in Modes : ReadSettings(mode)
  \/ \E p \in Pids : HttpdWorks(p) \/ HttpdCrashes(p)

\* The daemon runs, sleeps end, and httpd gets as far as its pid file and
\* reacts to SIGTERM.  Nothing makes a server crash, nor httpd -v end if it may
\* hang.
Hangs == "httpd_hangs" \in Faults /\ call = "up"

HttpdFairness ==
  /\ WF_httpdVars(HttpSteps)
  /\ WF_httpdVars(~Hangs /\ \E mode \in Modes : ReadSettings(mode))
  /\ \A p \in Pids : WF_httpdVars(HttpdWorks(p))

HttpdSpec == HttpdInit /\ [][HttpdNext]_httpdVars /\ HttpdFairness

-----------------------------------------------------------------------------
(* Properties *)

\* Outside http.c the only httpd process there may be is the one http_down
\* would kill: no server serves the Public directory behind the daemon's back.
NoOrphan == call = "none" => Alive \subseteq {httpd_pid}

\* http_down followed by http_up (a changed password) never has two servers
\* at a time, with two password modes on the same files.
ServersNeverOverlap == \A p, q \in Alive : p = q

\* What http.c promises: the calls and the servers of the abstract service.
Phase ==
  IF call = "none" THEN "idle"
  ELSE IF call \in {"kill", "sleep"} THEN "stopping" ELSE "starting"

Served == {httpd[p].mode : p \in Alive}
Known == httpd_pid # 0

Service == INSTANCE WebService WITH
  phase <- Phase, serving <- Served, known <- Known

\* With an httpd that reacts in time http.c implements the service, whatever
\* crashes, fails to spawn or runs out: a server appears only inside http_up,
\* one at a time, and is known or gone when the daemon goes on.
ServiceImplemented == Service!Spec

\* The daemon comes back from every http_up and http_down, however the servers
\* crash, hang about or never show, unless http_up waits for ever for a program
\* that does not end: of httpd -v (line 244) and of g_spawn_sync (line 342) the
\* code bounds neither, of the sleeps and the polls each.
CallReturns ==
  (call # "none" ~> call = "none") \/ <>[](call \in {"up", "wait"})

\* The pid file is removed before spawning "to avoid races with child and old
\* pidfile" (http.c:338): polling does not give up on a server that is up.
PidfileNotRaced == [][PollGivesUp => \A p \in Pids : httpd[p].at # "up"]_httpdVars
=============================================================================
