---------------------------- MODULE HttpdHistory ----------------------------
(***************************************************************************)
(* Httpd with a history variable: which processes there have been since    *)
(* the pid file was last removed.  It says whose number http_up may find   *)
(* in the file, whatever faults there are, the daemon killed and started   *)
(* again among them.                                                       *)
(***************************************************************************)
EXTENDS Httpd

VARIABLE since  \* history: processes alive at some time since the last unlink

historyVars == <<httpdVars, since>>

HistoryInit == HttpdInit /\ since = {}

\* spawn_httpd has got past its unlink, with a process or on its way to one.
Spawned == call = "spawn" /\ call' \in {"poll", "wait"}

HistoryNext ==
  /\ HttpdNext
  /\ since' = IF Spawned THEN Alive' ELSE since \cup Alive'

HistorySpec ==
  HistoryInit /\ [][HistoryNext]_historyVars /\ HttpdFairness

\* "avoid races with [...] old pidfile" (http.c:338): a number that http_up
\* takes from the pid file is that of a server there was since it removed the
\* file, or 0 for an empty one.  It is never what an httpd left that crashed
\* before, or that was up when an earlier daemon was killed and has died since.
FreshPidAdopted ==
  [][PollFound => httpd_pid' \in since \cup {0}]_historyVars
=============================================================================
