--------------------------- MODULE History_proof ---------------------------
(***************************************************************************)
(* A theorem about HttpdHistory, under every fault and with any number of  *)
(* process ids and daemons one after the other.                            *)
(***************************************************************************)
EXTENDS HttpdHistory, Httpd_proof

\* Who can write into the file has been alive since it was removed.
FreshInv ==
  /\ HttpdTypeOK
  /\ call = "poll" => Alive \subseteq since /\ pidfile \subseteq since \cup {0}

LEMMA FreshStep ==
  ASSUME FreshInv, [HistoryNext]_historyVars
  PROVE  FreshInv'
<1> USE DEF FreshInv
<1>1. HttpdTypeOK'
  BY TypeStep DEF HistoryNext, historyVars
<1>2. CASE UNCHANGED historyVars
  BY <1>1, <1>2 DEF historyVars, httpdVars, Alive
<1>3. CASE SpawnHttpd /\ HistoryNext
  BY <1>1, <1>3 DEF SpawnHttpd, HistoryNext, Spawned, Unlinked
<1>4. CASE ~SpawnHttpd /\ HistoryNext /\ call' = "poll"
  <2>1. PollAgain \/ \E p \in Pids : HttpdWorks(p) \/ HttpdCrashes(p)
    BY <1>4 DEF HistoryNext, HttpdNext, HttpSteps, CallUp, CallDown, ProcessEnds,
                NewProcess, HttpUp, HttpDown, KillHttpd, KillSlept, WaitEnds,
                PollFound, PollGivesUp, ReadSettings
  <2>2. call = "poll"
    BY <1>4, <2>1 DEF PollAgain, HttpdWorks, HttpdCreatesPidfile, HttpdWritesPid,
                      HttpdExits, HttpdCrashes, callVars
  <2>3. since' = since \cup Alive'
    BY <1>4, <2>2 DEF HistoryNext, Spawned
  <2>4. CASE PollAgain
    BY <1>1, <2>2, <2>3, <2>4 DEF PollAgain, procVars
  <2>5. ASSUME NEW p \in Pids, HttpdWorks(p) \/ HttpdCrashes(p)
        PROVE  pidfile' \subseteq pidfile \cup {0, p} /\ p \in Alive
    BY <2>5 DEF HttpdWorks, HttpdCreatesPidfile, HttpdWritesPid, HttpdExits,
                HttpdCrashes, Alive
  <2> QED BY <1>1, <2>1, <2>2, <2>3, <2>4, <2>5
<1> QED BY <1>1, <1>2, <1>3, <1>4

\* The number http_up takes for its server's was written after it had removed
\* what was there, by a server alive at that time or since.
THEOREM PidIsFresh == HistorySpec => FreshPidAdopted
<1>1. HistoryInit => FreshInv
  <2>1. HttpdInit => HttpdTypeOK
    BY HttpdAssumption, DefaultModeIsMode
       DEF HttpdAssumption, HttpdInit, HttpdTypeOK, Calls, ProcStates,
           NoProcess, NoArgs
  <2> QED BY <2>1 DEF HistoryInit, HttpdInit, FreshInv
<1>2. FreshInv /\ [HistoryNext]_historyVars => FreshInv'
  BY FreshStep
<1>3. FreshInv => (PollFound => httpd_pid' \in since \cup {0})
  BY DEF FreshInv, PollFound
<1> QED BY <1>1, <1>2, <1>3, PTL DEF HistorySpec, FreshPidAdopted
=============================================================================
