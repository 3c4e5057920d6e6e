----------------------------- MODULE WebService -----------------------------
(***************************************************************************)
(* What http.c promises the daemon, without pid files, signals and polls:  *)
(* a WebDAV service that is brought up and taken down by calls that take   *)
(* time.  There is one server at most; it appears only inside a call of    *)
(* http_up, with one password mode it keeps for life; when the call        *)
(* returns, a server that is there is known, and when http_down returns    *)
(* there is none.  A server may die at any moment.                         *)
(*                                                                         *)
(* Httpd shows that http.c implements this, with an httpd that starts and  *)
(* exits in time.                                                          *)
(***************************************************************************)
CONSTANT Modes  \* values of the setting require-password

VARIABLES
  phase,    \* the call under way: "idle", "starting" or "stopping"
  serving,  \* the mode of the server that is there, as a set
  known     \* what http_get_pid() # 0 tells the daemon

serviceVars == <<phase, serving, known>>

Init == phase = "idle" /\ serving = {} /\ known = FALSE

\* http_up is called only when http_get_pid() is 0.
Up ==
  /\ phase = "idle" /\ ~known
  /\ phase' = "starting"
  /\ UNCHANGED <<serving, known>>

Appear(mode) ==
  /\ phase = "starting" /\ serving = {}
  /\ serving' = {mode}
  /\ UNCHANGED <<phase, known>>

\* ... and returns: with the server known, or without one; a server that is
\* known may be dead already.
UpReturns ==
  /\ phase = "starting"
  /\ phase' = "idle"
  /\ known' \in BOOLEAN
  /\ serving # {} => known'
  /\ UNCHANGED serving

Down ==
  /\ phase = "idle"
  /\ phase' = "stopping"
  /\ UNCHANGED <<serving, known>>

DownReturns ==
  /\ phase = "stopping" /\ serving = {}
  /\ phase' = "idle"
  /\ known' = FALSE
  /\ UNCHANGED serving

\* The server ends, killed or by itself.
Vanish ==
  /\ serving # {}
  /\ serving' = {}
  /\ UNCHANGED <<phase, known>>

Next ==
  \/ Up \/ UpReturns \/ Down \/ DownReturns \/ Vanish
  \/ \E mode \in Modes : Appear(mode)

Spec == Init /\ [][Next]_serviceVars
=============================================================================
