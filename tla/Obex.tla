-------------------------------- MODULE Obex --------------------------------
(***************************************************************************)
(* src/src/obexftp.c and obexpush.c (its server part): the two OBEX        *)
(* servers the daemon asks the D-Bus service org.openobex for.             *)
(*                                                                         *)
(* Each file keeps two proxies, to the manager and to the server it had    *)
(* the manager create.  A call of up, down or restart is a few blocking    *)
(* D-Bus calls in which the daemon does nothing else, so each is one       *)
(* operator here: from the proxies and the state of the remote server to   *)
(* the set of proxies and remote states the call can end in.               *)
(*                                                                         *)
(* The remote server is external, modelled as the error handling of the    *)
(* code takes it: "stopped" after CreateBluetoothServer, "started" after   *)
(* Start, "none" before, and once org.openobex lost it (every call on it   *)
(* fails then).  A call that fails, by a timeout say, may still have taken *)
(* effect.                                                                 *)
(***************************************************************************)

CONSTANT ObexErrors  \* TRUE: any D-Bus call can fail although it need not

RemoteStates == {"none", "stopped", "started"}

\* manager, server: the proxies are not NULL.  write, pairing: the settings
\* the remote server runs with.
ObexState == [manager : BOOLEAN, server : BOOLEAN, remote : RemoteStates,
              write : BOOLEAN, pairing : BOOLEAN]

NoProxies == [manager |-> FALSE, server |-> FALSE, remote |-> "none",
              write |-> FALSE, pairing |-> FALSE]

ASSUME ObexAssumption == ObexErrors \in BOOLEAN

Failing(results) == IF ObexErrors THEN results ELSE {}

\* Both proxies are released; a running server stays as it is, of any other
\* nothing is left to know.  A plausible bug: the manager proxy is kept.
MutReleased(o) == [o EXCEPT !.server = FALSE]
Released(o) ==
  IF o.remote = "started" THEN [o EXCEPT !.manager = FALSE, !.server = FALSE]
  ELSE NoProxies

\* CreateBluetoothServer, unless there is a manager proxy.  A failure clears
\* the proxy again.  What the service does when it still runs a server of
\* ours is its own affair: it hands that one out, or fails.
CreateServer(o, pairing) ==
  IF o.manager THEN {o}
  ELSE LET m == [o EXCEPT !.manager = TRUE] IN
       Failing({o}) \cup
       IF o.remote = "started" THEN {m, o}
       ELSE {[m EXCEPT !.remote = "stopped", !.pairing = pairing]}

\* Start: Error.Started is ignored and leaves the running server's settings
\* as they are, any other error releases both proxies.
StartServer(o, write) ==
  LET s == [o EXCEPT !.server = TRUE]
      started == [s EXCEPT !.remote = "started", !.write = write]
  IN CASE s.remote = "started" -> {s} \cup Failing({Released(s)})
       [] s.remote = "stopped" ->
            {started} \cup Failing({Released(s), Released(started)})
       [] OTHER -> {Released(s)}

\* obexftp_up, obexpush_up
ObexUp(o, write, pairing) ==
  UNION {IF s.manager THEN StartServer(s, write) ELSE {s} :
           s \in CreateServer(o, pairing)}

\* Close: with NotStarted too the function goes on to release the proxies if
\* it is to; with any other error it ends with both proxies still set.
\* A plausible bug: the call is forgotten.
MutClosed(o) == o
Closed(o) == [o EXCEPT !.remote = "stopped", !.write = FALSE]

\* obexftp_stop, obexpush_stop
ObexStop(o, stop_manager) ==
  IF ~o.server \/ o.remote = "none" THEN {o}
  ELSE {IF stop_manager THEN Released(Closed(o)) ELSE Closed(o)}
         \cup Failing({o, Closed(o)})

ObexDown(o) == ObexStop(o, TRUE)

ObexRestart(o, write, pairing) ==
  UNION {ObexUp(s, write, pairing) : s \in ObexStop(o, FALSE)}

\* org.openobex loses the server (external).
ObexLost(o) == [o EXCEPT !.remote = "none", !.write = FALSE, !.pairing = FALSE]

\* The proxies come and go together: obexftp_stop releases manager_proxy
\* whenever server_proxy is set, obexftp_up trusts server_proxy to be set
\* when manager_proxy is.
ProxiesTogether(o) == o.manager = o.server

\* Only a server the daemon holds proxies for is running (when no call fails).
NoStrayServer(o) == o.remote = "started" => o.server
=============================================================================
