------------------------------ MODULE MCHttpd ------------------------------
(* Httpd on a small instance: three process ids, two password modes.      *)
EXTENDS HttpdHistory

MCPids == {1, 2, 3}
MCModes == {"never", "always"}
=============================================================================
